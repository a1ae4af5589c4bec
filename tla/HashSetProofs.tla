--------------------------- MODULE HashSetProofs ---------------------------
(* The hash set is right for every set of keys and elements, every hash    *)
(* function and every capacity to begin with: HashInv is an invariant, and *)
(* the set implements KeyMap.                                              *)
EXTENDS HashSetInvariant, FiniteSetTheorems, SequenceTheorems, WellFoundedInduction, TLAPS

-----------------------------------------------------------------------------
(* Numbers and sequences.                                                  *)

LEMMA Least ==
  ASSUME NEW S \in SUBSET Nat, S # {}
  PROVE  \E m \in S : \A n \in S : m <= n
<1>1. PICK m \in S : \A n \in S : <<n, m>> \notin OpToRel(<, Nat)
  BY NatLessThanWellFounded, WFMin
<1>2. ASSUME NEW n \in S PROVE m <= n
  <2>1. <<n, m>> \in Nat \X Nat /\ <<n, m>>[1] = n /\ <<n, m>>[2] = m
    OBVIOUS
  <2>2. ~(n < m)
    BY <1>1, <2>1 DEF OpToRel
  <2> QED BY <2>2
<1> QED BY <1>2

LEMMA IndexType ==
  ASSUME NEW k \in Keys, NEW c \in Nat \ {0}
  PROVE  Index(k, c) \in 0 .. c - 1
BY KeysAssumption DEF Index

LEMMA InRange ==
  ASSUME NEW s \in Seq(Keys), NEW k
  PROVE  /\ k \in Range(s) <=> \E p \in 1 .. Len(s) : s[p] = k
         /\ k \in Range(s) => k \in Keys
BY LenProperties DEF Range

(* No node is in the bucket twice.                                         *)
Injective(s) == \A p, q \in DOMAIN s : s[p] = s[q] => p = q

LEMMA PositionAt ==
  ASSUME NEW s \in Seq(Keys), Injective(s), NEW p \in 1 .. Len(s)
  PROVE  /\ Position(s, s[p]) = p
         /\ Before(s, s[p]) = IF p = 1 THEN Null ELSE s[p - 1]
BY DEF Position, Before, Injective

LEMMA PushFront ==
  ASSUME NEW s \in Seq(Keys), Injective(s), NEW k \in Keys, k \notin Range(s)
  PROVE  /\ <<k>> \o s \in Seq(Keys) /\ Injective(<<k>> \o s)
         /\ Range(<<k>> \o s) = Range(s) \cup {k}
         /\ Len(<<k>> \o s) > 0 /\ (<<k>> \o s)[1] = k
<1> DEFINE t == <<k>> \o s
<1>1. /\ t \in Seq(Keys) /\ Len(t) = Len(s) + 1 /\ t[1] = k
      /\ \A p \in 2 .. Len(t) : t[p] = s[p - 1]
  BY ConcatProperties
<1>2. \A p \in 1 .. Len(s) : s[p] # k /\ t[p + 1] = s[p]
  BY <1>1, InRange, LenProperties
<1> HIDE DEF t
<1>3. Injective(t)
  <2>1. \A p, q \in 1 .. Len(s) : s[p] = s[q] => p = q
    BY LenProperties DEF Injective
  <2> SUFFICES ASSUME NEW p \in 1 .. Len(t), NEW q \in 1 .. Len(t), t[p] = t[q]
               PROVE  p = q
    BY <1>1, LenProperties DEF Injective
  <2>2. CASE p = 1 /\ q # 1
    BY <1>1, <1>2, <2>2, LenProperties
  <2>3. CASE p # 1 /\ q = 1
    BY <1>1, <1>2, <2>3, LenProperties
  <2>4. CASE p # 1 /\ q # 1
    <3>1. p - 1 \in 1 .. Len(s) /\ q - 1 \in 1 .. Len(s)
      BY <1>1, <2>4, LenProperties
    <3>2. s[p - 1] = s[q - 1]
      BY <1>1, <2>4, LenProperties
    <3> QED BY <2>1, <3>1, <3>2, LenProperties
  <2> QED BY <2>2, <2>3, <2>4
<1>4. ASSUME NEW l PROVE l \in Range(t) <=> l \in Range(s) \cup {k}
  <2>1. l \in Range(t) <=> \E p \in 1 .. Len(t) : t[p] = l
    BY <1>1, InRange
  <2>2. l \in Range(s) <=> \E p \in 1 .. Len(s) : s[p] = l
    BY InRange
  <2>3. ASSUME NEW p \in 1 .. Len(t), t[p] = l PROVE l \in Range(s) \cup {k}
    BY <1>1, <2>2, <2>3, LenProperties
  <2>4. ASSUME NEW p \in 1 .. Len(s), s[p] = l PROVE l \in Range(t)
    <3>1. p + 1 \in 1 .. Len(t) /\ t[p + 1] = l
      BY <1>1, <1>2, <2>4, LenProperties
    <3> QED BY <2>1, <3>1
  <2>5. k \in Range(t)
    <3>1. 1 \in 1 .. Len(t) /\ t[1] = k
      BY <1>1, LenProperties
    <3> QED BY <1>1, <3>1, InRange
  <2> QED BY <2>1, <2>2, <2>3, <2>4, <2>5
<1> QED BY <1>1, <1>3, <1>4, LenProperties DEF t

LEMMA PopFront ==
  ASSUME NEW s \in Seq(Keys), Injective(s), s # <<>>
  PROVE  /\ Head(s) \in Keys /\ Head(s) \in Range(s)
         /\ Tail(s) \in Seq(Keys) /\ Injective(Tail(s))
         /\ Range(Tail(s)) = Range(s) \ {Head(s)}
<1>1. /\ Head(s) \in Keys /\ Tail(s) \in Seq(Keys) /\ Len(Tail(s)) = Len(s) - 1
      /\ \A p \in 1 .. Len(s) - 1 : Tail(s)[p] = s[p + 1]
      /\ Len(s) \in Nat \ {0} /\ Head(s) = s[1]
      /\ DOMAIN s = 1 .. Len(s) /\ DOMAIN Tail(s) = 1 .. Len(s) - 1
  BY HeadTailProperties, EmptySeq, LenProperties
<1>2. \A p, q \in 1 .. Len(s) : s[p] = s[q] => p = q
  BY <1>1 DEF Injective
<1>3. Injective(Tail(s))
  BY <1>1, <1>2 DEF Injective
<1>4. ASSUME NEW l PROVE l \in Range(Tail(s)) <=> l \in Range(s) \ {Head(s)}
  <2>1. l \in Range(Tail(s)) <=> \E p \in 1 .. Len(s) - 1 : s[p + 1] = l
    <3>1. l \in Range(Tail(s)) <=> \E p \in 1 .. Len(Tail(s)) : Tail(s)[p] = l
      BY <1>1, InRange
    <3> QED BY <1>1, <3>1
  <2>2. l \in Range(s) <=> \E p \in 1 .. Len(s) : s[p] = l
    BY InRange
  <2>3. ASSUME NEW p \in 1 .. Len(s) - 1, s[p + 1] = l PROVE l \in Range(s) \ {Head(s)}
    BY <1>1, <1>2, <2>2, <2>3
  <2>4. ASSUME NEW p \in 1 .. Len(s), s[p] = l, l # Head(s) PROVE l \in Range(Tail(s))
    <3>1. p - 1 \in 1 .. Len(s) - 1 /\ s[(p - 1) + 1] = l
      BY <1>1, <2>4
    <3> QED BY <2>1, <3>1
  <2> QED BY <2>1, <2>2, <2>3, <2>4
<1>5. Head(s) \in Range(s)
  BY <1>1, InRange
<1> QED BY <1>1, <1>3, <1>4, <1>5

(* What is in front of a node and what is behind it.                       *)
LEMMA Part ==
  ASSUME NEW s \in Seq(Keys), NEW m \in 1 .. Len(s) + 1, NEW n \in 0 .. Len(s), m <= n + 1
  PROVE  /\ SubSeq(s, m, n) \in Seq(Keys)
         /\ Len(SubSeq(s, m, n)) = n - m + 1
         /\ \A q \in 1 .. n - m + 1 : SubSeq(s, m, n)[q] = s[m + q - 1]
<1> DEFINE t == SubSeq(s, m, n)
<1>1. Len(s) \in Nat /\ \A q \in 1 .. Len(s) : s[q] \in Keys
  BY LenProperties, ElementOfSeq
<1>2. m \in Int /\ n \in Int /\ \A q \in m .. n : s[q] \in Keys
  BY <1>1
<1>3. /\ t \in Seq(Keys)
      /\ Len(t) = IF m <= n THEN n - m + 1 ELSE 0
      /\ \A q \in 1 .. n - m + 1 : t[q] = s[m + q - 1]
  BY <1>2, SubSeqProperties
<1> HIDE DEF t
<1>4. Len(t) = n - m + 1
  BY <1>1, <1>3
<1> QED BY <1>3, <1>4 DEF t

(* Taking one node out of a bucket.                                        *)
IsWithout(t, s, p) ==
  /\ t \in Seq(Keys) /\ Len(t) = Len(s) - 1
  /\ \A q \in 1 .. Len(s) - 1 : t[q] = IF q < p THEN s[q] ELSE s[q + 1]

LEMMA Without ==
  ASSUME NEW s \in Seq(Keys), NEW p \in 1 .. Len(s)
  PROVE  IsWithout(SubSeq(s, 1, p - 1) \o SubSeq(s, p + 1, Len(s)), s, p)
<1>1. Len(s) \in Nat
  BY LenProperties
<1>2. PICK u \in Seq(Keys) :
        /\ u = SubSeq(s, 1, p - 1)
        /\ Len(u) = p - 1 /\ \A q \in 1 .. p - 1 : u[q] = s[q]
  <2>1. 1 \in 1 .. Len(s) + 1 /\ p - 1 \in 0 .. Len(s) /\ 1 <= (p - 1) + 1
    BY <1>1
  <2>2. /\ SubSeq(s, 1, p - 1) \in Seq(Keys)
        /\ Len(SubSeq(s, 1, p - 1)) = p - 1 - 1 + 1
        /\ \A q \in 1 .. p - 1 - 1 + 1 : SubSeq(s, 1, p - 1)[q] = s[1 + q - 1]
    BY <2>1, Part
  <2> DEFINE u == SubSeq(s, 1, p - 1)
  <2> SUFFICES Len(u) = p - 1 /\ \A q \in 1 .. p - 1 : u[q] = s[q]
    BY <2>2
  <2>3. Len(u) = p - 1 - 1 + 1 /\ \A q \in 1 .. p - 1 - 1 + 1 : u[q] = s[1 + q - 1]
    BY <2>2
  <2> HIDE DEF u
  <2> QED BY <1>1, <2>3
<1>3. PICK v \in Seq(Keys) :
        /\ v = SubSeq(s, p + 1, Len(s))
        /\ Len(v) = Len(s) - p /\ \A q \in 1 .. Len(s) - p : v[q] = s[p + q]
  <2>1. p + 1 \in 1 .. Len(s) + 1 /\ Len(s) \in 0 .. Len(s) /\ p + 1 <= Len(s) + 1
    BY <1>1
  <2>2. /\ SubSeq(s, p + 1, Len(s)) \in Seq(Keys)
        /\ Len(SubSeq(s, p + 1, Len(s))) = Len(s) - (p + 1) + 1
        /\ \A q \in 1 .. Len(s) - (p + 1) + 1 :
             SubSeq(s, p + 1, Len(s))[q] = s[p + 1 + q - 1]
    BY <2>1, Part
  <2> DEFINE v == SubSeq(s, p + 1, Len(s))
  <2> SUFFICES Len(v) = Len(s) - p /\ \A q \in 1 .. Len(s) - p : v[q] = s[p + q]
    BY <2>2
  <2>3. /\ Len(v) = Len(s) - (p + 1) + 1
        /\ \A q \in 1 .. Len(s) - (p + 1) + 1 : v[q] = s[p + 1 + q - 1]
    BY <2>2
  <2> HIDE DEF v
  <2> QED BY <1>1, <2>3
<1>4. /\ u \o v \in Seq(Keys) /\ Len(u \o v) = Len(u) + Len(v)
      /\ \A q \in 1 .. Len(u) + Len(v) :
           (u \o v)[q] = IF q <= Len(u) THEN u[q] ELSE v[q - Len(u)]
  BY ConcatProperties
<1>5. PICK t \in Seq(Keys) :
        /\ t = u \o v /\ Len(t) = Len(u) + Len(v)
        /\ \A q \in 1 .. Len(u) + Len(v) : t[q] = IF q <= Len(u) THEN u[q] ELSE v[q - Len(u)]
  BY <1>4
<1>6. Len(t) = Len(s) - 1
  <2>1. Len(u) = p - 1 /\ Len(v) = Len(s) - p /\ Len(t) = Len(u) + Len(v)
    BY <1>2, <1>3, <1>5
  <2>2. p \in Int /\ Len(s) \in Int
    BY <1>1
  <2> QED BY <2>1, <2>2
<1>7. ASSUME NEW q \in 1 .. Len(s) - 1 PROVE t[q] = IF q < p THEN s[q] ELSE s[q + 1]
  <2>1. q \in 1 .. Len(u) + Len(v)
    BY <1>1, <1>2, <1>3
  <2>2. CASE q < p
    BY <1>1, <1>2, <1>5, <2>1, <2>2
  <2>3. CASE q >= p
    <3>1. q - Len(u) \in 1 .. Len(s) - p /\ ~(q <= Len(u)) /\ p + (q - Len(u)) = q + 1
      BY <1>1, <1>2, <2>3
    <3>2. v[q - Len(u)] = s[q + 1]
      BY <1>3, <3>1
    <3> QED BY <1>1, <1>5, <2>1, <2>3, <3>1, <3>2
  <2> QED BY <1>1, <2>2, <2>3
<1> QED BY <1>2, <1>3, <1>5, <1>6, <1>7 DEF IsWithout

LEMMA TakeOut ==
  ASSUME NEW s \in Seq(Keys), Injective(s), NEW p \in 1 .. Len(s),
         NEW t, IsWithout(t, s, p)
  PROVE  t \in Seq(Keys) /\ Injective(t) /\ Range(t) = Range(s) \ {s[p]}
<1>0. /\ t \in Seq(Keys) /\ Len(t) = Len(s) - 1 /\ DOMAIN t = 1 .. Len(s) - 1
      /\ \A q \in 1 .. Len(s) - 1 : t[q] = IF q < p THEN s[q] ELSE s[q + 1]
  BY LenProperties DEF IsWithout
<1>1. Len(s) \in Nat /\ DOMAIN s = 1 .. Len(s)
  BY LenProperties
<1>5. \A q, r \in 1 .. Len(s) : s[q] = s[r] => q = r
  BY <1>1 DEF Injective
<1>6. Injective(t)
  BY <1>1, <1>0, <1>5 DEF Injective
<1>7. ASSUME NEW l PROVE l \in Range(t) <=> l \in Range(s) \ {s[p]}
  <2>1. l \in Range(t) <=> \E q \in 1 .. Len(s) - 1 : t[q] = l
    BY <1>0, InRange
  <2>2. l \in Range(s) <=> \E q \in 1 .. Len(s) : s[q] = l
    BY InRange
  <2>3. ASSUME NEW q \in 1 .. Len(s) - 1, t[q] = l PROVE l \in Range(s) /\ l # s[p]
    BY <1>1, <1>0, <1>5, <2>2, <2>3
  <2>4. ASSUME NEW q \in 1 .. Len(s), s[q] = l, l # s[p] PROVE l \in Range(t)
    <3>1. CASE q < p
      BY <1>1, <1>0, <2>1, <2>4, <3>1
    <3>2. CASE q > p
      <4>1. q - 1 \in 1 .. Len(s) - 1 /\ t[q - 1] = l
        BY <1>1, <1>0, <2>4, <3>2
      <4> QED BY <2>1, <4>1
    <3> QED BY <2>4, <3>1, <3>2
  <2> QED BY <2>1, <2>2, <2>3, <2>4
<1> QED BY <1>0, <1>6, <1>7

-----------------------------------------------------------------------------
(* Buckets.                                                                *)

(* A node of an array of buckets is in the bucket of its hash.             *)
LEMMA InBucket ==
  ASSUME NEW c \in Nat \ {0}, NEW t \in [0 .. c - 1 -> Seq(Keys)], InPlace(t, c), NEW k
  PROVE  /\ k \in KeysIn(t) => k \in Keys
         /\ k \in Keys => (k \in KeysIn(t) <=> k \in Range(t[Index(k, c)]))
<1>1. k \in KeysIn(t) <=> \E b \in 0 .. c - 1 : k \in Range(t[b])
  BY DEF KeysIn
<1>2. \A b \in 0 .. c - 1 : k \in Range(t[b]) => k \in Keys /\ Index(k, c) = b
  BY InRange DEF InPlace
<1>3. k \in Keys => Index(k, c) \in 0 .. c - 1
  BY IndexType
<1> QED BY <1>1, <1>2, <1>3

(* A bucket is changed.                                                    *)
LEMMA Change ==
  ASSUME NEW c \in Nat \ {0}, NEW t \in [0 .. c - 1 -> Seq(Keys)], InPlace(t, c),
         NEW b \in 0 .. c - 1, NEW u \in [0 .. c - 1 -> Seq(Keys)], Injective(u[b]),
         \A k \in Range(u[b]) : Index(k, c) = b,
         \A d \in 0 .. c - 1 : d # b => u[d] = t[d]
  PROVE  /\ InPlace(u, c)
         /\ \A k : k \in KeysIn(u) <=> (k \in KeysIn(t) /\ k \notin Range(t[b])) \/ k \in Range(u[b])
<1> DEFINE s == u[b]
<1>1. u[b] = s /\ \A d \in 0 .. c - 1 : d # b => u[d] = t[d]
  OBVIOUS
<1>2. InPlace(u, c)
  BY <1>1 DEF InPlace, Injective
<1>3. ASSUME NEW k PROVE k \in KeysIn(u) <=> k \in (KeysIn(t) \ Range(t[b])) \cup Range(s)
  <2>1. \A d \in 0 .. c - 1 : d # b /\ k \in Range(t[d]) => k \notin Range(t[b])
    BY DEF InPlace
  <2> QED BY <1>1, <2>1 DEF KeysIn
<1> QED BY <1>1, <1>2, <1>3

LEMMA Empty ==
  ASSUME NEW c \in Nat \ {0}
  PROVE  /\ NoBuckets(c) \in [0 .. c - 1 -> Seq(Keys)]
         /\ InPlace(NoBuckets(c), c) /\ KeysIn(NoBuckets(c)) = {}
<1>1. Range(<<>>) = {} /\ <<>> \in Seq(Keys) /\ DOMAIN <<>> = {}
  BY DEF Range
<1> QED BY <1>1 DEF NoBuckets, InPlace, KeysIn

(* hashset_begin and hashset_it_next find the first bucket with a node.    *)
LEMMA First ==
  ASSUME TypeOK, NEW b \in Nat, NEW end \in Nat
  PROVE  LET f == FirstFrom(b, end)
         IN  \/ /\ f = ItMake(end, Null, Null)
                /\ \A c \in b .. capacity - 1 : buckets[c] = <<>>
             \/ /\ f.bucket_i \in b .. capacity - 1
                /\ buckets[f.bucket_i] # <<>>
                /\ f = ItMake(f.bucket_i, buckets[f.bucket_i][1], Null)
                /\ \A c \in b .. f.bucket_i - 1 : buckets[c] = <<>>
<1> DEFINE N == NonEmptyFrom(b)
<1>1. capacity \in Nat \ {0} /\ buckets \in [0 .. capacity - 1 -> Seq(Keys)]
  BY DEF TypeOK
<1>2. CASE N = {}
  BY <1>2 DEF FirstFrom, NonEmptyFrom
<1>3. CASE N # {}
  <2>1. N \in SUBSET Nat
    BY <1>1 DEF NonEmptyFrom
  <2>2. PICK m \in N : \A n \in N : m <= n
    BY <1>3, <2>1, Least
  <2> DEFINE c == CHOOSE c \in N : \A d \in N : c <= d
  <2>3. c \in N /\ \A d \in N : c <= d
    BY <2>2
  <2>4. FirstFrom(b, end) = ItMake(c, Head(buckets[c]), Null)
    BY <1>3 DEF FirstFrom
  <2> HIDE DEF c
  <2>5. c \in b .. capacity - 1 /\ buckets[c] # <<>>
    BY <2>3 DEF NonEmptyFrom
  <2>6. Head(buckets[c]) = buckets[c][1]
    BY <1>1, <2>5, HeadTailProperties
  <2>7. ASSUME NEW d \in b .. c - 1 PROVE buckets[d] = <<>>
    <3>1. d \in b .. capacity - 1 /\ ~(c <= d)
      BY <1>1, <2>5
    <3> QED BY <2>3, <3>1 DEF NonEmptyFrom
  <2> QED BY <2>4, <2>5, <2>6, <2>7 DEF ItMake
<1> QED BY <1>2, <1>3

-----------------------------------------------------------------------------
(* The invariant.                                                          *)

LEMMA InvInit == Init => HashInv
<1> SUFFICES ASSUME Init PROVE HashInv
  OBVIOUS
<1>1. capacity \in Nat \ {0}
  BY CapacityAssumption DEF Init
<1>2. /\ buckets \in [0 .. capacity - 1 -> Seq(Keys)]
      /\ InPlace(buckets, capacity) /\ Stored = {}
  BY <1>1, Empty DEF Init, Stored
<1>3. TypeOK
  BY <1>1, <1>2 DEF Init, TypeOK, NoIt, ItMake
<1> QED
  BY <1>2, <1>3 DEF HashInv, Init, Moved, DataFits, OwnedIsStored, IteratorFits,
                    IterationComplete, NoIt, ItMake

(* What holds between two calls.                                           *)
LEMMA Idle ==
  ASSUME HashInv, at # "grow"
  PROVE  /\ capacity \in Nat \ {0}
         /\ buckets \in [0 .. capacity - 1 -> Seq(Keys)]
         /\ InPlace(buckets, capacity)
         /\ Stored = KeysIn(buckets)
         /\ Stored \subseteq Keys
<1>1. /\ capacity \in Nat \ {0}
      /\ buckets \in [0 .. capacity - 1 -> Seq(Keys)]
      /\ InPlace(buckets, capacity)
      /\ Stored = KeysIn(buckets)
  BY DEF HashInv, TypeOK, Stored
<1>2. Stored \subseteq Keys
  BY <1>1, InBucket
<1> QED BY <1>1, <1>2

LEMMA Bucket ==
  ASSUME HashInv, NEW b \in 0 .. capacity - 1
  PROVE  buckets[b] \in Seq(Keys) /\ Injective(buckets[b])
BY DEF HashInv, TypeOK, InPlace, Injective

(* hashset_find and hashset_insert hand out an iterator that fits.         *)
LEMMA Found ==
  ASSUME HashInv, at # "grow", NEW k \in Keys, NEW b, b = Index(k, capacity),
         k \in Range(buckets[b])
  PROVE  /\ b \in 0 .. capacity - 1
         /\ \E p \in DOMAIN buckets[b] :
              /\ buckets[b][p] = k
              /\ Before(buckets[b], k) = IF p = 1 THEN Null ELSE buckets[b][p - 1]
         /\ Before(buckets[b], k) \in Keys \cup {Null}
<1>1. b \in 0 .. capacity - 1
  BY Idle, IndexType
<1> DEFINE s == buckets[b]
<1>2. s \in Seq(Keys) /\ Injective(s)
  BY <1>1, Bucket
<1> HIDE DEF s
<1>3. PICK p \in 1 .. Len(s) : s[p] = k
  BY <1>2, InRange DEF s
<1>4. Before(s, k) = IF p = 1 THEN Null ELSE s[p - 1]
  BY <1>2, <1>3, PositionAt
<1>5. Before(s, k) \in Keys \cup {Null}
  BY <1>2, <1>4, ElementOfSeq, LenProperties
<1>6. p \in DOMAIN s
  BY <1>2, LenProperties
<1> QED BY <1>1, <1>3, <1>4, <1>5, <1>6 DEF s

(* What only moves the iterator.                                           *)
Nodes == <<buckets, capacity, size, data, owned, at, arg, new_buckets, i>>

LEMMA SameNodes ==
  ASSUME HashInv, UNCHANGED Nodes
  PROVE  /\ Stored' = Stored
         /\ (InPlace(buckets, capacity) /\ Moved /\ DataFits /\ OwnedIsStored)'
         /\ /\ it' \in [bucket_i : Nat, node : Keys \cup {Null}, prev : Keys \cup {Null}]
            /\ scan' \in BOOLEAN
            /\ seen' \in SUBSET Keys
            => TypeOK'
<1> USE DEF Nodes
<1>1. Stored' = Stored
  BY DEF Stored, KeysIn
<1>2. InPlace(buckets, capacity)'
  BY DEF HashInv, InPlace
<1>3. Moved'
  BY DEF HashInv, Moved, InPlace
<1>4. DataFits'
  BY <1>1 DEF HashInv, DataFits
<1>5. OwnedIsStored'
  BY <1>1 DEF HashInv, OwnedIsStored
<1>6. /\ it' \in [bucket_i : Nat, node : Keys \cup {Null}, prev : Keys \cup {Null}]
      /\ scan' \in BOOLEAN
      /\ seen' \in SUBSET Keys
      => TypeOK'
  BY DEF HashInv, TypeOK
<1> QED BY <1>1, <1>2, <1>3, <1>4, <1>5, <1>6

(* No iterator: nothing to fit.                                            *)
LEMMA NoIterator ==
  /\ NoIt \in [bucket_i : Nat, node : Keys \cup {Null}, prev : Keys \cup {Null}]
  /\ it' = NoIt => IteratorFits'
  /\ it' = NoIt /\ scan' = FALSE => IterationComplete'
BY DEF NoIt, ItMake, IteratorFits, IterationComplete

LEMMA FindInv ==
  ASSUME HashInv, NEW k \in Keys, Find(k)
  PROVE  HashInv'
<1>1. PICK b \in 0 .. capacity - 1 : b = Index(k, capacity)
  BY Idle, IndexType DEF Find
<1>2. it' = Lookup(k) /\ scan' = FALSE /\ seen' = {} /\ at = "idle" /\ UNCHANGED Nodes
  BY DEF Find, Nodes
<1>3. b \in Nat /\ b < capacity /\ k # Null
  BY <1>2, Idle, KeysAssumption
<1>4. CASE k \in Range(buckets[b])
  <2>1. it' = ItMake(b, k, Before(buckets[b], k))
    BY <1>1, <1>2, <1>4 DEF Lookup
  <2>2. PICK p \in DOMAIN buckets[b] :
          /\ buckets[b][p] = k
          /\ Before(buckets[b], k) = IF p = 1 THEN Null ELSE buckets[b][p - 1]
    BY <1>1, <1>2, <1>4, Found
  <2>3. Before(buckets[b], k) \in Keys \cup {Null}
    BY <1>1, <1>2, <1>4, Found
  <2>4. (it').bucket_i = b /\ (it').node = k /\ (it').prev = Before(buckets[b], k)
    BY <2>1 DEF ItMake
  <2>5. TypeOK'
    <3>1. it' \in [bucket_i : Nat, node : Keys \cup {Null}, prev : Keys \cup {Null}]
      BY <1>3, <2>1, <2>3 DEF ItMake
    <3> QED BY <1>2, <3>1, SameNodes
  <2>6. IteratorFits'
    <3>1. AtNode(p)'
      BY <1>2, <2>2, <2>4 DEF AtNode, Nodes
    <3> QED BY <1>2, <1>3, <2>2, <2>4, <3>1 DEF IteratorFits, Nodes
  <2>7. IterationComplete'
    BY <1>2 DEF IterationComplete
  <2> QED BY <1>2, <2>5, <2>6, <2>7, SameNodes DEF HashInv
<1>5. CASE k \notin Range(buckets[b])
  <2>1. it' = NoIt
    BY <1>1, <1>2, <1>5 DEF Lookup
  <2> QED BY <1>2, <2>1, SameNodes, NoIterator DEF HashInv
<1> QED BY <1>4, <1>5

(* The loop goes on in the first bucket from b on, having seen all before. *)
LEMMA OnFrom ==
  ASSUME HashInv, at = "idle", NEW b \in Nat, NEW end \in Nat, UNCHANGED Nodes,
         it' = FirstFrom(b, end), scan' = TRUE,
         NEW S \in SUBSET Keys, seen' = S \cup ({Visit} \ {Null}),
         \A k \in Keys : k \in S <=> \E c \in 0 .. capacity - 1 : c < b /\ k \in Range(buckets[c])
  PROVE  HashInv' /\ (Visit \notin S \/ Visit = Null)
<1>1. /\ capacity \in Nat \ {0}
      /\ buckets \in [0 .. capacity - 1 -> Seq(Keys)]
      /\ Stored = KeysIn(buckets) /\ Stored \subseteq Keys
  BY Idle
<1>2. Range(<<>>) = {}
  BY DEF Range
<1>3. CASE /\ it' = ItMake(end, Null, Null)
           /\ \A c \in b .. capacity - 1 : buckets[c] = <<>>
  <2>1. (it').node = Null /\ Visit = Null
    BY <1>3 DEF ItMake, Visit
  <2>2. TypeOK'
    <3>1. it' \in [bucket_i : Nat, node : Keys \cup {Null}, prev : Keys \cup {Null}]
      BY <1>3 DEF ItMake
    <3> QED BY <2>1, <3>1, SameNodes
  <2>3. IteratorFits'
    BY <2>1 DEF IteratorFits
  <2>4. S = Stored
    <3>1. \A c \in 0 .. capacity - 1 : ~(c < b) => Range(buckets[c]) = {}
      BY <1>1, <1>2, <1>3
    <3> QED BY <1>1, <3>1 DEF KeysIn
  <2>5. IterationComplete'
    BY <2>1, <2>4, SameNodes DEF IterationComplete, Nodes
  <2> QED BY <2>1, <2>2, <2>3, <2>5, SameNodes DEF HashInv
<1>4. CASE /\ (it').bucket_i \in b .. capacity - 1
           /\ buckets[(it').bucket_i] # <<>>
           /\ it' = ItMake((it').bucket_i, buckets[(it').bucket_i][1], Null)
           /\ \A c \in b .. (it').bucket_i - 1 : buckets[c] = <<>>
  <2>1. PICK c \in 0 .. capacity - 1 : c = (it').bucket_i /\ b <= c
    BY <1>1, <1>4
  <2>2. PICK s \in Seq(Keys) : s = buckets[c] /\ Injective(s)
    BY <2>1, Bucket
  <2>3. 1 \in 1 .. Len(s) /\ DOMAIN s = 1 .. Len(s) /\ s[1] \in Keys
    BY <1>4, <2>1, <2>2, EmptySeq, LenProperties, ElementOfSeq
  <2>4. (it').node = s[1] /\ (it').prev = Null /\ Visit = s[1] /\ s[1] # Null
    BY <1>4, <2>1, <2>2, <2>3, KeysAssumption DEF ItMake, Visit
  <2>5. TypeOK'
    <3>1. it' \in [bucket_i : Nat, node : Keys \cup {Null}, prev : Keys \cup {Null}]
      BY <1>1, <1>4, <2>1, <2>2, <2>3 DEF ItMake
    <3>2. seen' \in SUBSET Keys
      BY <2>3, <2>4
    <3> QED BY <3>1, <3>2, SameNodes
  <2>6. ASSUME NEW k \in Keys
        PROVE  k \in S <=> \E d \in 0 .. c - 1 : k \in Range(buckets[d])
    <3>1. \A d \in 0 .. c - 1 : ~(d < b) => Range(buckets[d]) = {}
      BY <1>2, <1>4, <2>1
    <3>2. \A d \in 0 .. capacity - 1 : d < b => d \in 0 .. c - 1
      BY <1>1, <2>1
    <3>3. \A d \in 0 .. c - 1 : d \in 0 .. capacity - 1
      BY <1>1, <2>1
    <3> QED BY <3>1, <3>2, <3>3
  <2>7. SeenTo(1)'
    <3>1. \A k \in Keys : k \in seen' <=> \/ \E d \in 0 .. c - 1 : k \in Range(buckets[d])
                                         \/ s[1] = k
      BY <2>3, <2>4, <2>6
    <3>2. \A k \in Keys : s[1] = k <=> \E q \in 1 .. 1 : s[q] = k
      OBVIOUS
    <3> QED BY <2>1, <2>2, <3>1, <3>2 DEF SeenTo, Nodes
  <2>8. AtNode(1)'
    BY <2>1, <2>2, <2>3, <2>4 DEF AtNode, Nodes
  <2>9. IteratorFits'
    BY <1>1, <2>1, <2>2, <2>3, <2>4, <2>7, <2>8 DEF IteratorFits, Nodes
  <2>10. IterationComplete'
    BY <2>4 DEF IterationComplete
  <2>11. s[1] \notin S
    <3>1. s[1] \in Range(buckets[c])
      BY <2>2, <2>3, InRange
    <3>2. \A d \in 0 .. c - 1 : s[1] \notin Range(buckets[d])
      <4>1. InPlace(buckets, capacity)
        BY DEF HashInv
      <4>2. \A d \in 0 .. c - 1 : d \in 0 .. capacity - 1 /\ d # c
        BY <1>1, <2>1
      <4> QED BY <1>1, <3>1, <4>1, <4>2 DEF InPlace
    <3> QED BY <2>3, <2>6, <3>2
  <2> QED BY <2>4, <2>5, <2>9, <2>10, <2>11, SameNodes DEF HashInv
<1> QED BY <1>3, <1>4, First DEF HashInv

LEMMA BeginInv ==
  ASSUME HashInv, Begin
  PROVE  HashInv'
<1>1. at = "idle" /\ UNCHANGED Nodes /\ it' = FirstFrom(0, 0) /\ scan' = TRUE
  BY DEF Begin, Nodes
<1>2. seen' = {} \cup ({Visit} \ {Null})
  BY DEF Begin
<1>3. \A k \in Keys : k \in {} <=> \E c \in 0 .. capacity - 1 : c < 0 /\ k \in Range(buckets[c])
  OBVIOUS
<1>4. {} \in SUBSET Keys
  OBVIOUS
<1> QED BY <1>1, <1>2, <1>3, <1>4, OnFrom

(* A loop comes to a new node or ends.                                     *)
LEMMA ItNextInv ==
  ASSUME HashInv, ItNext
  PROVE  HashInv' /\ (Visit \notin seen \/ Visit = Null)
<1> DEFINE b == it.bucket_i
<1>1. /\ at = "idle" /\ scan /\ it.node # Null /\ UNCHANGED Nodes
      /\ it' = NextIt /\ scan' = scan /\ seen' = seen \cup ({Visit} \ {Null})
  BY DEF ItNext, Nodes
<1>2. PICK p \in DOMAIN buckets[b] : AtNode(p) /\ SeenTo(p)
  BY <1>1 DEF HashInv, IteratorFits
<1>3. b \in 0 .. capacity - 1 /\ b \in Nat /\ capacity \in Nat
  BY <1>1 DEF HashInv, IteratorFits, TypeOK
<1>4. PICK s \in Seq(Keys) : s = buckets[b] /\ Injective(s)
  BY <1>3, Bucket
<1>5. p \in 1 .. Len(s) /\ Len(s) \in Nat /\ DOMAIN s = 1 .. Len(s) /\ s[p] = it.node
  BY <1>2, <1>4, LenProperties DEF AtNode
<1>6. Position(s, it.node) = p
  BY <1>4, <1>5, PositionAt
<1>7. scan' = TRUE /\ scan = TRUE
  BY <1>1 DEF HashInv, TypeOK
<1>8. seen \in SUBSET Keys /\ Null \notin Keys
  BY KeysAssumption DEF HashInv, TypeOK
<1>9. \A k \in Keys : k \in seen <=> \/ \E c \in 0 .. b - 1 : k \in Range(buckets[c])
                                     \/ \E q \in 1 .. p : s[q] = k
  BY <1>2, <1>4 DEF SeenTo
<1> HIDE DEF b
<1>10. CASE p < Len(s)
  <2>1. it' = ItMake(b, s[p + 1], s[p])
    BY <1>1, <1>4, <1>5, <1>6, <1>10 DEF NextIt, b
  <2>2. p + 1 \in 1 .. Len(s) /\ p + 1 # 1 /\ p + 1 - 1 = p
    BY <1>5, <1>10
  <2>3. s[p] \in Keys /\ s[p + 1] \in Keys /\ s[p + 1] # Null
    BY <1>4, <1>5, <1>8, <2>2, ElementOfSeq
  <2>4. (it').bucket_i = b /\ (it').node = s[p + 1] /\ (it').prev = s[p] /\ Visit = s[p + 1]
    BY <2>1 DEF ItMake, Visit
  <2>5. TypeOK'
    <3>1. it' \in [bucket_i : Nat, node : Keys \cup {Null}, prev : Keys \cup {Null}]
      BY <1>3, <2>1, <2>3 DEF ItMake
    <3>2. seen' \in SUBSET Keys
      BY <1>1, <1>8, <2>3, <2>4
    <3> QED BY <1>1, <1>7, <3>1, <3>2, SameNodes
  <2>6. AtNode(p + 1)'
    BY <1>1, <1>4, <1>5, <2>2, <2>4 DEF AtNode, Nodes
  <2>7. SeenTo(p + 1)'
    <3>1. \A k \in Keys : (\E q \in 1 .. p + 1 : s[q] = k) <=> (\E q \in 1 .. p : s[q] = k) \/ k = s[p + 1]
      BY <1>5
    <3>2. \A k \in Keys : k \in seen' <=> k \in seen \/ k = s[p + 1]
      BY <1>1, <2>3, <2>4
    <3> QED BY <1>1, <1>4, <1>9, <2>4, <3>1, <3>2 DEF SeenTo, Nodes
  <2>8. IteratorFits'
    BY <1>1, <1>3, <1>4, <1>5, <2>2, <2>4, <2>6, <2>7 DEF IteratorFits, Nodes
  <2>9. IterationComplete'
    BY <2>3, <2>4 DEF IterationComplete
  <2>10. s[p + 1] \notin seen
    <3>1. \A q \in 1 .. p : s[q] # s[p + 1]
      <4>1. \A q \in 1 .. p : q \in DOMAIN s /\ q # p + 1
        BY <1>5
      <4>2. p + 1 \in DOMAIN s
        BY <1>5, <2>2
      <4> QED BY <1>4, <4>1, <4>2 DEF Injective
    <3>2. s[p + 1] \in Range(buckets[b])
      BY <1>4, <2>2, InRange
    <3>3. \A c \in 0 .. b - 1 : s[p + 1] \notin Range(buckets[c])
      <4>1. InPlace(buckets, capacity) /\ DOMAIN buckets = 0 .. capacity - 1
        BY DEF HashInv, TypeOK
      <4>2. \A c \in 0 .. b - 1 : c \in 0 .. capacity - 1 /\ c # b
        BY <1>3
      <4> QED BY <1>3, <3>2, <4>1, <4>2 DEF InPlace
    <3> QED BY <1>9, <2>3, <3>1, <3>3
  <2> QED BY <1>1, <2>4, <2>5, <2>8, <2>9, <2>10, SameNodes DEF HashInv
<1>11. CASE ~(p < Len(s))
  <2>1. it' = FirstFrom(b + 1, capacity)
    BY <1>1, <1>4, <1>6, <1>11 DEF NextIt, b
  <2>2. ASSUME NEW k \in Keys
        PROVE  k \in seen <=> \E c \in 0 .. capacity - 1 : c < b + 1 /\ k \in Range(buckets[c])
    <3>1. k \in Range(buckets[b]) <=> \E q \in 1 .. p : s[q] = k
      <4>1. p = Len(s)
        BY <1>5, <1>11
      <4> QED BY <1>4, <4>1, InRange
    <3>2. \A c \in 0 .. capacity - 1 : c < b + 1 <=> c \in 0 .. b - 1 \/ c = b
      BY <1>3
    <3>3. \A c \in 0 .. b - 1 : c \in 0 .. capacity - 1
      BY <1>3
    <3> QED BY <1>3, <1>9, <3>1, <3>2, <3>3
  <2>3. b + 1 \in Nat
    BY <1>3
  <2> QED BY <1>1, <1>3, <1>7, <1>8, <2>1, <2>2, <2>3, OnFrom
<1> QED BY <1>10, <1>11

LEMMA InsertInv ==
  ASSUME HashInv, NEW d \in Data, Insert(d)
  PROVE  HashInv' /\ Stored' = Stored
<1> USE DEF Insert
<1>1. /\ capacity \in Nat \ {0} /\ buckets \in [0 .. capacity - 1 -> Seq(Keys)]
      /\ InPlace(buckets, capacity) /\ Stored = KeysIn(buckets)
  BY Idle
<1>2. 2 * capacity \in Nat \ {0}
  BY <1>1
<1>3. Moved' /\ Stored' = Stored /\ (at' = "grow" => new_buckets' = NoBuckets(2 * capacity) /\ i' = 0)
  <2>1. CASE Overloaded
    <3>1. /\ at' = "grow" /\ new_buckets' = NoBuckets(2 * capacity) /\ i' = 0
          /\ buckets' = buckets /\ capacity' = capacity
      BY <2>1
    <3>2. KeysIn(NoBuckets(2 * capacity)) = {} /\ InPlace(NoBuckets(2 * capacity), 2 * capacity)
      BY <1>2, Empty
    <3>3. KeysIn(new_buckets)' = {} /\ InPlace(new_buckets, 2 * capacity)' /\ KeysIn(buckets)' = KeysIn(buckets)
      BY <3>1, <3>2 DEF KeysIn, InPlace
    <3>4. \A b \in 0 .. i' - 1 : FALSE
      BY <3>1
    <3> QED BY <1>1, <3>1, <3>3, <3>4 DEF Moved, Stored
  <2>2. CASE ~Overloaded
    BY <1>1, <2>2 DEF Moved, Stored, KeysIn
  <2> QED BY <2>1, <2>2
<1>4. TypeOK'
  <2>1. /\ NoBuckets(2 * capacity) \in [0 .. 2 * capacity - 1 -> Seq(Keys)]
        /\ 0 \in 0 .. capacity
    BY <1>1, <1>2, Empty
  <2>2. at' \in {"idle", "grow", "insert"} /\ arg' \in Data /\ owned' \in SUBSET Data
    BY DEF HashInv, TypeOK
  <2> QED BY <1>3, <2>1, <2>2, NoIterator DEF HashInv, TypeOK
<1>5. InPlace(buckets, capacity)'
  BY DEF HashInv, InPlace
<1>6. DataFits'
  BY <1>3 DEF HashInv, DataFits
<1>7. OwnedIsStored'
  <2>1. owned = {data[k] : k \in Stored} /\ \A k \in Stored : data[k] \in owned
    BY DEF HashInv, OwnedIsStored
  <2>2. at' # "idle" /\ arg' = d /\ data' = data /\ owned' = owned \cup {d} /\ d \notin owned
    OBVIOUS
  <2> QED BY <1>3, <2>1, <2>2 DEF OwnedIsStored
<1> QED BY <1>3, <1>4, <1>5, <1>6, <1>7, NoIterator DEF HashInv

(* While an element is inserted there is no iterator.                      *)
LEMMA Busy ==
  ASSUME HashInv, at # "idle"
  PROVE  it.node = Null /\ scan = FALSE
BY DEF HashInv, TypeOK, IteratorFits, IterationComplete

LEMMA BusyNext ==
  ASSUME HashInv, at # "idle", UNCHANGED <<it, scan>>
  PROVE  IteratorFits' /\ IterationComplete'
BY Busy DEF IteratorFits, IterationComplete

LEMMA GrowNodeInv ==
  ASSUME HashInv, GrowNode
  PROVE  HashInv' /\ Stored' = Stored
<1>0. /\ at = "grow" /\ i < capacity /\ buckets[i] # <<>>
      /\ UNCHANGED <<capacity, size, data, owned, it, scan, seen, at, arg, i>>
  BY DEF GrowNode
<1>1. PICK c \in Nat \ {0} : c = capacity
  BY DEF HashInv, TypeOK
<1>2. /\ buckets \in [0 .. c - 1 -> Seq(Keys)] /\ InPlace(buckets, c)
      /\ new_buckets \in [0 .. 2 * c - 1 -> Seq(Keys)] /\ InPlace(new_buckets, 2 * c)
      /\ KeysIn(buckets) \cap KeysIn(new_buckets) = {}
      /\ i \in 0 .. c - 1
      /\ 2 * c \in Nat \ {0}
  <2>1. /\ buckets \in [0 .. c - 1 -> Seq(Keys)] /\ InPlace(buckets, c)
        /\ new_buckets \in [0 .. 2 * c - 1 -> Seq(Keys)] /\ i \in 0 .. c /\ i < c
    BY <1>0, <1>1 DEF HashInv, TypeOK
  <2>2. InPlace(new_buckets, 2 * c) /\ KeysIn(buckets) \cap KeysIn(new_buckets) = {}
    BY <1>0, <1>1 DEF HashInv, Moved
  <2> QED BY <2>1, <2>2
<1>3. PICK s \in Seq(Keys) : s = buckets[i] /\ Injective(s) /\ s # <<>>
  BY <1>0, <1>1, <1>2, Bucket
<1>4. PICK k \in Keys : k = Head(s) /\ k \in Range(s)
  BY <1>3, PopFront
<1>5. PICK r \in Seq(Keys) : r = Tail(s) /\ Injective(r) /\ Range(r) = Range(s) \ {k}
  BY <1>3, <1>4, PopFront
<1>6. k \in KeysIn(buckets)
  BY <1>2, <1>3, <1>4 DEF KeysIn
<1>7. /\ buckets' \in [0 .. c - 1 -> Seq(Keys)] /\ InPlace(buckets', c)
      /\ KeysIn(buckets') = KeysIn(buckets) \ {k}
  <2>1. \A l \in Range(r) : Index(l, c) = i
    BY <1>2, <1>3, <1>5 DEF InPlace
  <2>2. buckets' = [buckets EXCEPT ![i] = r]
    BY <1>3, <1>5 DEF GrowNode
  <2>3. Range(s) \subseteq KeysIn(buckets)
    BY <1>2, <1>3 DEF KeysIn
  <2>4. PICK t \in [0 .. c - 1 -> Seq(Keys)] :
          t = buckets' /\ t[i] = r /\ \A d \in 0 .. c - 1 : d # i => t[d] = buckets[d]
    BY <1>2, <2>2
  <2>5. /\ InPlace(t, c)
        /\ \A l : l \in KeysIn(t) <=> (l \in KeysIn(buckets) /\ l \notin Range(buckets[i])) \/ l \in Range(t[i])
    <3>1. c \in Nat \ {0} /\ buckets \in [0 .. c - 1 -> Seq(Keys)] /\ InPlace(buckets, c)
      BY <1>2
    <3>2. i \in 0 .. c - 1 /\ t \in [0 .. c - 1 -> Seq(Keys)] /\ Injective(t[i])
      BY <1>2, <1>5, <2>4
    <3>3. \A l \in Range(t[i]) : Index(l, c) = i
      BY <2>1, <2>4
    <3>4. \A d \in 0 .. c - 1 : d # i => t[d] = buckets[d]
      BY <2>4
    <3> QED BY <3>1, <3>2, <3>3, <3>4, Change
  <2>6. \A l : l \in KeysIn(t) <=> l \in KeysIn(buckets) /\ l # k
    BY <1>3, <1>4, <1>5, <2>3, <2>4, <2>5
  <2> QED BY <2>4, <2>5, <2>6
<1>8. /\ new_buckets' \in [0 .. 2 * c - 1 -> Seq(Keys)] /\ InPlace(new_buckets', 2 * c)
      /\ KeysIn(new_buckets') = KeysIn(new_buckets) \cup {k}
  <2>1. PICK n \in 0 .. 2 * c - 1 : n = Index(k, 2 * c)
    BY <1>2, IndexType
  <2>2. PICK t \in Seq(Keys) : t = new_buckets[n] /\ Injective(t)
    BY <1>2, <2>1 DEF InPlace, Injective
  <2>3. k \notin Range(t) /\ Range(t) \subseteq KeysIn(new_buckets)
    BY <1>2, <1>6, <2>2 DEF KeysIn
  <2>4. PICK u \in Seq(Keys) : u = <<k>> \o t /\ Injective(u) /\ Range(u) = Range(t) \cup {k}
    BY <2>2, <2>3, PushFront
  <2>5. \A l \in Range(u) : Index(l, 2 * c) = n
    BY <1>2, <2>1, <2>2, <2>4 DEF InPlace
  <2>6. new_buckets' = [new_buckets EXCEPT ![n] = u]
    BY <1>1, <1>3, <1>4, <2>1, <2>2, <2>4 DEF GrowNode, GrowIndex
  <2>7. PICK v \in [0 .. 2 * c - 1 -> Seq(Keys)] :
          /\ v = new_buckets' /\ v[n] = u
          /\ \A d \in 0 .. 2 * c - 1 : d # n => v[d] = new_buckets[d]
    BY <1>2, <2>6
  <2>8. /\ InPlace(v, 2 * c)
        /\ \A l : l \in KeysIn(v) <=> (l \in KeysIn(new_buckets) /\ l \notin Range(new_buckets[n])) \/ l \in Range(v[n])
    <3>1. 2 * c \in Nat \ {0} /\ new_buckets \in [0 .. 2 * c - 1 -> Seq(Keys)] /\ InPlace(new_buckets, 2 * c)
      BY <1>2
    <3>2. v \in [0 .. 2 * c - 1 -> Seq(Keys)] /\ Injective(v[n])
      BY <2>4, <2>7
    <3>3. \A l \in Range(v[n]) : Index(l, 2 * c) = n
      BY <2>5, <2>7
    <3>4. \A d \in 0 .. 2 * c - 1 : d # n => v[d] = new_buckets[d]
      BY <2>7
    <3> QED BY <3>1, <3>2, <3>3, <3>4, Change
  <2>9. \A l : l \in KeysIn(v) <=> l \in KeysIn(new_buckets) \/ l = k
    BY <2>2, <2>3, <2>4, <2>7, <2>8
  <2> QED BY <2>7, <2>8, <2>9
<1>9. at = "grow" /\ UNCHANGED <<capacity, size, data, owned, it, scan, seen, at, arg, i>>
  BY <1>0
<1>10. Stored' = Stored
  <2>1. Stored' = KeysIn(buckets') \cup KeysIn(new_buckets')
    BY <1>9 DEF Stored, KeysIn
  <2>2. Stored = KeysIn(buckets) \cup KeysIn(new_buckets)
    BY <1>9 DEF Stored
  <2> QED BY <1>6, <1>7, <1>8, <2>1, <2>2
<1>11. TypeOK'
  BY <1>1, <1>7, <1>8, <1>9 DEF HashInv, TypeOK
<1>12. Moved'
  <2>1. \A b \in 0 .. i - 1 : buckets'[b] = buckets[b]
    BY <1>2 DEF GrowNode
  <2>2. \A b \in 0 .. i - 1 : buckets[b] = <<>>
    BY <1>9 DEF HashInv, Moved
  <2>3. KeysIn(buckets)' = KeysIn(buckets') /\ KeysIn(new_buckets)' = KeysIn(new_buckets')
    BY DEF KeysIn
  <2>4. KeysIn(buckets') \cap KeysIn(new_buckets') = {}
    BY <1>2, <1>7, <1>8
  <2>5. InPlace(new_buckets, 2 * capacity)'
    BY <1>1, <1>8, <1>9 DEF InPlace
  <2> QED BY <1>9, <2>1, <2>2, <2>3, <2>4, <2>5 DEF Moved
<1>13. InPlace(buckets, capacity)'
  BY <1>1, <1>7, <1>9 DEF InPlace
<1>14. DataFits' /\ OwnedIsStored'
  BY <1>9, <1>10 DEF HashInv, DataFits, OwnedIsStored
<1> QED BY <1>9, <1>10, <1>11, <1>12, <1>13, <1>14, BusyNext DEF HashInv

LEMMA GrowBucketInv ==
  ASSUME HashInv, GrowBucket
  PROVE  HashInv' /\ Stored' = Stored
<1>1. /\ at = "grow" /\ i < capacity /\ buckets[i] = <<>> /\ i' = i + 1
      /\ UNCHANGED <<buckets, capacity, size, data, owned, it, scan, seen, at, arg, new_buckets>>
  BY DEF GrowBucket
<1>2. Stored' = Stored
  BY <1>1 DEF Stored, KeysIn
<1>3. i \in 0 .. capacity /\ capacity \in Nat
  BY <1>1 DEF HashInv, TypeOK
<1>4. TypeOK'
  <2>1. i' \in 0 .. capacity'
    BY <1>1, <1>3
  <2> QED BY <1>1, <2>1 DEF HashInv, TypeOK
<1>5. Moved'
  <2>1. \A b \in 0 .. i' - 1 : b \in 0 .. i - 1 \/ b = i
    BY <1>1, <1>3
  <2>2. \A b \in 0 .. i' - 1 : buckets'[b] = <<>>
    BY <1>1, <2>1 DEF HashInv, Moved
  <2>3. InPlace(new_buckets, 2 * capacity)' /\ (KeysIn(buckets) \cap KeysIn(new_buckets))' = {}
    BY <1>1 DEF HashInv, Moved, InPlace, KeysIn
  <2> QED BY <2>2, <2>3 DEF Moved
<1>6. InPlace(buckets, capacity)' /\ DataFits' /\ OwnedIsStored'
  BY <1>1, <1>2 DEF HashInv, InPlace, DataFits, OwnedIsStored
<1> QED BY <1>1, <1>2, <1>4, <1>5, <1>6, BusyNext DEF HashInv

LEMMA GrowDoneInv ==
  ASSUME HashInv, GrowDone
  PROVE  HashInv' /\ Stored' = Stored
<1>1. /\ at = "grow" /\ i = capacity /\ buckets' = new_buckets /\ capacity' = 2 * capacity
      /\ at' = "insert"
      /\ UNCHANGED <<size, data, owned, it, scan, seen, arg>>
  BY DEF GrowDone
<1>2. /\ capacity \in Nat \ {0} /\ buckets \in [0 .. capacity - 1 -> Seq(Keys)]
      /\ new_buckets \in [0 .. 2 * capacity - 1 -> Seq(Keys)]
  BY <1>1 DEF HashInv, TypeOK
<1>3. Stored' = Stored
  <2>1. \A b \in 0 .. capacity - 1 : Range(buckets[b]) = {}
    <3>1. \A b \in 0 .. capacity - 1 : buckets[b] = <<>>
      BY <1>1 DEF HashInv, Moved
    <3>2. Range(<<>>) = {}
      BY DEF Range
    <3> QED BY <3>1, <3>2
  <2>2. KeysIn(buckets) = {}
    BY <1>2, <2>1 DEF KeysIn
  <2>3. Stored' = KeysIn(new_buckets) /\ Stored = KeysIn(buckets) \cup KeysIn(new_buckets)
    BY <1>1 DEF Stored, KeysIn
  <2> QED BY <2>2, <2>3
<1>4. TypeOK'
  <2>1. capacity' \in Nat \ {0}
    BY <1>1, <1>2
  <2>2. at' # "grow" /\ at # "idle"
    BY <1>1
  <2> QED BY <1>1, <1>2, <2>1, <2>2 DEF HashInv, TypeOK
<1>5. InPlace(buckets, capacity)' /\ Moved'
  <2>1. InPlace(new_buckets, 2 * capacity)
    BY <1>1 DEF HashInv, Moved
  <2> QED BY <1>1, <2>1 DEF InPlace, Moved
<1>6. DataFits' /\ OwnedIsStored'
  BY <1>1, <1>3 DEF HashInv, DataFits, OwnedIsStored
<1> QED BY <1>1, <1>3, <1>4, <1>5, <1>6, BusyNext DEF HashInv

(* An element takes the place of the one with its key.                     *)
LEMMA Exchange ==
  ASSUME HashInv, NEW d \in Data, Stored' = Stored, KeyOf[d] \in Stored,
         data' = [data EXCEPT ![KeyOf[d]] = d], \A k \in Stored : data[k] # d,
         {data[k] : k \in Stored} \subseteq owned,
         owned \subseteq {data[k] : k \in Stored} \cup {d},
         owned' = (owned \cup {d}) \ {data[KeyOf[d]]}, at' = "idle"
  PROVE  DataFits' /\ OwnedIsStored'
<1> DEFINE l == KeyOf[d]
<1>1. /\ l \in Keys /\ data \in [Keys -> Data \cup {NoData}]
      /\ Stored \subseteq Keys
  <2>1. Stored \subseteq Keys
    <3>1. capacity \in Nat \ {0} /\ 2 * capacity \in Nat \ {0}
      BY DEF HashInv, TypeOK
    <3>2. \A k \in KeysIn(buckets) : k \in Keys
      BY <3>1, InBucket DEF HashInv, TypeOK
    <3>3. CASE at = "grow"
      <4>1. \A k \in KeysIn(new_buckets) : k \in Keys
        BY <3>1, <3>3, InBucket DEF HashInv, TypeOK, Moved
      <4> QED BY <3>2, <3>3, <4>1 DEF Stored
    <3>4. CASE at # "grow"
      BY <3>2, <3>4 DEF Stored
    <3> QED BY <3>3, <3>4
  <2> QED BY <2>1, KeysAssumption DEF HashInv, TypeOK
<1> HIDE DEF l
<1>2. \A k \in Stored : data[k] \in Data /\ KeyOf[data[k]] = k
  BY DEF HashInv, DataFits
<1>3. \A k \in Stored : data'[k] = IF k = l THEN d ELSE data[k]
  BY <1>1 DEF l
<1>4. DataFits'
  BY <1>2, <1>3 DEF DataFits, l
<1>5. \A k \in Stored : data[k] = data[l] => k = l
  BY <1>2 DEF l
<1>6. ASSUME NEW e PROVE e \in owned' <=> \E k \in Stored : data'[k] = e
  <2>1. e \in owned' <=> (e \in owned \/ e = d) /\ e # data[l]
    BY DEF l
  <2>2. ASSUME NEW k \in Stored, data'[k] = e PROVE e \in owned'
    BY <1>3, <1>5, <2>1, <2>2 DEF l
  <2>3. ASSUME e \in owned' PROVE \E k \in Stored : data'[k] = e
    <3>1. CASE e = d
      BY <1>3, <3>1 DEF l
    <3>2. CASE e # d
      <4>1. PICK k \in Stored : data[k] = e
        BY <2>1, <2>3, <3>2
      <4>2. k # l
        BY <2>1, <2>3, <4>1
      <4> QED BY <1>3, <4>1, <4>2
    <3> QED BY <3>1, <3>2
  <2> QED BY <2>2, <2>3
<1>7. owned' = {data'[k] : k \in Stored}
  BY <1>6
<1> QED BY <1>4, <1>7 DEF OwnedIsStored

LEMMA InsertOverInv ==
  ASSUME HashInv, InsertOver
  PROVE  /\ HashInv' /\ Stored' = Stored
         /\ KeyOf[arg] \in Stored /\ data' = [data EXCEPT ![KeyOf[arg]] = arg]
<1>1. PICK k \in Keys, b \in 0 .. capacity - 1 : k = KeyOf[arg] /\ b = Index(k, capacity)
  <2>1. arg \in Data /\ capacity \in Nat \ {0}
    BY DEF HashInv, TypeOK, InsertOver
  <2> QED BY <2>1, KeysAssumption, IndexType
<1>2. /\ at = "insert" /\ k \in Range(buckets[b])
      /\ owned' = owned \ {data[k]} /\ data' = [data EXCEPT ![k] = arg]
      /\ it' = ItMake(b, k, Before(buckets[b], k)) /\ at' = "idle"
      /\ UNCHANGED <<buckets, capacity, size, scan, seen, new_buckets, i>>
  BY <1>1 DEF InsertOver
<1>3. k \in Stored /\ Stored' = Stored
  <2>1. b \in DOMAIN buckets
    BY <1>2, Idle
  <2> QED BY <1>2, <2>1 DEF Stored, KeysIn
<1>4. PICK d \in Data : d = arg
  BY <1>2 DEF HashInv, TypeOK
<1>5. DataFits' /\ OwnedIsStored'
  <2>1. owned = {data[l] : l \in Stored} \cup {d} /\ \A l \in Stored : data[l] # d
    BY <1>2, <1>4 DEF HashInv, OwnedIsStored
  <2>2. owned' = (owned \cup {d}) \ {data[k]}
    BY <1>2, <2>1
  <2> QED BY <1>1, <1>2, <1>3, <1>4, <2>1, <2>2, Exchange
<1>6. PICK p \in DOMAIN buckets[b] :
        /\ buckets[b][p] = k
        /\ Before(buckets[b], k) = IF p = 1 THEN Null ELSE buckets[b][p - 1]
  BY <1>1, <1>2, Found
<1>7. Before(buckets[b], k) \in Keys \cup {Null}
  BY <1>1, <1>2, Found
<1>8. (it').bucket_i = b /\ (it').node = k /\ (it').prev = Before(buckets[b], k)
  BY <1>2 DEF ItMake
<1>9. b \in Nat /\ b < capacity /\ k # Null /\ scan' = FALSE
  BY <1>2, Idle, Busy, KeysAssumption
<1>10. TypeOK'
  <2>1. it' \in [bucket_i : Nat, node : Keys \cup {Null}, prev : Keys \cup {Null}]
    BY <1>2, <1>7, <1>9 DEF ItMake
  <2>2. data' \in [Keys -> Data \cup {NoData}] /\ owned' \in SUBSET Data
    BY <1>2, <1>4 DEF HashInv, TypeOK
  <2> QED BY <1>2, <2>1, <2>2 DEF HashInv, TypeOK
<1>11. IteratorFits'
  <2>1. AtNode(p)'
    BY <1>2, <1>6, <1>8 DEF AtNode
  <2> QED BY <1>2, <1>6, <1>8, <1>9, <2>1 DEF IteratorFits
<1>12. IterationComplete' /\ Moved' /\ InPlace(buckets, capacity)'
  BY <1>2, <1>9 DEF HashInv, IterationComplete, Moved, InPlace
<1> QED BY <1>1, <1>2, <1>3, <1>5, <1>10, <1>11, <1>12 DEF HashInv

LEMMA InsertNewInv ==
  ASSUME HashInv, InsertNew
  PROVE  /\ HashInv' /\ Stored' = Stored \cup {KeyOf[arg]}
         /\ KeyOf[arg] \in Keys /\ data' = [data EXCEPT ![KeyOf[arg]] = arg]
<1>1. PICK c \in Nat \ {0} : c = capacity
  BY DEF HashInv, TypeOK
<1>2. PICK d \in Data, k \in Keys, b \in 0 .. c - 1 :
        d = arg /\ k = KeyOf[d] /\ b = Index(k, c)
  <2>1. arg \in Data
    BY DEF HashInv, TypeOK, InsertNew
  <2> QED BY <1>1, <2>1, KeysAssumption, IndexType
<1>3. /\ at = "insert" /\ k \notin Range(buckets[b])
      /\ buckets' = [buckets EXCEPT ![b] = <<k>> \o @]
      /\ data' = [data EXCEPT ![k] = d] /\ size' = size + 1
      /\ it' = ItMake(b, k, Null) /\ at' = "idle"
      /\ UNCHANGED <<capacity, owned, scan, seen, new_buckets, i>>
  BY <1>1, <1>2 DEF InsertNew
<1>4. /\ buckets \in [0 .. c - 1 -> Seq(Keys)] /\ InPlace(buckets, c)
      /\ Stored = KeysIn(buckets)
  BY <1>1, <1>3, Idle
<1>5. PICK s \in Seq(Keys) : s = buckets[b] /\ Injective(s)
  BY <1>1, <1>4, Bucket
<1>6. PICK r \in Seq(Keys) : /\ r = <<k>> \o s /\ Injective(r) /\ Range(r) = Range(s) \cup {k}
                             /\ Len(r) > 0 /\ r[1] = k
  BY <1>3, <1>5, PushFront
<1>7. PICK t \in [0 .. c - 1 -> Seq(Keys)] :
        /\ t = buckets' /\ t[b] = r
        /\ \A e \in 0 .. c - 1 : e # b => t[e] = buckets[e]
  BY <1>3, <1>4, <1>5, <1>6
<1>8. InPlace(t, c) /\ \A l : l \in KeysIn(t) <=> l \in KeysIn(buckets) \/ l = k
  <2>1. \A l \in Range(t[b]) : Index(l, c) = b
    BY <1>2, <1>4, <1>5, <1>6, <1>7 DEF InPlace
  <2>2. Injective(t[b])
    BY <1>6, <1>7
  <2>3. /\ InPlace(t, c)
        /\ \A l : l \in KeysIn(t) <=> (l \in KeysIn(buckets) /\ l \notin Range(buckets[b])) \/ l \in Range(t[b])
    BY <1>4, <1>7, <2>1, <2>2, Change
  <2>4. Range(s) \subseteq KeysIn(buckets)
    BY <1>4, <1>5 DEF KeysIn
  <2>5. Range(t[b]) = Range(buckets[b]) \cup {k} /\ Range(buckets[b]) \subseteq KeysIn(buckets)
    BY <1>5, <1>6, <1>7, <2>4
  <2> QED BY <2>3, <2>5
<1>9. k \notin Stored
  BY <1>2, <1>3, <1>4, InBucket
<1>10. Stored' = Stored \cup {k}
  <2>1. Stored' = KeysIn(t)
    BY <1>3, <1>7 DEF Stored, KeysIn
  <2> QED BY <1>4, <1>8, <2>1
<1>11. DataFits' /\ OwnedIsStored'
  <2>1. \A l \in Stored : l \in Keys /\ data[l] \in Data /\ KeyOf[data[l]] = l
    BY <1>3, Idle DEF HashInv, DataFits
  <2>2. data \in [Keys -> Data \cup {NoData}]
    BY DEF HashInv, TypeOK
  <2>3. data'[k] = d /\ \A l \in Stored : data'[l] = data[l]
    BY <1>3, <1>9, <2>1, <2>2
  <2>4. owned = {data[l] : l \in Stored} \cup {d}
    BY <1>2, <1>3 DEF HashInv, OwnedIsStored
  <2>5. owned' = {data'[l] : l \in Stored \cup {k}}
    BY <1>3, <2>3, <2>4
  <2>6. DataFits'
    BY <1>2, <1>10, <2>1, <2>3 DEF DataFits
  <2> QED BY <1>3, <1>10, <2>5, <2>6 DEF OwnedIsStored
<1>12. TypeOK'
  <2>1. it' \in [bucket_i : Nat, node : Keys \cup {Null}, prev : Keys \cup {Null}]
    BY <1>3 DEF ItMake
  <2>2. data' \in [Keys -> Data \cup {NoData}] /\ size' \in Nat
    BY <1>3 DEF HashInv, TypeOK
  <2> QED BY <1>1, <1>3, <1>7, <2>1, <2>2 DEF HashInv, TypeOK
<1>13. scan' = FALSE /\ k # Null
  BY <1>3, Busy, KeysAssumption
<1>14. IteratorFits'
  <2>1. (it').bucket_i = b /\ (it').node = k /\ (it').prev = Null
    BY <1>3 DEF ItMake
  <2>2. 1 \in DOMAIN r
    BY <1>6, LenProperties
  <2>3. AtNode(1)'
    BY <1>6, <1>7, <2>1, <2>2 DEF AtNode
  <2>4. b < capacity' /\ buckets'[b] = r
    BY <1>1, <1>3, <1>7
  <2> QED BY <1>3, <1>13, <2>1, <2>2, <2>3, <2>4 DEF IteratorFits
<1>15. IterationComplete' /\ Moved' /\ InPlace(buckets, capacity)'
  <2>0. buckets' = t /\ capacity' = c
    BY <1>1, <1>3, <1>7
  <2>1. InPlace(buckets, capacity)'
    BY <1>8, <2>0 DEF InPlace
  <2> QED BY <1>3, <1>13, <2>1 DEF IterationComplete, Moved
<1> QED BY <1>2, <1>3, <1>10, <1>11, <1>12, <1>14, <1>15 DEF HashInv

(* Where the iterator is.                                                  *)
LEMMA AtIt ==
  ASSUME HashInv, it.node # Null
  PROVE  /\ at = "idle" /\ it.bucket_i \in 0 .. capacity - 1
         /\ \E p \in 1 .. Len(buckets[it.bucket_i]) : AtNode(p)
         /\ it.node \in Stored /\ it.node \in Keys
<1>1. at = "idle" /\ it.bucket_i \in 0 .. capacity - 1
  BY DEF HashInv, TypeOK, IteratorFits
<1>2. PICK s \in Seq(Keys) : s = buckets[it.bucket_i]
  BY <1>1, Bucket
<1>3. PICK p \in 1 .. Len(s) : AtNode(p) /\ s[p] = it.node
  BY <1>2, LenProperties DEF HashInv, IteratorFits, AtNode
<1>4. it.node \in Range(s)
  BY <1>3, InRange
<1>5. it.node \in Stored
  BY <1>1, <1>2, <1>4, Idle DEF KeysIn
<1> QED BY <1>1, <1>2, <1>3, <1>5, Idle

LEMMA ReplaceInv ==
  ASSUME HashInv, NEW d \in Data, Replace(d)
  PROVE  /\ HashInv' /\ Stored' = Stored
         /\ KeyOf[d] \in Stored /\ data' = [data EXCEPT ![KeyOf[d]] = d]
<1>1. /\ at = "idle" /\ d \notin owned /\ it.node = KeyOf[d]
      /\ owned' = (owned \ {data[KeyOf[d]]}) \cup {d}
      /\ data' = [data EXCEPT ![KeyOf[d]] = d]
      /\ UNCHANGED <<buckets, capacity, size, it, scan, seen, at, arg, new_buckets, i>>
  BY DEF Replace, ReplaceOwned
<1>2. it.node # Null
  BY <1>1, KeysAssumption
<1>3. KeyOf[d] \in Stored /\ Stored' = Stored
  BY <1>1, <1>2, AtIt DEF Stored, KeysIn
<1>4. DataFits' /\ OwnedIsStored'
  <2>1. owned = {data[k] : k \in Stored}
    BY <1>1 DEF HashInv, OwnedIsStored
  <2>2. \A k \in Stored : data[k] # d
    BY <1>1, <2>1
  <2>3. owned' = (owned \cup {d}) \ {data[KeyOf[d]]}
    BY <1>1, <1>3, <2>2
  <2> QED BY <1>1, <1>3, <2>1, <2>2, <2>3, Exchange
<1>5. TypeOK'
  <2>1. data' \in [Keys -> Data \cup {NoData}] /\ owned' \in SUBSET Data
    BY <1>1 DEF HashInv, TypeOK
  <2> QED BY <1>1, <2>1 DEF HashInv, TypeOK
<1>6. IteratorFits'
  BY <1>1 DEF HashInv, IteratorFits, AtNode, SeenTo
<1>7. IterationComplete' /\ Moved' /\ InPlace(buckets, capacity)'
  BY <1>1, <1>2 DEF HashInv, IterationComplete, Moved, InPlace
<1> QED BY <1>1, <1>3, <1>4, <1>5, <1>6, <1>7 DEF HashInv

(* hashset_erase takes the node of the iterator out of its bucket.         *)
LEMMA Unlinked ==
  ASSUME NEW s \in Seq(Keys), Injective(s), NEW p \in 1 .. Len(s), s[p] = it.node,
         it.prev = IF p = 1 THEN Null ELSE s[p - 1]
  PROVE  IsWithout(Unlink(s), s, p)
<1>1. Len(s) \in Nat /\ \A q \in 1 .. Len(s) : s[q] # Null
  BY LenProperties, ElementOfSeq, KeysAssumption
<1>2. Position(s, it.node) = p
  BY PositionAt
<1> DEFINE rest == SubSeq(s, p + 1, Len(s))
<1>3. CASE p = 1
  <2>1. Unlink(s) = rest
    BY <1>2, <1>3 DEF Unlink
  <2>2. rest \in Seq(Keys)
    <3>1. p + 1 \in 1 .. Len(s) + 1 /\ Len(s) \in 0 .. Len(s) /\ p + 1 <= Len(s) + 1
      BY <1>1
    <3> QED BY <3>1, Part
  <2>3. SubSeq(s, 1, p - 1) = <<>>
    BY <1>3, SubSeqEmpty
  <2>4. SubSeq(s, 1, p - 1) \o rest = rest
    BY <2>2, <2>3, ConcatEmptySeq
  <2>5. IsWithout(SubSeq(s, 1, p - 1) \o rest, s, p)
    BY Without
  <2> QED BY <2>1, <2>4, <2>5
<1>4. CASE p # 1
  <2>1. p - 1 \in 1 .. Len(s) /\ it.prev = s[p - 1]
    BY <1>1, <1>4
  <2>2. Position(s, it.prev) = p - 1 /\ it.prev # Null
    BY <1>1, <2>1, PositionAt
  <2>3. Unlink(s) = SubSeq(s, 1, p - 1) \o rest
    BY <1>2, <2>2 DEF Unlink
  <2> QED BY <2>3, Without
<1> QED BY <1>3, <1>4

LEMMA EraseInv ==
  ASSUME HashInv, Erase
  PROVE  HashInv' /\ it.node \in Stored /\ Stored' = Stored \ {it.node}
<1>1. PICK c \in Nat \ {0} : c = capacity
  BY DEF HashInv, TypeOK
<1>2. PICK k \in Keys, b \in 0 .. c - 1 : k = it.node /\ b = it.bucket_i /\ k \in Stored
  BY <1>1, AtIt DEF Erase
<1>3. /\ at = "idle" /\ owned' = owned \ {data[k]}
      /\ data' = [data EXCEPT ![k] = NoData]
      /\ buckets' = [buckets EXCEPT ![b] = Unlink(@)]
      /\ it' = NoIt /\ scan' = FALSE /\ seen' = {}
      /\ UNCHANGED <<capacity, size, at, arg, new_buckets, i>>
  BY <1>2 DEF Erase
<1>4. /\ buckets \in [0 .. c - 1 -> Seq(Keys)] /\ InPlace(buckets, c)
      /\ Stored = KeysIn(buckets) /\ Stored \subseteq Keys
  BY <1>1, <1>3, Idle
<1>5. PICK s \in Seq(Keys) : s = buckets[b] /\ Injective(s)
  BY <1>1, <1>4, Bucket
<1>6. PICK p \in 1 .. Len(s) : s[p] = k /\ it.prev = IF p = 1 THEN Null ELSE s[p - 1]
  BY <1>2, <1>5, AtIt DEF Erase, AtNode
<1>7. PICK r \in Seq(Keys) : r = Unlink(s) /\ Injective(r) /\ Range(r) = Range(s) \ {k}
  <2>1. IsWithout(Unlink(s), s, p)
    BY <1>2, <1>5, <1>6, Unlinked
  <2> QED BY <1>5, <1>6, <2>1, TakeOut
<1>8. PICK t \in [0 .. c - 1 -> Seq(Keys)] :
        /\ t = buckets' /\ t[b] = r
        /\ \A e \in 0 .. c - 1 : e # b => t[e] = buckets[e]
  BY <1>3, <1>4, <1>5, <1>7
<1>9. InPlace(t, c) /\ \A l : l \in KeysIn(t) <=> l \in KeysIn(buckets) /\ l # k
  <2>1. \A l \in Range(t[b]) : Index(l, c) = b
    BY <1>4, <1>5, <1>7, <1>8 DEF InPlace
  <2>2. Injective(t[b])
    BY <1>7, <1>8
  <2>3. /\ InPlace(t, c)
        /\ \A l : l \in KeysIn(t) <=> (l \in KeysIn(buckets) /\ l \notin Range(buckets[b])) \/ l \in Range(t[b])
    BY <1>4, <1>8, <2>1, <2>2, Change
  <2>4. Range(s) \subseteq KeysIn(buckets) /\ k \in Range(s)
    BY <1>4, <1>5, <1>6, InRange DEF KeysIn
  <2> QED BY <1>5, <1>7, <1>8, <2>3, <2>4
<1>10. Stored' = Stored \ {k}
  <2>1. Stored' = KeysIn(t)
    BY <1>3, <1>8 DEF Stored, KeysIn
  <2> QED BY <1>4, <1>9, <2>1
<1>11. DataFits' /\ OwnedIsStored'
  <2>1. \A l \in Stored : data[l] \in Data /\ KeyOf[data[l]] = l
    BY DEF HashInv, DataFits
  <2>2. data \in [Keys -> Data \cup {NoData}]
    BY DEF HashInv, TypeOK
  <2>3. \A l \in Stored \ {k} : data'[l] = data[l]
    BY <1>3, <1>4, <2>2
  <2>4. owned = {data[l] : l \in Stored}
    BY <1>3 DEF HashInv, OwnedIsStored
  <2>5. \A l \in Stored : data[l] = data[k] => l = k
    BY <1>2, <2>1
  <2>6. owned' = {data[l] : l \in Stored \ {k}}
    BY <1>3, <2>4, <2>5
  <2>7. owned' = {data'[l] : l \in Stored \ {k}}
    BY <2>3, <2>6
  <2>8. DataFits'
    BY <1>10, <2>1, <2>3 DEF DataFits
  <2> QED BY <1>3, <1>10, <2>7, <2>8 DEF OwnedIsStored
<1>12. TypeOK'
  <2>1. data' \in [Keys -> Data \cup {NoData}] /\ owned' \in SUBSET Data
    BY <1>3 DEF HashInv, TypeOK
  <2> QED BY <1>1, <1>3, <1>8, <2>1, NoIterator DEF HashInv, TypeOK
<1>13. Moved' /\ InPlace(buckets, capacity)'
  <2>1. InPlace(buckets, capacity)'
    BY <1>1, <1>3, <1>8, <1>9 DEF InPlace
  <2> QED BY <1>3, <2>1 DEF Moved
<1> QED BY <1>2, <1>3, <1>10, <1>11, <1>12, <1>13, NoIterator DEF HashInv

LEMMA RenewInv ==
  ASSUME HashInv, Renew
  PROVE  HashInv' /\ Stored' = {}
<1>1. /\ at = "idle" /\ buckets' = NoBuckets(InitialCapacity) /\ capacity' = InitialCapacity
      /\ size' = 0 /\ owned' = owned \ {data[k] : k \in KeysIn(buckets)}
      /\ data' = [k \in Keys |-> NoData]
      /\ it' = NoIt /\ scan' = FALSE /\ seen' = {}
      /\ UNCHANGED <<at, arg, new_buckets, i>>
  BY DEF Renew, KeysIn
<1>2. InitialCapacity \in Nat \ {0}
  BY CapacityAssumption
<1>3. /\ NoBuckets(InitialCapacity) \in [0 .. InitialCapacity - 1 -> Seq(Keys)]
      /\ InPlace(NoBuckets(InitialCapacity), InitialCapacity)
      /\ KeysIn(NoBuckets(InitialCapacity)) = {}
  BY <1>2, Empty
<1>4. Stored' = {}
  BY <1>1, <1>3 DEF Stored, KeysIn
<1>5. owned' = {}
  BY <1>1, Idle DEF HashInv, OwnedIsStored
<1>6. TypeOK'
  BY <1>1, <1>2, <1>3, <1>5, NoIterator DEF HashInv, TypeOK
<1>7. Moved' /\ InPlace(buckets, capacity)'
  BY <1>1, <1>3 DEF Moved, InPlace
<1> QED BY <1>1, <1>4, <1>5, <1>6, <1>7, NoIterator DEF HashInv, DataFits, OwnedIsStored

LEMMA InvNext == HashInv /\ [Next]_vars => HashInv'
<1> SUFFICES ASSUME HashInv, [Next]_vars PROVE HashInv'
  OBVIOUS
<1>1. ASSUME NEW k \in Keys, Find(k) PROVE HashInv'
  BY <1>1, FindInv
<1>2. ASSUME NEW d \in Data, Insert(d) PROVE HashInv'
  BY <1>2, InsertInv
<1>3. ASSUME NEW d \in Data, Replace(d) PROVE HashInv'
  BY <1>3, ReplaceInv
<1>4. CASE GrowNode
  BY <1>4, GrowNodeInv
<1>5. CASE GrowBucket
  BY <1>5, GrowBucketInv
<1>6. CASE GrowDone
  BY <1>6, GrowDoneInv
<1>7. CASE InsertOver
  BY <1>7, InsertOverInv
<1>8. CASE InsertNew
  BY <1>8, InsertNewInv
<1>9. CASE Begin
  BY <1>9, BeginInv
<1>10. CASE ItNext
  BY <1>10, ItNextInv
<1>11. CASE Erase
  BY <1>11, EraseInv
<1>12. CASE Renew
  BY <1>12, RenewInv
<1>13. CASE UNCHANGED vars
  <2>1. UNCHANGED Nodes /\ it' = it /\ scan' = scan /\ seen' = seen
    BY <1>13 DEF vars, Nodes
  <2>2. TypeOK'
    BY <2>1, SameNodes DEF HashInv, TypeOK
  <2>3. IteratorFits'
    BY <2>1 DEF Nodes, HashInv, IteratorFits, AtNode, SeenTo
  <2>4. IterationComplete'
    BY <2>1, SameNodes DEF Nodes, HashInv, IterationComplete
  <2> QED BY <2>1, <2>2, <2>3, <2>4, SameNodes DEF HashInv
<1> QED BY <1>1, <1>2, <1>3, <1>4, <1>5, <1>6, <1>7, <1>8, <1>9, <1>10, <1>11, <1>12, <1>13
        DEF Next

-----------------------------------------------------------------------------
(* Every node is where its hash says, elements are owned while they are    *)
(* held, iterators fit and loops are complete: for any keys and hashes.    *)
THEOREM HashSetIsSound == Spec => []HashInv
<1>1. Init => HashInv
  BY InvInit
<1>2. HashInv /\ [Next]_vars => HashInv'
  BY InvNext
<1> QED BY <1>1, <1>2, PTL DEF Spec

(* Looking into one bucket finds every node of the set and no other.       *)
THEOREM FindIsSound == Spec => []FindSound
<1>1. HashInv => FindSound
  <2> SUFFICES ASSUME HashInv, at = "idle", NEW k \in Keys
               PROVE  Lookup(k).node = k <=> k \in Stored
    BY DEF FindSound
  <2>1. k \in Stored <=> k \in Range(buckets[Index(k, capacity)])
    BY Idle, InBucket
  <2> QED BY <2>1, KeysAssumption DEF Lookup, NoIt, ItMake
<1> QED BY <1>1, HashSetIsSound, PTL

(* The elements the set has and has not deleted are those it holds.        *)
THEOREM ElementsAreOwned == Spec => []OwnedIsStored
<1>1. HashInv => OwnedIsStored
  BY DEF HashInv
<1> QED BY <1>1, HashSetIsSound, PTL

(* A loop over the set comes to every node ...                             *)
THEOREM LoopsAreComplete == Spec => []IterationComplete
<1>1. HashInv => IterationComplete
  BY DEF HashInv
<1> QED BY <1>1, HashSetIsSound, PTL

(* ... and to none twice.                                                  *)
THEOREM LoopsComeOnce == Spec => IterationOnce
<1>1. HashInv /\ [Next]_vars => [ItNext => Visit \notin seen]_vars
  <2>1. ASSUME HashInv, ItNext PROVE Visit \notin seen
    <3>1. Null \notin seen
      BY <2>1, KeysAssumption DEF HashInv, TypeOK
    <3> QED BY <2>1, <3>1, ItNextInv
  <2> QED BY <2>1
<1> QED BY <1>1, HashSetIsSound, PTL DEF Spec, IterationOnce

-----------------------------------------------------------------------------
(* The load: growing doubles the capacity before the node is entered.      *)

(* A node more counts at most once, also when its key was there.           *)
LEMMA NodesCounted ==
  ASSUME LoadInv, NEW k, Stored' \subseteq Stored \cup {k}
  PROVE  /\ IsFiniteSet(Stored') /\ Cardinality(Stored') \in Nat
         /\ Cardinality(Stored') <= Cardinality(Stored) + 1
         /\ Stored' \subseteq Stored => Cardinality(Stored') <= Cardinality(Stored)
<1>1. IsFiniteSet(Stored) /\ Cardinality(Stored) \in Nat
  BY FS_CardinalityType DEF LoadInv
<1>2. /\ IsFiniteSet(Stored \cup {k}) /\ Cardinality(Stored \cup {k}) \in Nat
      /\ Cardinality(Stored \cup {k}) <= Cardinality(Stored) + 1
  BY <1>1, FS_AddElement
<1>3. /\ IsFiniteSet(Stored') /\ Cardinality(Stored') <= Cardinality(Stored \cup {k})
      /\ Cardinality(Stored') \in Nat
  BY <1>2, FS_Subset, FS_CardinalityType
<1>4. Stored' \subseteq Stored => Cardinality(Stored') <= Cardinality(Stored)
  BY <1>1, FS_Subset
<1> QED BY <1>1, <1>2, <1>3, <1>4

(* What adds no node and leaves the array as it is.                        *)
LEMMA LoadKept ==
  ASSUME HashInv, LoadInv, Stored' \subseteq Stored, UNCHANGED <<size, capacity>>,
         at' = "insert" => 4 * size <= 3 * capacity
  PROVE  LoadInv'
<1>1. size \in Nat /\ capacity \in Nat
  BY DEF HashInv, TypeOK
<1>2. IsFiniteSet(Stored') /\ Cardinality(Stored') <= size
  <2>1. Cardinality(Stored) \in Nat
    BY FS_CardinalityType DEF LoadInv
  <2>2. /\ IsFiniteSet(Stored') /\ Cardinality(Stored') <= Cardinality(Stored)
        /\ Cardinality(Stored') \in Nat
    BY NodesCounted
  <2> QED BY <1>1, <2>1, <2>2 DEF LoadInv
<1>3. 4 * size <= 3 * capacity + 4
  BY <1>1 DEF LoadInv
<1>4. size' = size /\ capacity' = capacity
  OBVIOUS
<1>5. CASE at' = "insert"
  BY <1>1, <1>2, <1>4, <1>5 DEF LoadInv
<1>6. CASE at' # "insert"
  BY <1>2, <1>3, <1>4, <1>6 DEF LoadInv
<1> QED BY <1>5, <1>6

LEMMA LoadNext == HashInv /\ LoadInv /\ [Next]_vars => LoadInv'
<1> SUFFICES ASSUME HashInv, LoadInv, [Next]_vars PROVE LoadInv'
  OBVIOUS
<1>0. size \in Nat /\ capacity \in Nat \ {0} /\ Cardinality(Stored) \in Nat
  BY FS_CardinalityType DEF HashInv, TypeOK, LoadInv
<1>1. ASSUME NEW k \in Keys, Find(k) PROVE LoadInv'
  BY <1>1, SameNodes, LoadKept DEF Find, Nodes
<1>2. ASSUME NEW d \in Data, Insert(d) PROVE LoadInv'
  <2>1. at' = "insert" => 4 * size <= 3 * capacity
    BY <1>0, <1>2 DEF Insert, Overloaded
  <2> QED BY <1>2, <2>1, InsertInv, LoadKept DEF Insert
<1>3. ASSUME NEW d \in Data, Replace(d) PROVE LoadInv'
  BY <1>3, ReplaceInv, LoadKept DEF Replace
<1>4. CASE GrowNode
  BY <1>4, GrowNodeInv, LoadKept DEF GrowNode
<1>5. CASE GrowBucket
  BY <1>5, GrowBucketInv, LoadKept DEF GrowBucket
<1>6. CASE GrowDone
  <2>1. capacity' = 2 * capacity /\ size' = size /\ at' = "insert" /\ Stored' = Stored
    BY <1>6, GrowDoneInv DEF GrowDone
  <2>2. 4 * size <= 3 * capacity + 4
    BY <1>6 DEF GrowDone, LoadInv
  <2>3. 4 * size <= 3 * (2 * capacity)
    BY <1>0, <2>2
  <2> QED BY <1>0, <2>1, <2>3 DEF LoadInv
<1>7. CASE InsertOver
  BY <1>7, InsertOverInv, LoadKept DEF InsertOver
<1>8. CASE InsertNew
  <2>1. size' = size + 1 /\ capacity' = capacity /\ at = "insert" /\ at' = "idle"
    BY <1>8 DEF InsertNew
  <2>2. Stored' \subseteq Stored \cup {KeyOf[arg]}
    BY <1>8, InsertNewInv
  <2>3. IsFiniteSet(Stored') /\ Cardinality(Stored') <= size'
    <3>1. /\ IsFiniteSet(Stored') /\ Cardinality(Stored') \in Nat
          /\ Cardinality(Stored') <= Cardinality(Stored) + 1
      BY <2>2, NodesCounted
    <3>2. Cardinality(Stored) <= size
      BY DEF LoadInv
    <3> QED BY <1>0, <2>1, <3>1, <3>2
  <2>4. 4 * size <= 3 * capacity
    BY <1>0, <2>1 DEF LoadInv
  <2>5. 4 * size' <= 3 * capacity' + 4
    BY <1>0, <2>1, <2>4
  <2> QED BY <2>1, <2>3, <2>5 DEF LoadInv
<1>9. CASE Begin
  BY <1>9, SameNodes, LoadKept DEF Begin, Nodes
<1>10. CASE ItNext
  BY <1>10, SameNodes, LoadKept DEF ItNext, Nodes
<1>11. CASE Erase
  BY <1>11, EraseInv, LoadKept DEF Erase
<1>12. CASE Renew
  <2>1. PICK c \in Nat : c = capacity'
    BY <1>12, CapacityAssumption DEF Renew
  <2>2. Stored' = {} /\ size' = 0 /\ at' = "idle"
    BY <1>12, RenewInv DEF Renew
  <2>3. IsFiniteSet(Stored') /\ Cardinality(Stored') = 0
    BY <2>2, FS_EmptySet
  <2>4. 4 * 0 <= 3 * c + 4 /\ 0 <= 0
    OBVIOUS
  <2> QED BY <2>1, <2>2, <2>3, <2>4 DEF LoadInv
<1>13. CASE UNCHANGED vars
  BY <1>13, SameNodes, LoadKept DEF vars, Nodes, LoadInv
<1> QED BY <1>1, <1>2, <1>3, <1>4, <1>5, <1>6, <1>7, <1>8, <1>9, <1>10, <1>11, <1>12, <1>13
        DEF Next

(* hashset_insert keeps the buckets as full as the load factor allows, for *)
(* any history of insertions and erasures.                                 *)
THEOREM BucketsAreNotFull == Spec => []LoadBounded
<1>1. Init => LoadInv
  <2> SUFFICES ASSUME Init PROVE LoadInv
    OBVIOUS
  <2>1. Stored = {} /\ size = 0 /\ capacity \in Nat /\ at = "idle"
    BY CapacityAssumption, Empty DEF Init, Stored
  <2> QED BY <2>1, FS_EmptySet DEF LoadInv
<1>2. HashInv /\ LoadInv /\ [Next]_vars => LoadInv'
  BY LoadNext
<1>3. HashInv /\ LoadInv => LoadBounded
  <2> SUFFICES ASSUME HashInv, LoadInv, at = "idle"
               PROVE  4 * Cardinality(Stored) <= 3 * capacity + 4
    BY DEF LoadBounded
  <2>1. size \in Nat /\ capacity \in Nat /\ Cardinality(Stored) \in Nat
    BY FS_CardinalityType DEF HashInv, TypeOK, LoadInv
  <2> QED BY <2>1 DEF LoadInv
<1> QED BY <1>1, <1>2, <1>3, HashSetIsSound, PTL DEF Spec

-----------------------------------------------------------------------------
(* The hash set implements a map from keys to elements: one step of each   *)
(* insertion, replacement or erasure changes the map, growing and looking  *)
(* do not.                                                                 *)
LEMMA SameContent ==
  ASSUME Stored' = Stored, data' = data
  PROVE  Content' = Content
BY DEF Content

(* An element is put into the map.                                         *)
LEMMA PutContent ==
  ASSUME HashInv, NEW d \in Data, KeyOf[d] \in Keys, Stored' = Stored \cup {KeyOf[d]},
         data' = [data EXCEPT ![KeyOf[d]] = d]
  PROVE  M!Put(d)
<1>1. data \in [Keys -> Data \cup {NoData}]
  BY DEF HashInv, TypeOK
<1>2. \A k \in Keys : data'[k] = IF k = KeyOf[d] THEN d ELSE data[k]
  BY <1>1
<1>3. Content' = [k \in Keys |-> IF k \in Stored' THEN data'[k] ELSE NoData]
  BY DEF Content
<1>4. Content' = [k \in Keys |-> IF k = KeyOf[d] THEN d ELSE Content[k]]
  BY <1>2, <1>3 DEF Content
<1> QED BY <1>4 DEF M!Put, Content

THEOREM HashSetIsMap == Spec => IsMap
<1>1. Init => M!MapInit
  <2> SUFFICES ASSUME Init PROVE Content = [k \in Keys |-> NoData]
    BY DEF M!MapInit
  <2>1. HashInv /\ at = "idle"
    BY InvInit DEF Init
  <2>2. data = [k \in Keys |-> NoData]
    BY DEF Init
  <2> QED BY <2>2 DEF Content
<1>2. HashInv /\ [Next]_vars => [M!MapNext]_Content
  <2> SUFFICES ASSUME HashInv, [Next]_vars PROVE M!MapNext \/ Content' = Content
    BY DEF M!MapNext
  <2>1. ASSUME NEW k \in Keys, Find(k) PROVE Content' = Content
    BY <2>1, SameNodes, SameContent DEF Find, Nodes
  <2>2. ASSUME NEW d \in Data, Insert(d) PROVE Content' = Content
    BY <2>2, InsertInv, SameContent DEF Insert
  <2>3. ASSUME NEW d \in Data, Replace(d) PROVE M!MapNext
    <3>1. Stored' = Stored \cup {KeyOf[d]} /\ KeyOf[d] \in Keys
      BY <2>3, ReplaceInv, Idle DEF Replace
    <3>2. M!Put(d)
      BY <2>3, <3>1, ReplaceInv, PutContent
    <3> QED BY <3>2 DEF M!MapNext
  <2>4. CASE GrowNode
    BY <2>4, GrowNodeInv, SameContent DEF GrowNode
  <2>5. CASE GrowBucket
    BY <2>5, GrowBucketInv, SameContent DEF GrowBucket
  <2>6. CASE GrowDone
    BY <2>6, GrowDoneInv, SameContent DEF GrowDone
  <2>7. CASE InsertOver
    <3>1. arg \in Data
      BY <2>7 DEF HashInv, TypeOK, InsertOver
    <3>2. Stored' = Stored \cup {KeyOf[arg]} /\ KeyOf[arg] \in Keys
      BY <2>7, InsertOverInv, Idle DEF InsertOver
    <3>3. M!Put(arg)
      BY <2>7, <3>1, <3>2, InsertOverInv, PutContent
    <3> QED BY <3>1, <3>3 DEF M!MapNext
  <2>8. CASE InsertNew
    <3>1. arg \in Data
      BY <2>8 DEF HashInv, TypeOK, InsertNew
    <3>2. M!Put(arg)
      BY <2>8, <3>1, InsertNewInv, PutContent
    <3> QED BY <3>1, <3>2 DEF M!MapNext
  <2>9. CASE Begin
    BY <2>9, SameNodes, SameContent DEF Begin, Nodes
  <2>10. CASE ItNext
    BY <2>10, SameNodes, SameContent DEF ItNext, Nodes
  <2>11. CASE Erase
    <3>1. PICK k \in Keys : k = it.node /\ k \in Stored /\ Stored' = Stored \ {k}
      BY <2>11, EraseInv, Idle DEF Erase
    <3>2. data' = [data EXCEPT ![k] = NoData]
      BY <2>11, <3>1 DEF Erase
    <3>3. Content[k] # NoData
      BY <3>1, KeysAssumption DEF HashInv, DataFits, Content
    <3>4. data \in [Keys -> Data \cup {NoData}]
      BY DEF HashInv, TypeOK
    <3>5. Content' = [l \in Keys |-> IF l = k THEN NoData ELSE Content[l]]
      BY <3>1, <3>2, <3>4 DEF Content
    <3>6. M!Remove(k)
      BY <3>3, <3>5 DEF M!Remove, Content
    <3> QED BY <3>6 DEF M!MapNext
  <2>12. CASE Renew
    <3>1. Content' = [k \in Keys |-> NoData]
      BY <2>12, RenewInv DEF Content
    <3> QED BY <3>1 DEF M!MapNext, M!Clear
  <2>13. CASE UNCHANGED vars
    BY <2>13, SameNodes, SameContent DEF vars, Nodes
  <2> QED BY <2>1, <2>2, <2>3, <2>4, <2>5, <2>6, <2>7, <2>8, <2>9, <2>10, <2>11, <2>12, <2>13
          DEF Next
<1> QED BY <1>1, <1>2, HashSetIsSound, PTL DEF Spec, IsMap, M!MapSpec
=============================================================================
