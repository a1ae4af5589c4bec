------------------------------ MODULE HashSet ------------------------------
(* util/hashset.c: buckets of linked nodes that grow with the insertions,  *)
(* and the iterators into them. A bucket is the sequence of its nodes from *)
(* head on; a node is named by the key of its element, which replacing the *)
(* element keeps. Every set of the program is declared with                *)
(* container_new_move: it takes over the element it is handed and deletes  *)
(* it when it leaves.                                                      *)
(*                                                                         *)
(* One call at a time uses a set. All calls are one step but insert, which *)
(* is a step for every node that growing moves. A caller uses an iterator  *)
(* until the next call that makes or invalidates one, as all callers do.   *)
EXTENDS Naturals, Sequences, Functions

CONSTANTS
  Keys,            \* what f_cmp and f_hash look at
  Data,            \* elements
  KeyOf,           \* the key of each element
  NoData,          \* no element
  Null,            \* the pointer to no node
  Hash,            \* f_hash of each key
  InitialCapacity, \* HASHTABLE_INITIAL_CAPACITY
  MaxSize          \* bound: no insertion once size has got there

ASSUME KeysAssumption ==
  /\ KeyOf \in [Data -> Keys]
  /\ Hash \in [Keys -> Nat]
  /\ NoData \notin Data
  /\ Null \notin Keys
ASSUME CapacityAssumption == InitialCapacity \in Nat \ {0}

VARIABLES
  buckets, capacity, size,  \* hashset
  data,         \* what each node holds
  owned,        \* elements the set was handed and has not deleted
  it,           \* the iterator the caller uses: bucket_i, node and prev
  scan,         \* is it from a loop over the set?
  seen,         \* not in the code: nodes the loop has come to
  at,           \* where hashset_insert is: "idle", "grow" or "insert"
  arg,          \* the element to insert
  new_buckets,  \* locals of hashset_grow
  i

vars == <<buckets, capacity, size, data, owned, it, scan, seen, at, arg, new_buckets, i>>

Index(k, c)  == Hash[k] % c
NoBuckets(c) == [b \in 0 .. c - 1 |-> <<>>]

ItMake(b, node, prev) == [bucket_i |-> b, node |-> node, prev |-> prev]
NoIt == ItMake(0, Null, Null)

(* Where a node is in its bucket, and the node before it.                  *)
Position(s, k) == CHOOSE p \in DOMAIN s : s[p] = k

(* A mutant: nobody remembers it.                                          *)
BeforeNone(s, k) == Null
Before(s, k) == IF Position(s, k) = 1 THEN Null ELSE s[Position(s, k) - 1]

Init ==
  /\ buckets = NoBuckets(InitialCapacity)
  /\ capacity = InitialCapacity
  /\ size = 0
  /\ data = [k \in Keys |-> NoData]
  /\ owned = {}
  /\ it = NoIt
  /\ scan = FALSE
  /\ seen = {}
  /\ at = "idle"
  /\ arg = NoData
  /\ new_buckets = <<>>
  /\ i = 0

-----------------------------------------------------------------------------
(* hashset_find                                                            *)
Lookup(k) ==
  LET b == Index(k, capacity)
  IN  IF k \in Range(buckets[b]) THEN ItMake(b, k, Before(buckets[b], k)) ELSE NoIt

Find(k) ==
  /\ at = "idle"
  /\ it' = Lookup(k)
  /\ scan' = FALSE /\ seen' = {}
  /\ UNCHANGED <<buckets, capacity, size, data, owned, at, arg, new_buckets, i>>

(* hashset_begin and hashset_it_next: on to the next bucket with a node.   *)
NonEmptyFrom(b) == {c \in b .. capacity - 1 : buckets[c] # <<>>}
FirstFrom(b, end) ==
  IF NonEmptyFrom(b) = {}
  THEN ItMake(end, Null, Null)
  ELSE LET c == CHOOSE c \in NonEmptyFrom(b) : \A d \in NonEmptyFrom(b) : c <= d
       IN  ItMake(c, Head(buckets[c]), Null)

Visit == (it').node

Begin ==
  /\ at = "idle"
  /\ it' = FirstFrom(0, 0)
  /\ scan' = TRUE
  /\ seen' = {Visit} \ {Null}
  /\ UNCHANGED <<buckets, capacity, size, data, owned, at, arg, new_buckets, i>>

(* A mutant: the bucket is begun again.                                    *)
NextAgain ==
  LET s == buckets[it.bucket_i]
      p == Position(s, it.node)
  IN  IF p < Len(s)
      THEN ItMake(it.bucket_i, s[p + 1], it.node)
      ELSE FirstFrom(it.bucket_i, capacity)
NextIt ==
  LET s == buckets[it.bucket_i]
      p == Position(s, it.node)
  IN  IF p < Len(s)
      THEN ItMake(it.bucket_i, s[p + 1], it.node)
      ELSE FirstFrom(it.bucket_i + 1, capacity)

ItNext ==
  /\ at = "idle" /\ scan /\ it.node # Null
  /\ it' = NextIt
  /\ seen' = seen \cup ({Visit} \ {Null})
  /\ UNCHANGED <<buckets, capacity, size, data, owned, scan, at, arg, new_buckets, i>>

-----------------------------------------------------------------------------
(* hashset_insert up to its test of the load: size / capacity > 0.75       *)
OverloadedLate == size > capacity
Overloaded == 4 * size > 3 * capacity

Insert(d) ==
  /\ at = "idle" /\ d \notin owned /\ size < MaxSize
  /\ arg' = d
  /\ owned' = owned \cup {d}
  /\ it' = NoIt
  /\ scan' = FALSE /\ seen' = {}
  /\ IF Overloaded
     THEN at' = "grow" /\ new_buckets' = NoBuckets(2 * capacity) /\ i' = 0
     ELSE at' = "insert" /\ UNCHANGED <<new_buckets, i>>
  /\ UNCHANGED <<buckets, capacity, size, data>>

(* hashset_grow: the loop over the nodes of a bucket ...                   *)
GrowIndex(k) == Index(k, 2 * capacity)

GrowNode ==
  /\ at = "grow" /\ i < capacity /\ buckets[i] # <<>>
  /\ LET node == Head(buckets[i])
     IN  new_buckets' = [new_buckets EXCEPT ![GrowIndex(node)] = <<node>> \o @]
  /\ buckets' = [buckets EXCEPT ![i] = Tail(@)]
  /\ UNCHANGED <<capacity, size, data, owned, it, scan, seen, at, arg, i>>

(* ... the loop over the buckets ...                                       *)
GrowBucket ==
  /\ at = "grow" /\ i < capacity /\ buckets[i] = <<>>
  /\ i' = i + 1
  /\ UNCHANGED <<buckets, capacity, size, data, owned, it, scan, seen, at, arg, new_buckets>>

(* ... and what is behind it.                                              *)
GrowDone ==
  /\ at = "grow" /\ i = capacity
  /\ buckets' = new_buckets
  /\ capacity' = 2 * capacity
  /\ new_buckets' = <<>>
  /\ at' = "insert"
  /\ i' = 0
  /\ UNCHANGED <<size, data, owned, it, scan, seen, arg>>

(* The rest of hashset_insert: over the element with the same key ...      *)
InsertOver ==
  LET k == KeyOf[arg]
      b == Index(k, capacity)
  IN  /\ at = "insert" /\ k \in Range(buckets[b])
      /\ owned' = owned \ {data[k]}
      /\ data' = [data EXCEPT ![k] = arg]
      /\ it' = ItMake(b, k, Before(buckets[b], k))
      /\ at' = "idle" /\ arg' = NoData
      /\ UNCHANGED <<buckets, capacity, size, scan, seen, new_buckets, i>>

(* ... or in front of the bucket.                                          *)
InsertNew ==
  LET k == KeyOf[arg]
      b == Index(k, capacity)
  IN  /\ at = "insert" /\ k \notin Range(buckets[b])
      /\ buckets' = [buckets EXCEPT ![b] = <<k>> \o @]
      /\ data' = [data EXCEPT ![k] = arg]
      /\ size' = size + 1
      /\ it' = ItMake(b, k, Null)
      /\ at' = "idle" /\ arg' = NoData
      /\ UNCHANGED <<capacity, owned, scan, seen, new_buckets, i>>

-----------------------------------------------------------------------------
(* hashset_replace: callers find the node by the key of the new element.   *)
ReplaceOwned(d) == (owned \ {data[it.node]}) \cup {d}

Replace(d) ==
  /\ at = "idle" /\ d \notin owned
  /\ it.node = KeyOf[d]
  /\ owned' = ReplaceOwned(d)
  /\ data' = [data EXCEPT ![it.node] = d]
  /\ UNCHANGED <<buckets, capacity, size, it, scan, seen, at, arg, new_buckets, i>>

(* hashset_erase: the node before, or the bucket, leads on to the node     *)
(* behind. The size stays.                                                 *)
(* A mutant: the node before is not asked for.                             *)
UnlinkFront(s) == SubSeq(s, Position(s, it.node) + 1, Len(s))
Unlink(s) ==
  LET rest == SubSeq(s, Position(s, it.node) + 1, Len(s))
  IN  IF it.prev = Null THEN rest ELSE SubSeq(s, 1, Position(s, it.prev)) \o rest

Erase ==
  /\ at = "idle" /\ it.node # Null
  /\ owned' = owned \ {data[it.node]}
  /\ data' = [data EXCEPT ![it.node] = NoData]
  /\ buckets' = [buckets EXCEPT ![it.bucket_i] = Unlink(@)]
  /\ it' = NoIt
  /\ scan' = FALSE /\ seen' = {}
  /\ UNCHANGED <<capacity, size, at, arg, new_buckets, i>>

(* hashset_free and hashset_new, as cmd_delete does to delete everything   *)
Renew ==
  /\ at = "idle"
  /\ buckets' = NoBuckets(InitialCapacity)
  /\ capacity' = InitialCapacity
  /\ size' = 0
  /\ owned' = owned \ {data[k] : k \in UNION {Range(buckets[b]) : b \in DOMAIN buckets}}
  /\ data' = [k \in Keys |-> NoData]
  /\ it' = NoIt
  /\ scan' = FALSE /\ seen' = {}
  /\ UNCHANGED <<at, arg, new_buckets, i>>

Next ==
  \/ \E k \in Keys : Find(k)
  \/ \E d \in Data : Insert(d) \/ Replace(d)
  \/ GrowNode \/ GrowBucket \/ GrowDone
  \/ InsertOver \/ InsertNew
  \/ Begin \/ ItNext
  \/ Erase
  \/ Renew

Spec == Init /\ [][Next]_vars
=============================================================================
