-------------------------- MODULE HashSetInvariant --------------------------
(* What the hash set promises, and the inductive invariant behind it.      *)
EXTENDS HashSet, FiniteSets

KeysIn(t) == UNION {Range(t[b]) : b \in DOMAIN t}

(* The nodes of the set: while it grows, those in either array.            *)
Stored == KeysIn(buckets) \cup (IF at = "grow" THEN KeysIn(new_buckets) ELSE {})

TypeOK ==
  /\ capacity \in Nat \ {0}
  /\ size \in Nat
  /\ buckets \in [0 .. capacity - 1 -> Seq(Keys)]
  /\ data \in [Keys -> Data \cup {NoData}]
  /\ owned \in SUBSET Data
  /\ it \in [bucket_i : Nat, node : Keys \cup {Null}, prev : Keys \cup {Null}]
  /\ scan \in BOOLEAN
  /\ seen \in SUBSET Keys
  /\ at \in {"idle", "grow", "insert"}
  /\ at # "idle" => arg \in Data
  /\ at = "grow" => /\ new_buckets \in [0 .. 2 * capacity - 1 -> Seq(Keys)]
                    /\ i \in 0 .. capacity

(* Every node is in the bucket of its hash, and there once.                *)
InPlace(t, c) ==
  /\ \A b \in DOMAIN t : \A k \in Range(t[b]) : Index(k, c) = b
  /\ \A b \in DOMAIN t : \A p, q \in DOMAIN t[b] : t[b][p] = t[b][q] => p = q

(* While the set grows no node is in both arrays, and the buckets that     *)
(* were gone through are empty.                                            *)
Moved ==
  at = "grow" =>
    /\ InPlace(new_buckets, 2 * capacity)
    /\ KeysIn(buckets) \cap KeysIn(new_buckets) = {}
    /\ \A b \in 0 .. i - 1 : buckets[b] = <<>>

(* A node holds an element with its key.                                   *)
DataFits == \A k \in Stored : data[k] \in Data /\ KeyOf[data[k]] = k

(* hashset_insert, hashset_replace, hashset_erase: the elements that the   *)
(* set was handed and has not deleted are those it holds and the one it is *)
(* about to take. None is lost without being deleted, none is deleted and  *)
(* still reached.                                                          *)
OwnedIsStored ==
  /\ owned = {data[k] : k \in Stored} \cup (IF at = "idle" THEN {} ELSE {arg})
  /\ at # "idle" => \A k \in Stored : data[k] # arg

(* The iterator is at a node of its bucket, and knows the node before.     *)
AtNode(p) ==
  LET s == buckets[it.bucket_i]
  IN  /\ p \in DOMAIN s
      /\ s[p] = it.node
      /\ it.prev = IF p = 1 THEN Null ELSE s[p - 1]

(* A loop over the set has come to the nodes of the buckets before it and  *)
(* to those of its bucket up to it.                                        *)
SeenTo(p) ==
  \A k \in Keys : k \in seen <=>
    \/ \E b \in 0 .. it.bucket_i - 1 : k \in Range(buckets[b])
    \/ \E q \in 1 .. p : buckets[it.bucket_i][q] = k

IteratorFits ==
  it.node # Null =>
    /\ at = "idle"
    /\ it.bucket_i < capacity
    /\ \E p \in DOMAIN buckets[it.bucket_i] : AtNode(p) /\ (scan => SeenTo(p))

(* hashset_begin, hashset_it_next: a loop over the set ends when it has    *)
(* come to every node.                                                     *)
IterationComplete == scan /\ it.node = Null => seen = Stored /\ at = "idle"

HashInv ==
  /\ TypeOK
  /\ InPlace(buckets, capacity)
  /\ Moved
  /\ DataFits
  /\ OwnedIsStored
  /\ IteratorFits
  /\ IterationComplete

-----------------------------------------------------------------------------
(* hashset_find, which looks into one bucket, finds every node of the set  *)
(* and no other, however often it has grown.                               *)
FindSound == at = "idle" => \A k \in Keys : Lookup(k).node = k <=> k \in Stored

(* hashset_insert: the buckets are never fuller than the load factor and   *)
(* the element that is inserted, though the size forgets what was erased.  *)
LoadBounded == at = "idle" => 4 * Cardinality(Stored) <= 3 * capacity + 4

(* Why: size is at least the number of nodes, and at most what the load     *)
(* factor allows at each point of an insertion.                            *)
LoadInv ==
  /\ IsFiniteSet(Stored) /\ Cardinality(Stored) <= size
  /\ 4 * size <= 3 * capacity + (IF at = "insert" THEN 0 ELSE 4)

(* hashset_it_next: a loop does not come to a node twice.                  *)
IterationOnce == [][ItNext => Visit \notin seen]_vars

(* Growing, replacing and unlinking nodes is invisible: the set is a map   *)
(* from keys to the elements put last.                                     *)
Content == [k \in Keys |-> IF k \in Stored THEN data[k] ELSE NoData]
M == INSTANCE KeyMap WITH map <- Content
IsMap == M!MapSpec
=============================================================================
