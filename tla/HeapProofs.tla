------------------------------ MODULE HeapProofs ------------------------------
(***************************************************************************)
(* The heap is right for any number of blocks, elements, names and active  *)
(* calls: HeapInv is an invariant, and with it what the runtime promises.  *)
(***************************************************************************)
EXTENDS HeapProperties, FiniteSetTheorems, SequenceTheorems, TLAPS

-------------------------------------------------------------------------------
(* Locations and values.                                                   *)

LEMMA ElemLoc ==
  ASSUME NEW b \in Blocks, NEW k \in 1 .. N
  PROVE  <<b, k>> \in Elems /\ <<b, k>> \in Locs /\ <<b, k>> \notin Slots /\ <<b, k>>[1] = b
<1>1. <<b, k>> \in Elems
  BY DEF Elems
<1> QED BY <1>1, HeapAssumption DEF Locs

LEMMA LocIsElem ==
  ASSUME NEW l \in Locs, l \notin Slots
  PROVE  l[1] \in Blocks /\ \E k \in 1 .. N : l = <<l[1], k>>
BY DEF Locs, Elems

LEMMA SlotLoc ==
  ASSUME NEW d \in 0 .. MaxDepth, NEW n \in Names
  PROVE  <<d, n>> \in Slots /\ <<d, n>> \in Locs
BY DEF Locs, Slots

LEMMA NamesAreNames ==
  NamesOf(Vars) \cup NamesOf(Tmps) \cup NamesOf(Refs) \cup NamesOf(Params) = Names
BY DEF Names

LEMMA RefSlot ==
  ASSUME NEW l \in RefSlots
  PROVE  l \in Slots /\ l \in Locs
BY DEF RefSlots, Slots, Locs, Names

LEMMA ValueCases ==
  ASSUME NEW v \in Value
  PROVE  /\ v \in Blocks => v # Void /\ ~IsRef(v) /\ ~IsStr(v)
         /\ v = Void => ~IsRef(v) /\ ~IsStr(v)
         /\ IsRef(v) => v.ref \in Elems /\ v.ref \in Locs /\ v.ref \notin Slots /\ ~IsStr(v)
         /\ IsStr(v) => v.str \in Blocks
         /\ v \in Blocks \cup {Void} \/ IsRef(v) \/ IsStr(v)
<1>1. IsRef(v) => v.ref \in Elems
  BY DEF IsRef
<1>2. IsStr(v) => v.str \in Blocks
  BY DEF IsStr
<1>3. Elems \subseteq Locs /\ Elems \cap Slots = {}
  BY HeapAssumption DEF Locs
<1>4. v \in Blocks \cup {Void} \/ IsRef(v) \/ IsStr(v)
  BY DEF Value, IsRef, IsStr
<1>5. v \in Blocks => v # Void /\ ~IsRef(v) /\ ~IsStr(v)
  BY HeapAssumption DEF IsRef, IsStr
<1>6. v = Void => ~IsRef(v) /\ ~IsStr(v)
  BY HeapAssumption DEF IsRef, IsStr
<1>7. IsRef(v) => ~IsStr(v)
  BY HeapAssumption DEF IsRef, IsStr
<1> QED BY <1>1, <1>2, <1>3, <1>4, <1>5, <1>6, <1>7

LEMMA MakesValue ==
  /\ Void \in Value /\ Blocks \subseteq Value
  /\ \A l \in Elems : [ref |-> l] \in Value /\ [ref |-> l].ref = l
                      /\ IsRef([ref |-> l]) /\ ~IsStr([ref |-> l])
  /\ \A b \in Blocks : [str |-> b] \in Value /\ [str |-> b].str = b
                      /\ IsStr([str |-> b]) /\ ~IsRef([str |-> b])
<1>1. Void \in Value /\ Blocks \subseteq Value
  BY DEF Value
<1>2. ASSUME NEW l \in Elems
      PROVE  [ref |-> l] \in Value /\ [ref |-> l].ref = l /\ IsRef([ref |-> l])
  BY DEF Value, IsRef
<1>3. ASSUME NEW b \in Blocks
      PROVE  [str |-> b] \in Value /\ [str |-> b].str = b /\ IsStr([str |-> b])
  BY DEF Value, IsStr
<1>4. \A v : ~(IsRef(v) /\ IsStr(v))
  BY HeapAssumption DEF IsRef, IsStr
<1> QED BY <1>1, <1>2, <1>3, <1>4

(* Frames and blocks have finitely many locations.                         *)
LEMMA NamesFinite ==
  ASSUME NEW s, s \in Seq(NamesOf(s))
  PROVE  IsFiniteSet(NamesOf(s))
<1>1. s \in [1 .. Len(s) -> NamesOf(s)] /\ Len(s) \in Nat /\ DOMAIN s = 1 .. Len(s)
  BY LenProperties
<1>2. s \in Surjection(1 .. Len(s), NamesOf(s))
  BY <1>1 DEF Surjection, NamesOf
<1>3. IsFiniteSet(1 .. Len(s))
  BY <1>1, FS_Interval
<1> QED BY <1>2, <1>3, FS_Surjection

LEMMA LocsFinite == IsFiniteSet(Locs)
<1>1. /\ IsFiniteSet(NamesOf(Vars)) /\ IsFiniteSet(NamesOf(Tmps))
      /\ IsFiniteSet(NamesOf(Refs)) /\ IsFiniteSet(NamesOf(Params))
  BY HeapAssumption, NamesFinite
<1>2. IsFiniteSet(Names)
  BY <1>1, FS_Union DEF Names
<1>3. IsFiniteSet(0 .. MaxDepth) /\ IsFiniteSet(1 .. N)
  <2>1. N \in Int /\ MaxDepth \in Int
    BY HeapAssumption
  <2> QED BY <2>1, FS_Interval
<1>4. IsFiniteSet(Slots)
  BY <1>2, <1>3, FS_Product DEF Slots
<1>5. IsFiniteSet(Elems)
  BY <1>3, HeapAssumption, FS_Product DEF Elems
<1> QED BY <1>4, <1>5, FS_Union DEF Locs

(* Which names are whose.                                                  *)
LEMMA NamesApart ==
  /\ Vars \in Seq(Names) /\ Tmps \in Seq(Names) /\ Refs \in Seq(Names)
  /\ Params \in Seq(Names) /\ Locals \in Seq(Names)
  /\ NamesOf(Refs) \cap (NamesOf(Vars) \cup NamesOf(Tmps) \cup NamesOf(Params)) = {}
<1>1. /\ Vars \in Seq(Names) /\ Tmps \in Seq(Names) /\ Refs \in Seq(Names)
      /\ Params \in Seq(Names)
  <2>1. /\ Vars \in Seq(NamesOf(Vars)) /\ Tmps \in Seq(NamesOf(Tmps))
        /\ Refs \in Seq(NamesOf(Refs)) /\ Params \in Seq(NamesOf(Params))
    BY HeapAssumption
  <2> QED BY <2>1, SeqMonotonic DEF Names
<1> DEFINE before == Vars \o Tmps
<1>2. /\ before \in Seq(Names) /\ Len(before) = Len(Vars) + Len(Tmps)
      /\ \A i \in 1 .. Len(Vars) + Len(Tmps) :
           before[i] = IF i <= Len(Vars) THEN Vars[i] ELSE Tmps[i - Len(Vars)]
  BY <1>1, ConcatProperties
<1>3. /\ Locals \in Seq(Names) /\ Len(Locals) = Len(before) + Len(Refs)
      /\ \A i \in 1 .. Len(before) + Len(Refs) :
           Locals[i] = IF i <= Len(before) THEN before[i] ELSE Refs[i - Len(before)]
  <2> HIDE DEF before
  <2>1. before \o Refs \in Seq(Names) /\ Len(before \o Refs) = Len(before) + Len(Refs)
      /\ \A i \in 1 .. Len(before) + Len(Refs) :
           (before \o Refs)[i] = IF i <= Len(before) THEN before[i] ELSE Refs[i - Len(before)]
    <3>1. before \in Seq(Names) /\ Refs \in Seq(Names)
      BY <1>1, <1>2
    <3> QED BY <3>1, ConcatProperties
  <2> QED BY <2>1 DEF Locals, before
<1>4. /\ DOMAIN Vars = 1 .. Len(Vars) /\ DOMAIN Tmps = 1 .. Len(Tmps)
      /\ DOMAIN Refs = 1 .. Len(Refs) /\ DOMAIN Locals = 1 .. Len(Locals)
      /\ Len(Vars) \in Nat /\ Len(Tmps) \in Nat /\ Len(Refs) \in Nat
  BY <1>1, <1>3, LenProperties
<1> HIDE DEF before
<1>5. /\ \A i \in DOMAIN Vars : i \in DOMAIN Locals /\ Locals[i] = Vars[i]
      /\ \A i \in DOMAIN Tmps : Len(Vars) + i \in DOMAIN Locals /\ Locals[Len(Vars) + i] = Tmps[i]
      /\ \A i \in DOMAIN Refs : /\ Len(Vars) + Len(Tmps) + i \in DOMAIN Locals
                                /\ Locals[Len(Vars) + Len(Tmps) + i] = Refs[i]
  <2>1. ASSUME NEW i \in DOMAIN Vars PROVE i \in DOMAIN Locals /\ Locals[i] = Vars[i]
    BY <1>2, <1>3, <1>4
  <2>2. ASSUME NEW i \in DOMAIN Tmps
        PROVE  Len(Vars) + i \in DOMAIN Locals /\ Locals[Len(Vars) + i] = Tmps[i]
    <3>1. Len(Vars) + i \in 1 .. Len(before) /\ ~(Len(Vars) + i <= Len(Vars))
          /\ (Len(Vars) + i) - Len(Vars) = i
      BY <1>2, <1>4
    <3> QED BY <1>2, <1>3, <1>4, <3>1
  <2>3. ASSUME NEW i \in DOMAIN Refs
        PROVE  /\ Len(Vars) + Len(Tmps) + i \in DOMAIN Locals
               /\ Locals[Len(Vars) + Len(Tmps) + i] = Refs[i]
    <3>1. Len(before) + i \in 1 .. Len(Locals) /\ ~(Len(before) + i <= Len(before))
          /\ (Len(before) + i) - Len(before) = i
      BY <1>2, <1>3, <1>4
    <3> QED BY <1>2, <1>3, <1>4, <3>1
  <2> QED BY <2>1, <2>2, <2>3
<1>6. \A i, j \in DOMAIN Locals : Locals[i] = Locals[j] => i = j
  BY HeapAssumption
<1>7. /\ \A i \in DOMAIN Refs, j \in DOMAIN Vars : Refs[i] # Vars[j]
      /\ \A i \in DOMAIN Refs, j \in DOMAIN Tmps : Refs[i] # Tmps[j]
  <2>1. ASSUME NEW i \in DOMAIN Refs, NEW j \in DOMAIN Vars, Refs[i] = Vars[j]
        PROVE  FALSE
    <3>1. Len(Vars) + Len(Tmps) + i = j
      BY <1>5, <1>6, <2>1
    <3> QED BY <1>4, <2>1, <3>1
  <2>2. ASSUME NEW i \in DOMAIN Refs, NEW j \in DOMAIN Tmps, Refs[i] = Tmps[j]
        PROVE  FALSE
    <3>1. Len(Vars) + Len(Tmps) + i = Len(Vars) + j
      BY <1>5, <1>6, <2>2
    <3> QED BY <1>4, <2>2, <3>1
  <2> QED BY <2>1, <2>2
<1>8. NamesOf(Refs) \subseteq NamesOf(Locals)
  BY <1>5 DEF NamesOf
<1>9. NamesOf(Locals) \cap NamesOf(Params) = {}
  BY HeapAssumption
<1>10. NamesOf(Refs) \cap NamesOf(Vars) = {} /\ NamesOf(Refs) \cap NamesOf(Tmps) = {}
  BY <1>7 DEF NamesOf
<1> QED BY <1>1, <1>3, <1>8, <1>9, <1>10

LEMMA SourcesApart ==
  ASSUME depth \in 0 .. MaxDepth
  PROVE  /\ Sources \subseteq Slots \ RefSlots
         /\ Results \subseteq Sources /\ Places \subseteq Sources
         /\ Slots \subseteq Locs
<1>1. NamesOf(Refs) \cap (NamesOf(Vars) \cup NamesOf(Tmps) \cup NamesOf(Params)) = {}
  BY NamesApart
<1> QED BY <1>1 DEF Sources, Places, Results, SlotsOf, Slot, Slots, RefSlots, Names, Locs

-------------------------------------------------------------------------------
(* Tasks.                                                                  *)

LEMMA TaskCases ==
  ASSUME NEW t \in Task
  PROVE  /\ t.do \in {"drop", "release", "copy", "make", "leave"}
         /\ t.do # "leave" => t.to \in Locs
         /\ t.do = "copy" => t.from \in Locs
         /\ t.do = "make" => t.dims \in Nat
BY DEF Task

LEMMA MakesTask ==
  ASSUME NEW l \in Locs
  PROVE  /\ Drop(l) \in Task /\ Drop(l).do = "drop" /\ Drop(l).to = l
         /\ Release(l) \in Task /\ Release(l).do = "release" /\ Release(l).to = l
         /\ \A f \in Locs : /\ Copy(l, f) \in Task /\ Copy(l, f).do = "copy"
                            /\ Copy(l, f).to = l /\ Copy(l, f).from = f
         /\ \A d \in Nat : /\ Make(l, d) \in Task /\ Make(l, d).do = "make"
                           /\ Make(l, d).to = l /\ Make(l, d).dims = d
         /\ Leave \in Task /\ Leave.do = "leave"
BY DEF Drop, Release, Copy, Make, Leave, Task

LEMMA Tasks ==
  ASSUME todo \in Seq(Task)
  PROVE  /\ Len(todo) \in Nat /\ DOMAIN todo = 1 .. Len(todo)
         /\ \A i \in 1 .. Len(todo) : todo[i] \in Task
         /\ todo = <<>> <=> Len(todo) = 0
         /\ todo # <<>> => Head1 = todo[1]
<1>1. Len(todo) \in Nat /\ DOMAIN todo = 1 .. Len(todo)
  BY LenProperties
<1>2. \A i \in 1 .. Len(todo) : todo[i] \in Task
  BY ElementOfSeq
<1>3. todo = <<>> <=> Len(todo) = 0
  BY EmptySeq
<1>4. Head(todo) = todo[1]
  OBVIOUS
<1> QED BY <1>1, <1>2, <1>3, <1>4 DEF Head1

LEMMA TailTasks ==
  ASSUME todo \in Seq(Task), todo # <<>>, todo' = Tail(todo)
  PROVE  /\ todo' \in Seq(Task) /\ Len(todo) \in Nat \ {0}
         /\ Len(todo') = Len(todo) - 1 /\ DOMAIN todo' = 1 .. Len(todo) - 1
         /\ \A i \in 1 .. Len(todo) - 1 : todo'[i] = todo[i + 1]
BY HeadTailProperties, EmptySeq, LenProperties

(* A list that is put before the tasks that are left.                      *)
LEMMA MoreTasks ==
  ASSUME todo \in Seq(Task), todo # <<>>, NEW new \in Seq(Task), todo' = new \o Tail(todo)
  PROVE  /\ todo' \in Seq(Task) /\ Len(todo) \in Nat \ {0} /\ Len(new) \in Nat
         /\ Len(todo') = Len(new) + Len(todo) - 1
         /\ DOMAIN todo' = 1 .. Len(new) + Len(todo) - 1
         /\ \A i \in 1 .. Len(new) : todo'[i] = new[i]
         /\ \A i \in 2 .. Len(todo) : todo'[Len(new) + i - 1] = todo[i]
<1> DEFINE tl == Tail(todo)
<1>1. /\ tl \in Seq(Task) /\ Len(todo) \in Nat \ {0} /\ Len(tl) = Len(todo) - 1
      /\ \A i \in 1 .. Len(todo) - 1 : tl[i] = todo[i + 1]
  BY HeadTailProperties, EmptySeq
<1> HIDE DEF tl
<1>2. /\ new \o tl \in Seq(Task) /\ Len(new \o tl) = Len(new) + Len(tl)
      /\ \A i \in 1 .. Len(new) + Len(tl) :
           (new \o tl)[i] = IF i <= Len(new) THEN new[i] ELSE tl[i - Len(new)]
  BY <1>1, ConcatProperties
<1>3. todo' = new \o tl
  BY DEF tl
<1>4. Len(new) \in Nat
  BY LenProperties
<1>5. todo' \in Seq(Task) /\ Len(todo') = Len(new) + Len(todo) - 1
  BY <1>1, <1>2, <1>3, <1>4
<1>6. DOMAIN todo' = 1 .. Len(new) + Len(todo) - 1
  BY <1>5, LenProperties
<1>7. \A i \in 1 .. Len(new) : todo'[i] = new[i]
  BY <1>1, <1>2, <1>3, <1>4
<1>8. ASSUME NEW i \in 2 .. Len(todo)
      PROVE  todo'[Len(new) + i - 1] = todo[i]
  <2>1. Len(new) + i - 1 \in 1 .. Len(new) + Len(tl) /\ ~(Len(new) + i - 1 <= Len(new))
        /\ (Len(new) + i - 1) - Len(new) = i - 1 /\ i - 1 \in 1 .. Len(todo) - 1 /\ (i - 1) + 1 = i
    BY <1>1, <1>4
  <2> QED BY <1>1, <1>2, <1>3, <2>1
<1> QED BY <1>1, <1>4, <1>5, <1>6, <1>7, <1>8

(* A task for each element.                                                *)
LEMMA ElementTasks ==
  ASSUME NEW b \in Blocks
  PROVE  /\ DropElements(b) \in Seq(Task) /\ Len(DropElements(b)) = N
         /\ \A i \in 1 .. N : DropElements(b)[i] = Drop(<<b, i>>)
         /\ \A d \in Nat : /\ MakeElements(b, d) \in Seq(Task) /\ Len(MakeElements(b, d)) = N
                           /\ \A i \in 1 .. N : MakeElements(b, d)[i] = Make(<<b, i>>, d)
<1>1. \A i \in 1 .. N : Drop(<<b, i>>) \in Task /\ \A d \in Nat : Make(<<b, i>>, d) \in Task
  BY ElemLoc, MakesTask
<1>2. N \in Nat
  BY HeapAssumption
<1>3. ASSUME NEW d \in Nat
      PROVE  /\ MakeElements(b, d) \in Seq(Task) /\ Len(MakeElements(b, d)) = N
             /\ \A i \in 1 .. N : MakeElements(b, d)[i] = Make(<<b, i>>, d)
  BY <1>1, <1>2 DEF MakeElements
<1> QED BY <1>1, <1>2, <1>3 DEF DropElements

-------------------------------------------------------------------------------
(* Counting.                                                               *)

LEMMA HoldersFinite ==
  ASSUME NEW b
  PROVE  IsFiniteSet(Holders(b)) /\ Cardinality(Holders(b)) \in Nat
<1>1. Holders(b) \in SUBSET Locs
  BY DEF Holders
<1> QED BY <1>1, LocsFinite, FS_Subset, FS_CardinalityType

LEMMA HoldersFiniteNext ==
  ASSUME NEW b
  PROVE  IsFiniteSet(Holders(b)') /\ Cardinality(Holders(b)') \in Nat
<1>1. Holders(b)' \in SUBSET Locs
  BY DEF Holders
<1> QED BY <1>1, LocsFinite, FS_Subset, FS_CardinalityType

(* What is written over is lost, what is written is held.                  *)
LEMMA LostOne ==
  ASSUME lost \in [Blocks -> Nat], NEW l
  PROVE  /\ Lost({l}) \in [Blocks -> Nat]
         /\ \A b \in Blocks : Lost({l})[b] = lost[b] + (IF mem[l] = b THEN 1 ELSE 0)
<1>1. ASSUME NEW b \in Blocks
      PROVE  Lost({l})[b] = lost[b] + (IF mem[l] = b THEN 1 ELSE 0)
  <2>1. {x \in {l} : mem[x] = b} = IF mem[l] = b THEN {l} ELSE {}
    OBVIOUS
  <2>2. Lost({l})[b] = lost[b] + Cardinality({x \in {l} : mem[x] = b})
    BY DEF Lost
  <2>3. Cardinality({l}) = 1 /\ Cardinality({}) = 0
    BY FS_Singleton, FS_EmptySet
  <2>4. CASE mem[l] = b
    BY <2>1, <2>2, <2>3, <2>4
  <2>5. CASE mem[l] # b
    BY <2>1, <2>2, <2>3, <2>5
  <2> QED BY <2>4, <2>5
<1>2. ASSUME NEW b \in Blocks
      PROVE  Lost({l})[b] \in Nat
  <2>1. lost[b] \in Nat
    OBVIOUS
  <2> QED BY <1>1, <2>1
<1>3. Lost({l}) = [b \in Blocks |-> lost[b] + Cardinality({x \in {l} : mem[x] = b})]
  BY DEF Lost
<1> QED BY <1>1, <1>2, <1>3

LEMMA HeldAfter ==
  ASSUME mem \in [Locs -> Value], Leaving = {}, Leaving' = {},
         NEW l \in Locs, NEW v, mem' = [mem EXCEPT ![l] = v], NEW b \in Blocks
  PROVE  Cardinality(Holders(b)') = Cardinality(Holders(b)) + (IF v = b THEN 1 ELSE 0)
                                                            - (IF mem[l] = b THEN 1 ELSE 0)
<1> DEFINE H == Holders(b)
<1>1. H = {x \in Locs : mem[x] = b} /\ Holders(b)' = {x \in Locs : mem'[x] = b}
  BY DEF Holders
<1>2. \A x \in Locs : mem'[x] = IF x = l THEN v ELSE mem[x]
  OBVIOUS
<1>3. l \in H <=> mem[l] = b
  BY <1>1
<1>4. Holders(b)' = IF v = b THEN H \cup {l} ELSE H \ {l}
  <2>1. CASE v = b
    BY <1>1, <1>2, <2>1
  <2>2. CASE v # b
    BY <1>1, <1>2, <2>2
  <2> QED BY <2>1, <2>2
<1>5. IsFiniteSet(H) /\ Cardinality(H) \in Nat
  BY HoldersFinite
<1> HIDE DEF H
<1>6. /\ Cardinality(H \cup {l}) = IF l \in H THEN Cardinality(H) ELSE Cardinality(H) + 1
      /\ Cardinality(H \ {l}) = IF l \in H THEN Cardinality(H) - 1 ELSE Cardinality(H)
  BY <1>5, FS_AddElement, FS_RemoveElement
<1>7. Cardinality(Holders(b)') = Cardinality(H) + (IF v = b THEN 1 ELSE 0) - (IF l \in H THEN 1 ELSE 0)
  <2>1. CASE v = b
    BY <1>4, <1>5, <1>6, <2>1
  <2>2. CASE v # b
    BY <1>4, <1>5, <1>6, <2>2
  <2> QED BY <2>1, <2>2
<1> QED BY <1>3, <1>7 DEF H

LEMMA WriteCounts ==
  ASSUME mem \in [Locs -> Value], lost \in [Blocks -> Nat], Leaving = {}, Leaving' = {},
         NEW l \in Locs, NEW v, mem' = [mem EXCEPT ![l] = v], lost' = Lost({l})
  PROVE  /\ lost' \in [Blocks -> Nat]
         /\ \A b \in Blocks : /\ lost'[b] >= lost[b]
                              /\ mem[l] = b => lost'[b] > 0
                              /\ Cardinality(Holders(b)') + lost'[b]
                                 = Cardinality(Holders(b)) + lost[b] + (IF v = b THEN 1 ELSE 0)
<1>1. lost' \in [Blocks -> Nat]
      /\ \A b \in Blocks : lost'[b] = lost[b] + (IF mem[l] = b THEN 1 ELSE 0)
  BY LostOne
<1>2. ASSUME NEW b \in Blocks
      PROVE  /\ lost'[b] >= lost[b]
             /\ mem[l] = b => lost'[b] > 0
             /\ Cardinality(Holders(b)') + lost'[b]
                = Cardinality(Holders(b)) + lost[b] + (IF v = b THEN 1 ELSE 0)
  <2>1. Cardinality(Holders(b)') = Cardinality(Holders(b)) + (IF v = b THEN 1 ELSE 0)
                                                           - (IF mem[l] = b THEN 1 ELSE 0)
    BY HeldAfter
  <2>2. lost[b] \in Nat /\ Cardinality(Holders(b)) \in Nat
    BY HoldersFinite
  <2>3. lost'[b] = lost[b] + (IF mem[l] = b THEN 1 ELSE 0)
    BY <1>1
  <2>4. CASE mem[l] = b
    BY <2>1, <2>2, <2>3, <2>4
  <2>5. CASE mem[l] # b
    BY <2>1, <2>2, <2>3, <2>5
  <2> QED BY <2>4, <2>5
<1> QED BY <1>1, <1>2

(* What is dropped, or is about to be released, is held no more.           *)
LEMMA DropCounts ==
  ASSUME NEW b \in Blocks, NEW l, Holders(b)' = Holders(b) \ {l}
  PROVE  Cardinality(Holders(b)')
         = Cardinality(Holders(b)) - (IF l \in Holders(b) THEN 1 ELSE 0)
BY HoldersFinite, FS_RemoveElement

LEMMA HeldCounts ==
  ASSUME CountExact, cnt \in [Blocks -> Nat], lost \in [Blocks -> Nat], NEW b \in Blocks
  PROVE  /\ \A l \in Holders(b) : cnt[b] >= 1
         /\ cnt[b] = 0 => Holders(b) = {} /\ lost[b] = 0
         /\ \A l \in Holders(b) : cnt[b] = 1 => Holders(b) = {l} /\ lost[b] = 0
<1>1. IsFiniteSet(Holders(b)) /\ Cardinality(Holders(b)) \in Nat
  BY HoldersFinite
<1>2. cnt[b] = Cardinality(Holders(b)) + lost[b] /\ lost[b] \in Nat
  BY DEF CountExact
<1>3. Holders(b) # {} => Cardinality(Holders(b)) > 0
  BY <1>1, FS_EmptySet
<1>4. Cardinality(Holders(b)) = 1 => \E x : Holders(b) = {x}
  BY <1>1, FS_Singleton
<1>5. cnt[b] = 0 => Holders(b) = {} /\ lost[b] = 0
  BY <1>1, <1>2, <1>3
<1>6. ASSUME NEW l \in Holders(b)
      PROVE  cnt[b] >= 1 /\ (cnt[b] = 1 => Holders(b) = {l} /\ lost[b] = 0)
  <2>1. Cardinality(Holders(b)) >= 1
    BY <1>1, <1>3
  <2>2. cnt[b] >= 1 /\ (cnt[b] = 1 => Cardinality(Holders(b)) = 1 /\ lost[b] = 0)
    BY <1>1, <1>2, <2>1
  <2> QED BY <1>4, <2>2
<1> QED BY <1>5, <1>6

-------------------------------------------------------------------------------
(* Blocks that stay.                                                       *)

(* Every set of blocks is entered where it was, when nothing else than     *)
(* what was to be dropped is dropped and what is written over is lost.     *)
LEMMA AnchorsKept ==
  ASSUME lost \in [Blocks -> Nat], lost' \in [Blocks -> Nat],
         \A b \in Blocks : lost[b] > 0 => lost'[b] > 0,
         Scheduled' \subseteq Scheduled,
         \A h \in Locs \ Scheduled : mem[h] \in Blocks => mem'[h] = mem[h] \/ lost'[mem[h]] > 0
  PROVE  \A b \in Blocks : Anchored(b) => Anchored(b)'
<1>1. ASSUME NEW U \in SUBSET Blocks, Entered(U)
      PROVE  Entered(U)'
  <2>1. PICK b \in U : lost[b] > 0 \/ \E h \in Locs \ Scheduled :
                                        mem[h] = b /\ (h \in Slots \/ h[1] \notin U)
    BY <1>1 DEF Entered
  <2>2. b \in Blocks
    OBVIOUS
  <2>3. CASE lost'[b] > 0
    BY <2>3 DEF Entered
  <2>4. CASE ~(lost'[b] > 0)
    <3>1. PICK h \in Locs \ Scheduled : mem[h] = b /\ (h \in Slots \/ h[1] \notin U)
      BY <2>1, <2>2, <2>4
    <3>2. mem'[h] = b /\ h \in Locs \ Scheduled'
      BY <2>2, <2>4, <3>1
    <3> QED BY <3>1, <3>2 DEF Entered
  <2> QED BY <2>3, <2>4
<1> QED BY <1>1 DEF Anchored

(* A block that a secure location holds stays.                             *)
LEMMA AnchoredFrom ==
  ASSUME NEW l \in Locs \ Scheduled, mem[l] \in Blocks, l \in Slots \/ Anchored(l[1]),
         l \notin Slots => l[1] \in Blocks
  PROVE  Anchored(mem[l])
<1> SUFFICES ASSUME NEW U \in SUBSET Blocks, mem[l] \in U
             PROVE  Entered(U)
  BY DEF Anchored
<1>1. CASE l \in Slots \/ l[1] \notin U
  BY <1>1 DEF Entered
<1>2. CASE l \notin Slots /\ l[1] \in U
  BY <1>2 DEF Anchored
<1> QED BY <1>1, <1>2

(* A block that stays is held by what is not to be dropped.                *)
LEMMA AnchoredHeld ==
  ASSUME NEW b \in Blocks, Anchored(b)
  PROVE  lost[b] > 0 \/ \E h \in Locs \ Scheduled : mem[h] = b
<1>1. {b} \in SUBSET Blocks /\ b \in {b}
  OBVIOUS
<1>2. Entered({b})
  BY <1>1 DEF Anchored
<1> QED BY <1>2 DEF Entered

LEMMA LeavingScheduled == Leaving \subseteq Scheduled
BY DEF Leaving, Scheduled, Drops

LEMMA AnchoredCounts ==
  ASSUME CountExact, cnt \in [Blocks -> Nat], lost \in [Blocks -> Nat],
         NEW b \in Blocks, Anchored(b)
  PROVE  /\ cnt[b] > 0
         /\ \A l \in Holders(b) : cnt[b] = 1 => l \notin Scheduled
<1>1. lost[b] > 0 \/ \E h \in Holders(b) : h \notin Scheduled
  BY AnchoredHeld, LeavingScheduled DEF Holders
<1>2. cnt[b] = 0 => Holders(b) = {} /\ lost[b] = 0
  BY HeldCounts
<1>3. cnt[b] > 0
  BY <1>1, <1>2
<1>4. ASSUME NEW l \in Holders(b), cnt[b] = 1
      PROVE  l \notin Scheduled
  <2>1. Holders(b) = {l} /\ lost[b] = 0
    BY <1>4, HeldCounts
  <2> QED BY <1>1, <2>1
<1> QED BY <1>3, <1>4

-------------------------------------------------------------------------------
(* What a step does to the memory.                                         *)

(* Blocks that stay keep their kind.                                       *)
Stay == \A b \in Blocks : Anchored(b) => Anchored(b)' /\ kind'[b] = kind[b]

LEMMA SecureKept ==
  ASSUME Stay, NEW l \in Locs, Secure(l)
  PROVE  Secure(l)'
<1>1. l \in Slots \/ l[1] \in Blocks
  BY LocIsElem
<1> QED BY <1>1 DEF Secure, Stay

(* What a step that writes leaves behind.                                  *)
Written ==
  /\ mem' \in [Locs -> Value]
  /\ kind' \in [Blocks -> {"free", "counted", "owned"}]
  /\ cnt' \in [Blocks -> Nat]
  /\ lost' \in [Blocks -> Nat]
  /\ RefsInSlots'
  /\ CountExact'
  /\ KindFits'
  /\ Stay

LEMMA PutStep ==
  ASSUME HeapInv, Leaving = {}, Leaving' = {}, Scheduled' \subseteq Scheduled,
         NEW l \in Locs, l \in Slots \/ kind[l[1]] = "counted", NEW v \in Value, Put(l, v),
         v \in Blocks \cup {Void} \/ l \in RefSlots,
         IsCounted(v) \/ v \notin Blocks,
         kind' = kind,
         cnt' = IF v \in Blocks THEN [cnt EXCEPT ![v] = @ + 1] ELSE cnt
  PROVE  Written
<1> USE DEF HeapInv, TypeOK
<1>1. /\ lost' \in [Blocks -> Nat]
      /\ \A b \in Blocks : /\ lost'[b] >= lost[b]
                           /\ mem[l] = b => lost'[b] > 0
                           /\ Cardinality(Holders(b)') + lost'[b]
                              = Cardinality(Holders(b)) + lost[b] + (IF v = b THEN 1 ELSE 0)
  BY WriteCounts DEF Put
<1>2. mem' \in [Locs -> Value] /\ \A x \in Locs : mem'[x] = IF x = l THEN v ELSE mem[x]
  BY DEF Put
<1>3. cnt' \in [Blocks -> Nat] /\ \A b \in Blocks : cnt'[b] = cnt[b] + (IF v = b THEN 1 ELSE 0)
  <2>1. CASE v \in Blocks
    BY <2>1
  <2>2. CASE v \notin Blocks
    BY <2>2
  <2> QED BY <2>1, <2>2
<1>4. RefsInSlots'
  BY <1>2 DEF RefsInSlots
<1>5. CountExact'
  <2> SUFFICES ASSUME NEW b \in Blocks
               PROVE  cnt'[b] = Cardinality(Holders(b)') + lost'[b]
    BY DEF CountExact
  <2>1. cnt[b] = Cardinality(Holders(b)) + lost[b]
    BY DEF CountExact
  <2>2. Cardinality(Holders(b)) \in Nat /\ lost[b] \in Nat /\ lost'[b] \in Nat
    BY <1>1, HoldersFinite
  <2> QED BY <1>1, <1>3, <2>1, <2>2
<1>6. KindFits'
  <2> SUFFICES ASSUME NEW b \in Blocks
               PROVE  /\ kind[b] = "free" => cnt'[b] = 0
                      /\ kind[b] = "owned" => cnt'[b] = 1
                      /\ kind[b] = "counted" => cnt'[b] > 0
                      /\ kind[b] # "counted" => \A k \in 1 .. N : mem'[<<b, k>>] = Void
    BY DEF KindFits
  <2>1. /\ kind[b] = "free" => cnt[b] = 0
        /\ kind[b] = "owned" => cnt[b] = 1
        /\ kind[b] = "counted" => cnt[b] > 0
        /\ kind[b] # "counted" => \A k \in 1 .. N : mem[<<b, k>>] = Void
    BY DEF KindFits
  <2>2. v = b => kind[b] = "counted"
    BY DEF IsCounted
  <2>3. kind[b] # "counted" => \A k \in 1 .. N : mem'[<<b, k>>] = Void
    BY <1>2, <2>1, ElemLoc
  <2>4. cnt[b] \in Nat
    OBVIOUS
  <2> QED BY <1>3, <2>1, <2>2, <2>3, <2>4
<1>7. \A b \in Blocks : Anchored(b) => Anchored(b)'
  <2>1. \A b \in Blocks : lost[b] > 0 => lost'[b] > 0
    <3> SUFFICES ASSUME NEW b \in Blocks PROVE lost[b] > 0 => lost'[b] > 0
      OBVIOUS
    <3>1. lost[b] \in Nat /\ lost'[b] \in Nat /\ lost'[b] >= lost[b]
      BY <1>1
    <3> QED BY <3>1
  <2>2. \A h \in Locs \ Scheduled : mem[h] \in Blocks => mem'[h] = mem[h] \/ lost'[mem[h]] > 0
    BY <1>1, <1>2
  <2> QED BY <1>1, <2>1, <2>2, AnchorsKept
<1>8. Stay
  BY <1>7 DEF Stay
<1> QED BY <1>1, <1>2, <1>3, <1>4, <1>5, <1>6, <1>8 DEF Written

LEMMA AllocStep ==
  ASSUME HeapInv, Leaving = {}, Leaving' = {}, Scheduled' \subseteq Scheduled,
         NEW l \in Locs, l \in Slots \/ kind[l[1]] = "counted",
         NEW b \in Blocks, NEW k \in {"counted", "owned"}, Alloc(b, k, l)
  PROVE  Written /\ mem' = [mem EXCEPT ![l] = b] /\ kind'[b] = k /\ kind[b] = "free"
<1> USE DEF HeapInv, TypeOK
<1>1. /\ kind[b] = "free" /\ cnt[b] = 0
      /\ \A e \in {b} \X (1 .. N) : e \in Locs /\ mem[e] = Void
      /\ l \notin {b} \X (1 .. N)
  <2>1. kind[b] = "free"
    BY DEF Alloc, Free
  <2>2. cnt[b] = 0 /\ \A i \in 1 .. N : mem[<<b, i>>] = Void
    BY <2>1 DEF KindFits
  <2>3. \A e \in {b} \X (1 .. N) : e \in Locs /\ e \notin Slots /\ e[1] = b /\ mem[e] = Void
    BY <2>2, ElemLoc
  <2> QED BY <2>1, <2>2, <2>3
<1>2. mem' = [mem EXCEPT ![l] = b]
  <2>1. mem' = [x \in Locs |-> IF x = l THEN b ELSE IF x \in {b} \X (1 .. N) THEN Void ELSE mem[x]]
    BY DEF Alloc
  <2>2. \A x \in Locs : mem'[x] = IF x = l THEN b ELSE mem[x]
    BY <1>1, <2>1
  <2> QED BY <2>1, <2>2
<1>3. mem' \in [Locs -> Value] /\ \A x \in Locs : mem'[x] = IF x = l THEN b ELSE mem[x]
  BY <1>2, MakesValue
<1>4. /\ lost' \in [Blocks -> Nat]
      /\ \A c \in Blocks : /\ lost'[c] >= lost[c]
                           /\ mem[l] = c => lost'[c] > 0
                           /\ Cardinality(Holders(c)') + lost'[c]
                              = Cardinality(Holders(c)) + lost[c] + (IF b = c THEN 1 ELSE 0)
  <2>1. lost' = Lost({l})
    BY DEF Alloc
  <2> QED BY <1>2, <2>1, WriteCounts
<1>5. /\ cnt' \in [Blocks -> Nat] /\ \A c \in Blocks : cnt'[c] = IF c = b THEN 1 ELSE cnt[c]
      /\ kind' \in [Blocks -> {"free", "counted", "owned"}]
      /\ \A c \in Blocks : kind'[c] = IF c = b THEN k ELSE kind[c]
  BY DEF Alloc
<1>6. RefsInSlots'
  BY <1>3 DEF RefsInSlots
<1>7. CountExact'
  <2> SUFFICES ASSUME NEW c \in Blocks
               PROVE  cnt'[c] = Cardinality(Holders(c)') + lost'[c]
    BY DEF CountExact
  <2>1. cnt[c] = Cardinality(Holders(c)) + lost[c]
    BY DEF CountExact
  <2>2. Cardinality(Holders(c)) \in Nat /\ lost[c] \in Nat /\ lost'[c] \in Nat
    BY <1>4, HoldersFinite
  <2>3. cnt'[c] = cnt[c] + (IF b = c THEN 1 ELSE 0)
    BY <1>1, <1>5
  <2> QED BY <1>4, <2>1, <2>2, <2>3
<1>8. KindFits'
  <2> SUFFICES ASSUME NEW c \in Blocks
               PROVE  /\ kind'[c] = "free" => cnt'[c] = 0
                      /\ kind'[c] = "owned" => cnt'[c] = 1
                      /\ kind'[c] = "counted" => cnt'[c] > 0
                      /\ kind'[c] # "counted" => \A i \in 1 .. N : mem'[<<c, i>>] = Void
    BY DEF KindFits
  <2>1. /\ kind[c] = "free" => cnt[c] = 0
        /\ kind[c] = "owned" => cnt[c] = 1
        /\ kind[c] = "counted" => cnt[c] > 0
        /\ kind[c] # "counted" => \A i \in 1 .. N : mem[<<c, i>>] = Void
    BY DEF KindFits
  <2>2. kind'[c] # "counted" => \A i \in 1 .. N : mem'[<<c, i>>] = Void
    BY <1>1, <1>3, <1>5, <2>1, ElemLoc
  <2> QED BY <1>5, <2>1, <2>2
<1>9. \A c \in Blocks : Anchored(c) => Anchored(c)'
  <2>1. \A c \in Blocks : lost[c] > 0 => lost'[c] > 0
    <3> SUFFICES ASSUME NEW c \in Blocks PROVE lost[c] > 0 => lost'[c] > 0
      OBVIOUS
    <3>1. lost[c] \in Nat /\ lost'[c] \in Nat /\ lost'[c] >= lost[c]
      BY <1>4
    <3> QED BY <3>1
  <2>2. \A h \in Locs \ Scheduled : mem[h] \in Blocks => mem'[h] = mem[h] \/ lost'[mem[h]] > 0
    BY <1>3, <1>4
  <2> QED BY <1>4, <2>1, <2>2, AnchorsKept
<1>10. Stay
  <2>1. ~Anchored(b)
    BY <1>1, AnchoredCounts
  <2> QED BY <1>5, <1>9, <2>1 DEF Stay
<1> QED BY <1>1, <1>2, <1>3, <1>4, <1>5, <1>6, <1>7, <1>8, <1>10 DEF Written

-------------------------------------------------------------------------------
(* The tasks that are left.                                                *)

LEMMA Predecessor ==
  \A m, n \in Nat : m + 1 = n => m = n - 1
OBVIOUS

LEMMA TailSets ==
  ASSUME todo \in Seq(Task), todo # <<>>, todo' = Tail(todo), DropsOnce
  PROVE  /\ Scheduled' \subseteq Scheduled /\ Leaving' \subseteq Leaving
         /\ DropsOnce'
         /\ Drops(1) => todo[1].to \in Scheduled
         /\ todo[1].do = "drop" => todo[1].to \notin Leaving
         /\ todo[1].do # "release" => Leaving' = Leaving
         /\ todo[1].do = "release" => todo[1].to \in Leaving /\ Leaving' = Leaving \ {todo[1].to}
<1>1. /\ Len(todo) \in Nat \ {0} /\ DOMAIN todo' = 1 .. Len(todo) - 1
      /\ \A i \in 1 .. Len(todo) - 1 : todo'[i] = todo[i + 1] /\ i + 1 \in 1 .. Len(todo)
      /\ DOMAIN todo = 1 .. Len(todo)
  BY TailTasks, Tasks
<1>2. \A i \in 2 .. Len(todo) : todo'[i - 1] = todo[i] /\ i - 1 \in 1 .. Len(todo) - 1
  <2> SUFFICES ASSUME NEW i \in 2 .. Len(todo)
               PROVE  todo'[i - 1] = todo[i] /\ i - 1 \in 1 .. Len(todo) - 1
    OBVIOUS
  <2>1. i - 1 \in 1 .. Len(todo) - 1 /\ (i - 1) + 1 = i
    BY <1>1
  <2> QED BY <1>1, <2>1
<1>3. \A i, j \in 1 .. Len(todo) : Drops(i) /\ Drops(j) /\ todo[i].to = todo[j].to => i = j
  BY <1>1 DEF DropsOnce
<1>4. DropsOnce'
  <2> SUFFICES ASSUME NEW i \in 1 .. Len(todo) - 1, NEW j \in 1 .. Len(todo) - 1,
                      Drops(i)', Drops(j)', todo'[i].to = todo'[j].to
               PROVE  i = j
    BY <1>1 DEF DropsOnce
  <2>1. Drops(i + 1) /\ Drops(j + 1) /\ todo[i + 1].to = todo[j + 1].to
    BY <1>1 DEF Drops
  <2>2. i + 1 = j + 1
    BY <1>1, <1>3, <2>1
  <2> QED BY <2>2
<1>5. Scheduled' \subseteq Scheduled
  BY <1>1 DEF Scheduled, Drops
<1>6. Leaving' \subseteq Leaving
  BY <1>1 DEF Leaving
<1>7. 1 \in DOMAIN todo
  BY <1>1
<1>8. Drops(1) => todo[1].to \in Scheduled
  BY <1>7 DEF Scheduled
<1>9. todo[1].do = "drop" => todo[1].to \notin Leaving
  <2> SUFFICES ASSUME NEW j \in 1 .. Len(todo), todo[1].do = "drop", todo[j].do = "release",
                      todo[1].to = todo[j].to
               PROVE  FALSE
    BY <1>1 DEF Leaving
  <2>1. j = 1
    BY <1>1, <1>3, <1>7 DEF Drops
  <2> QED BY <2>1
<1>10. \A j \in 2 .. Len(todo) : todo[j].do = "release" => todo[j].to \in Leaving'
  BY <1>1, <1>2 DEF Leaving
<1>11. todo[1].do # "release" => Leaving' = Leaving
  <2> SUFFICES ASSUME NEW j \in 1 .. Len(todo), todo[1].do # "release", todo[j].do = "release"
               PROVE  todo[j].to \in Leaving'
    BY <1>1, <1>6 DEF Leaving
  <2>1. j \in 2 .. Len(todo)
    BY <1>1
  <2> QED BY <1>10, <2>1
<1>12. todo[1].do = "release" => todo[1].to \in Leaving /\ Leaving' = Leaving \ {todo[1].to}
  <2> SUFFICES ASSUME todo[1].do = "release"
               PROVE  todo[1].to \in Leaving /\ Leaving' = Leaving \ {todo[1].to}
    OBVIOUS
  <2>1. todo[1].to \in Leaving
    BY <1>7 DEF Leaving
  <2>2. ASSUME NEW i \in 1 .. Len(todo) - 1, todo'[i].do = "release"
        PROVE  todo'[i].to # todo[1].to
    <3>1. todo[i + 1].do = "release" /\ i + 1 # 1 /\ i + 1 \in 1 .. Len(todo)
      BY <1>1, <2>2
    <3>2. Drops(i + 1) /\ Drops(1)
      BY <3>1 DEF Drops
    <3> QED BY <1>1, <1>3, <1>7, <3>1, <3>2
  <2>3. todo[1].to \notin Leaving'
    BY <1>1, <2>2 DEF Leaving
  <2>4. ASSUME NEW j \in 1 .. Len(todo), todo[j].do = "release", todo[j].to # todo[1].to
        PROVE  todo[j].to \in Leaving'
    <3>1. j \in 2 .. Len(todo)
      BY <1>1, <2>4
    <3> QED BY <1>10, <2>4, <3>1
  <2>5. Leaving \ {todo[1].to} \subseteq Leaving'
    BY <1>1, <2>4 DEF Leaving
  <2> QED BY <1>6, <2>1, <2>3, <2>5
<1> QED BY <1>4, <1>5, <1>6, <1>8, <1>9, <1>11, <1>12

(* A release comes after drops and releases only.                          *)
LEMMA NoRelease ==
  ASSUME todo \in Seq(Task), TasksFit, todo = <<>> \/ ~Drops(1)
  PROVE  Leaving = {} /\ \A i \in DOMAIN todo : todo[i].do # "release"
<1>1. DOMAIN todo = 1 .. Len(todo) /\ Len(todo) \in Nat /\ (todo = <<>> <=> Len(todo) = 0)
  BY Tasks
<1>2. ASSUME NEW i \in DOMAIN todo, todo[i].do = "release"
      PROVE  FALSE
  <2>1. \A j \in 1 .. i - 1 : Drops(j)
    BY <1>2 DEF TasksFit
  <2>2. i # 1
    BY <1>1, <1>2 DEF Drops
  <2>3. 1 \in 1 .. i - 1
    BY <1>1, <2>2
  <2> QED BY <1>1, <2>1, <2>3
<1> QED BY <1>2 DEF Leaving

(* The tasks that are left fit when what they rely on is left as it was.   *)
LEMMA TailFits ==
  ASSUME HeapInv, todo # <<>>, todo' = Tail(todo), Stay,
         depth' = depth, pending' = pending,
         \A l \in Locs : mem[l] \in Blocks \cup {Void} => mem'[l] \in Blocks \cup {Void},
         \A l \in Leaving' : /\ mem'[l] = mem[l] /\ kind'[mem[l]] = kind[mem[l]]
                             /\ cnt'[mem[l]] = cnt[mem[l]],
         \A l \in Leaving', k \in 1 .. N :
           mem[<<mem[l], k>>] = Void \/ (Drops(1) /\ todo[1].to = <<mem[l], k>>)
             => mem'[<<mem[l], k>>] = Void
  PROVE  TasksFit'
<1> USE DEF HeapInv, TypeOK
<1>1. /\ Len(todo) \in Nat \ {0} /\ DOMAIN todo' = 1 .. Len(todo) - 1
      /\ Len(todo') = Len(todo) - 1
      /\ \A i \in 1 .. Len(todo) - 1 : todo'[i] = todo[i + 1] /\ i + 1 \in 1 .. Len(todo)
      /\ DOMAIN todo = 1 .. Len(todo) /\ \A i \in 1 .. Len(todo) : todo[i] \in Task
  BY TailTasks, Tasks
<1>2. ASSUME NEW i \in 2 .. Len(todo)
      PROVE  todo'[i - 1] = todo[i] /\ i - 1 \in 1 .. Len(todo) - 1 /\ (Drops(i) <=> Drops(i - 1)')
  <2>1. i - 1 \in 1 .. Len(todo) - 1 /\ (i - 1) + 1 = i
    BY <1>1
  <2> QED BY <1>1, <2>1 DEF Drops
<1>3. ASSUME NEW i \in 1 .. Len(todo) - 1
      PROVE  Drops(i)' <=> Drops(i + 1)
  BY <1>1 DEF Drops
<1>4. ASSUME NEW i \in 1 .. Len(todo) - 1, todo'[i].do = "release"
      PROVE  todo'[i].to \in Leaving'
  BY <1>1, <1>4 DEF Leaving
<1>5. ASSUME NEW i \in 1 .. Len(todo) - 1, Drops(i)'
      PROVE  DropFits(i)'
  <2>1. Drops(i + 1) /\ DropFits(i + 1) /\ todo[i + 1].to \in Locs
    BY <1>1, <1>3, <1>5, TaskCases DEF TasksFit, Drops
  <2> PICK l \in Locs : l = todo[i + 1].to
    BY <2>1
  <2>2. CASE Secure(l)
    <3>1. Secure(l)'
      BY <2>2, SecureKept
    <3>2. todo'[i].to = l
      BY <1>1
    <3> QED BY <3>1, <3>2 DEF DropFits, Secure, Anchored
  <2>3. ASSUME NEW j \in i + 2 .. Len(todo), todo[j].do = "release",
               mem[todo[j].to] = todo[i + 1].to[1]
        PROVE  DropFits(i)'
    <3>1. j \in 2 .. Len(todo) /\ j - 1 \in i + 1 .. Len(todo')
      BY <1>1
    <3>2. todo'[j - 1] = todo[j] /\ j - 1 \in 1 .. Len(todo) - 1
      BY <1>2, <3>1
    <3>3. mem'[todo'[j - 1].to] = todo'[i].to[1]
      BY <1>1, <1>4, <2>3, <3>2
    <3> QED BY <2>3, <3>1, <3>2, <3>3 DEF DropFits
  <2>4. Secure(l) \/ \E j \in i + 2 .. Len(todo) : /\ todo[j].do = "release"
                                                  /\ mem[todo[j].to] = todo[i + 1].to[1]
    <3>1. (i + 1) + 1 = i + 2
      BY <1>1
    <3> QED BY <2>1, <3>1 DEF DropFits
  <2> QED BY <2>2, <2>3, <2>4
<1>6. ASSUME NEW i \in 1 .. Len(todo) - 1, todo'[i].do = "release"
      PROVE  /\ ReleaseFits(i)'
             /\ \A j \in 1 .. i - 1 : Drops(j)'
             /\ \A j \in 1 .. i - 1 : todo'[j].do = "release" => mem'[todo'[j].to] # mem'[todo'[i].to]
  <2> PICK l, b : l = todo[i + 1].to /\ b = mem[l]
    OBVIOUS
  <2>1. todo[i + 1].do = "release" /\ ReleaseFits(i + 1) /\ i + 1 \in 1 .. Len(todo)
    BY <1>1, <1>6 DEF TasksFit
  <2>2. /\ \A j \in 1 .. i : Drops(j)
        /\ \A j \in 1 .. i : todo[j].do = "release" => mem[todo[j].to] # b
    <3>1. (i + 1) - 1 = i /\ i + 1 \in DOMAIN todo
      BY <1>1, <2>1
    <3> QED BY <2>1, <3>1 DEF TasksFit
  <2>3. todo'[i].to = l /\ l \in Leaving' /\ mem'[l] = b
    BY <1>1, <1>4, <1>6
  <2>4. IsCounted(b)' /\ cnt'[b] = 0
    BY <2>1, <2>3 DEF ReleaseFits, IsCounted
  <2>5. ASSUME NEW k \in 1 .. N
        PROVE  mem'[<<b, k>>] = Void \/ \E j \in 1 .. i - 1 : Drops(j)' /\ todo'[j].to = <<b, k>>
    <3>1. CASE mem[<<b, k>>] = Void
      BY <2>3, <3>1
    <3>2. ASSUME NEW j \in 1 .. i, Drops(j), todo[j].to = <<b, k>>
          PROVE  mem'[<<b, k>>] = Void \/ \E m \in 1 .. i - 1 : Drops(m)' /\ todo'[m].to = <<b, k>>
      <4>1. CASE j = 1
        BY <2>3, <3>2, <4>1
      <4>2. CASE j # 1
        <5>1. j \in 2 .. Len(todo) /\ j - 1 \in 1 .. i - 1
          BY <1>1, <4>2
        <5> QED BY <1>2, <3>2, <5>1
      <4> QED BY <4>1, <4>2
    <3>3. mem[<<b, k>>] = Void \/ \E j \in 1 .. i : Drops(j) /\ todo[j].to = <<b, k>>
      <4>1. (i + 1) - 1 = i
        BY <1>1
      <4> QED BY <2>1, <4>1 DEF ReleaseFits
    <3> QED BY <3>1, <3>2, <3>3
  <2>6. ReleaseFits(i)'
    <3>1. mem'[todo'[i].to] = b
      BY <2>3
    <3>2. IsCounted(mem[todo[i].to])' /\ cnt'[mem'[todo'[i].to]] = 0
      BY <2>4, <3>1 DEF IsCounted
    <3>3. \A k \in 1 .. N : \/ mem'[<<mem'[todo'[i].to], k>>] = Void
                            \/ \E j \in 1 .. i - 1 : Drops(j)' /\ todo'[j].to = <<mem'[todo'[i].to], k>>
      BY <2>5, <3>1
    <3> QED BY <3>2, <3>3 DEF ReleaseFits
  <2>7. ASSUME NEW j \in 1 .. i - 1
        PROVE  Drops(j)' /\ (todo'[j].do = "release" => mem'[todo'[j].to] # mem'[todo'[i].to])
    <3>1. j \in 1 .. Len(todo) - 1 /\ j + 1 \in 1 .. i /\ todo'[j] = todo[j + 1]
      BY <1>1
    <3>2. Drops(j)'
      BY <1>3, <2>2, <3>1
    <3>3. todo'[j].do = "release" => mem'[todo'[j].to] = mem[todo'[j].to]
      BY <1>4, <3>1
    <3> QED BY <2>2, <2>3, <3>1, <3>2, <3>3
  <2> QED BY <2>6, <2>7
<1>7. ASSUME NEW i \in 1 .. Len(todo) - 1
      PROVE  /\ todo'[i].do \in {"copy", "make"} => Secure(todo[i].to)'
             /\ todo'[i].do = "copy" => Secure(todo[i].from)' /\ mem'[todo'[i].from] \in Blocks \cup {Void}
             /\ todo'[i].do = "make" => Scheduled' = {}
             /\ todo'[i].do = "leave" => i = Len(todo) - 1 /\ depth' > 0 /\ pending' = None
  <2> PICK t : t = todo[i + 1]
    OBVIOUS
  <2>1. todo'[i] = t /\ t \in Task /\ i + 1 \in DOMAIN todo
    BY <1>1
  <2>2. /\ t.do \in {"copy", "make"} => Secure(t.to)
        /\ t.do = "copy" => Secure(t.from) /\ mem[t.from] \in Blocks \cup {Void}
        /\ t.do = "make" => Scheduled = {}
        /\ t.do = "leave" => i + 1 = Len(todo) /\ depth > 0 /\ pending = None
    BY <2>1 DEF TasksFit
  <2>3. /\ t.do \in {"copy", "make"} => t.to \in Locs
        /\ t.do = "copy" => t.from \in Locs
    BY <2>1, TaskCases
  <2>4. t.do \in {"copy", "make"} => Secure(t.to)'
    BY <2>2, <2>3, SecureKept
  <2>5. t.do = "copy" => Secure(t.from)'
    BY <2>2, <2>3, SecureKept
  <2>6. t.do = "copy" => mem'[t.from] \in Blocks \cup {Void}
    BY <2>2, <2>3
  <2>7. todo'[i].do \in {"copy", "make"} => Secure(todo[i].to)'
    BY <2>1, <2>4 DEF Secure, Anchored
  <2>8. todo'[i].do = "copy" => Secure(todo[i].from)'
    BY <2>1, <2>5 DEF Secure, Anchored
  <2>9. t.do = "leave" => i = Len(todo) - 1 /\ depth' > 0 /\ pending' = None
    <3>1. i + 1 = Len(todo) => i = Len(todo) - 1
      <4>1. i \in Nat /\ Len(todo) \in Nat
        BY <1>1
      <4> QED BY <4>1, Predecessor
    <3>2. depth > 0 => depth' > 0
      OBVIOUS
    <3>3. pending = None => pending' = None
      OBVIOUS
    <3> QED BY <2>2, <3>1, <3>2, <3>3
  <2>10. todo'[i].do = "copy" => mem'[todo'[i].from] \in Blocks \cup {Void}
    BY <2>1, <2>6
  <2>11. todo'[i].do = "leave" => i = Len(todo) - 1 /\ depth' > 0 /\ pending' = None
    BY <2>1, <2>9
  <2>12. todo'[i].do = "make" => Scheduled' = {}
    <3>1. Scheduled' \subseteq Scheduled
      BY TailSets
    <3> QED BY <2>1, <2>2, <3>1
  <2> HIDE DEF HeapInv, TypeOK
  <2> QED BY <2>7, <2>8, <2>10, <2>11, <2>12
<1> QED BY <1>1, <1>5, <1>6, <1>7 DEF TasksFit

LEMMA RefsKept ==
  ASSUME RefsAnchored, Stay, pending' = pending, mem \in [Locs -> Value], mem' \in [Locs -> Value],
         pending \in RefSlots \cup {None},
         \A l \in Locs : mem'[l] = mem[l] \/ mem'[l] \in Blocks \cup {Void}
  PROVE  RefsAnchored'
<1> SUFFICES ASSUME pending # None
             PROVE  /\ IsRef(mem'[pending]) => Secure(mem[pending].ref)'
                    /\ IsStr(mem'[pending]) => /\ Anchored(mem[pending].str)'
                                               /\ kind'[mem'[pending].str] = "owned"
  BY DEF RefsAnchored, IsRef, IsStr
<1> PICK p : p = pending
  OBVIOUS
<1> PICK v : v = mem'[p]
  OBVIOUS
<1>1. p \in Locs
  BY RefSlot
<1>2. CASE v \in Blocks \cup {Void}
  BY <1>1, <1>2, ValueCases
<1>3. CASE v = mem[p]
  <2>1. v \in Value
    BY <1>1, <1>3
  <2>2. ASSUME IsRef(v)
        PROVE  Secure(mem[pending].ref)'
    <3> PICK l : l = v.ref
      OBVIOUS
    <3>1. Secure(l) /\ l \in Locs
      BY <1>3, <2>1, <2>2, ValueCases DEF RefsAnchored
    <3>2. Secure(l)'
      BY <3>1, SecureKept
    <3> QED BY <3>2 DEF Secure, Anchored
  <2>3. ASSUME IsStr(v)
        PROVE  Anchored(mem[pending].str)' /\ kind'[mem'[pending].str] = "owned"
    <3> PICK b : b = v.str
      OBVIOUS
    <3>1. Anchored(b) /\ kind[b] = "owned" /\ b \in Blocks
      BY <1>3, <2>1, <2>3, ValueCases DEF RefsAnchored
    <3>2. Anchored(b)' /\ kind'[b] = "owned"
      BY <3>1 DEF Stay
    <3> QED BY <3>2 DEF Anchored
  <2> QED BY <2>2, <2>3
<1> QED BY <1>1, <1>2, <1>3

-------------------------------------------------------------------------------
(* Dropping.                                                               *)

LEMMA LeavingFits ==
  ASSUME HeapInv
  PROVE  /\ \A l \in Leaving : l \in Locs /\ IsCounted(mem[l]) /\ cnt[mem[l]] = 0
         /\ \A l, m \in Leaving : mem[l] = mem[m] => l = m
<1> USE DEF HeapInv, TypeOK
<1>1. DOMAIN todo = 1 .. Len(todo) /\ Len(todo) \in Nat /\ \A i \in 1 .. Len(todo) : todo[i] \in Task
  BY Tasks
<1>2. ASSUME NEW i \in 1 .. Len(todo), todo[i].do = "release"
      PROVE  /\ todo[i].to \in Locs /\ IsCounted(mem[todo[i].to]) /\ cnt[mem[todo[i].to]] = 0
             /\ \A j \in 1 .. i - 1 : todo[j].do = "release" => mem[todo[j].to] # mem[todo[i].to]
  <2>1. todo[i].to \in Locs
    BY <1>1, <1>2, TaskCases
  <2>2. ReleaseFits(i) /\ \A j \in 1 .. i - 1 : todo[j].do = "release" => mem[todo[j].to] # mem[todo[i].to]
    BY <1>1, <1>2 DEF TasksFit
  <2> QED BY <2>1, <2>2 DEF ReleaseFits
<1>3. \A l \in Leaving : l \in Locs /\ IsCounted(mem[l]) /\ cnt[mem[l]] = 0
  BY <1>1, <1>2 DEF Leaving
<1>4. ASSUME NEW i \in 1 .. Len(todo), NEW j \in 1 .. Len(todo), todo[i].do = "release",
             todo[j].do = "release", mem[todo[i].to] = mem[todo[j].to]
      PROVE  i = j
  <2>1. CASE i < j
    <3>1. i \in 1 .. j - 1
      BY <2>1
    <3> QED BY <1>2, <1>4, <3>1
  <2>2. CASE j < i
    <3>1. j \in 1 .. i - 1
      BY <2>2
    <3> QED BY <1>2, <1>4, <3>1
  <2> QED BY <2>1, <2>2
<1>5. \A l, m \in Leaving : mem[l] = mem[m] => l = m
  BY <1>1, <1>4 DEF Leaving
<1> QED BY <1>3, <1>5

(* The first task is to drop what the location l holds, or to release it.  *)
Dropping(l) ==
  /\ todo # <<>> /\ Drops(1) /\ l = todo[1].to
  /\ todo' = Tail(todo) /\ mem' = [mem EXCEPT ![l] = Void]
  /\ lost' = lost /\ rets' = rets /\ pending' = pending

LEMMA DropStep ==
  ASSUME HeapInv, NEW l, Dropping(l)
  PROVE  /\ l \in Locs /\ l \in Scheduled
         /\ mem' \in [Locs -> Value] /\ \A x \in Locs : mem'[x] = IF x = l THEN Void ELSE mem[x]
         /\ todo' \in Seq(Task) /\ rets' \in Seq(NamesOf(Tmps)) /\ depth' = depth /\ depth' <= MaxDepth
         /\ RefsInSlots' /\ DropsOnce'
         /\ \A b \in Blocks : Holders(b)' = Holders(b) \ {l}
         /\ \A b \in Blocks : Anchored(b) => Anchored(b)'
         /\ Leaving' = Leaving \ {l}
         /\ todo[1].do = "drop" => l \notin Leaving /\ Leaving' = Leaving
<1> USE DEF HeapInv, TypeOK
<1>1. /\ todo[1] \in Task /\ todo[1].to \in Locs /\ 1 \in DOMAIN todo
      /\ todo[1].do \in {"drop", "release"}
  <2>1. 1 \in DOMAIN todo /\ todo[1] \in Task
    BY Tasks DEF Dropping
  <2>2. todo[1].do \in {"drop", "release"}
    BY DEF Dropping, Drops
  <2> QED BY <2>1, <2>2, TaskCases
<1>2. l \in Locs
  BY <1>1 DEF Dropping
<1>3. /\ Scheduled' \subseteq Scheduled /\ DropsOnce' /\ l \in Scheduled
      /\ todo[1].do = "drop" => l \notin Leaving
      /\ todo[1].do # "release" => Leaving' = Leaving
      /\ todo[1].do = "release" => l \in Leaving /\ Leaving' = Leaving \ {l}
  BY TailSets DEF Dropping
<1>4. Leaving' = Leaving \ {l}
  BY <1>1, <1>3
<1>5. mem' \in [Locs -> Value] /\ \A x \in Locs : mem'[x] = IF x = l THEN Void ELSE mem[x]
  BY <1>2, MakesValue DEF Dropping
<1>6. RefsInSlots'
  BY <1>5 DEF RefsInSlots
<1>7. ASSUME NEW b \in Blocks
      PROVE  Holders(b)' = Holders(b) \ {l}
  <2>1. b # Void
    BY HeapAssumption
  <2>2. Holders(b)' = {x \in Locs : mem'[x] = b} \ Leaving' /\ Holders(b) = {x \in Locs : mem[x] = b} \ Leaving
    BY DEF Holders
  <2>3. {x \in Locs : mem'[x] = b} = {x \in Locs : mem[x] = b} \ {l}
    BY <1>5, <2>1
  <2> QED BY <1>4, <2>2, <2>3
<1>8. \A b \in Blocks : Anchored(b) => Anchored(b)'
  <2>1. \A h \in Locs \ Scheduled : mem[h] \in Blocks => mem'[h] = mem[h] \/ lost'[mem[h]] > 0
    BY <1>3, <1>5
  <2>2. lost' = lost
    BY DEF Dropping
  <2> QED BY <1>3, <2>1, <2>2, AnchorsKept
<1>9. todo' \in Seq(Task)
  BY TailTasks DEF Dropping
<1>10. rets' \in Seq(NamesOf(Tmps)) /\ depth' = depth /\ depth' <= MaxDepth
  BY DEF Dropping, depth
<1> QED BY <1>2, <1>3, <1>4, <1>5, <1>6, <1>7, <1>8, <1>9, <1>10

LEMMA DropRest ==
  ASSUME HeapInv, NEW l, Dropping(l), Stay,
         \A m \in Leaving' : kind'[mem[m]] = kind[mem[m]] /\ cnt'[mem[m]] = cnt[mem[m]]
  PROVE  TasksFit' /\ RefsAnchored'
<1> USE DEF HeapInv, TypeOK
<1>1. /\ \A x \in Locs : mem'[x] = IF x = l THEN Void ELSE mem[x]
      /\ depth' = depth /\ Leaving' = Leaving \ {l} /\ mem' \in [Locs -> Value]
  BY DropStep
<1>2. \A m \in Leaving : m \in Locs /\ mem[m] \in Blocks
  BY LeavingFits DEF IsCounted
<1>3. \A m \in Locs : mem[m] \in Blocks \cup {Void} => mem'[m] \in Blocks \cup {Void}
  BY <1>1
<1>4. \A m \in Leaving' : mem'[m] = mem[m]
  BY <1>1, <1>2
<1>5. \A m \in Leaving', k \in 1 .. N :
        mem[<<mem[m], k>>] = Void \/ (Drops(1) /\ todo[1].to = <<mem[m], k>>)
          => mem'[<<mem[m], k>>] = Void
  BY <1>1, <1>2, ElemLoc DEF Dropping
<1>6. TasksFit'
  <2>1. todo # <<>> /\ todo' = Tail(todo) /\ pending' = pending
    BY DEF Dropping
  <2> HIDE DEF HeapInv, TypeOK
  <2> QED BY <1>1, <1>3, <1>4, <1>5, <2>1, TailFits
<1>7. RefsAnchored'
  <2>1. pending' = pending
    BY DEF Dropping
  <2>2. \A m \in Locs : mem'[m] = mem[m] \/ mem'[m] \in Blocks \cup {Void}
    BY <1>1
  <2> QED BY <1>1, <2>1, <2>2, RefsKept
<1> QED BY <1>6, <1>7

(* Everything that does not depend on how the counts have changed.         *)
LEMMA DropInv ==
  ASSUME HeapInv, NEW l, Dropping(l), Stay,
         kind' \in [Blocks -> {"free", "counted", "owned"}], cnt' \in [Blocks -> Nat],
         \A b \in Blocks : cnt'[b] = cnt[b] - (IF l \in Holders(b) THEN 1 ELSE 0),
         \A m \in Leaving' : kind'[mem[m]] = kind[mem[m]] /\ cnt'[mem[m]] = cnt[mem[m]],
         KindFits'
  PROVE  HeapInv'
<1>1. TypeOK'
  BY DropStep DEF HeapInv, TypeOK, Dropping
<1>2. CountExact'
  <2> SUFFICES ASSUME NEW b \in Blocks
               PROVE  cnt'[b] = Cardinality(Holders(b)') + lost'[b]
    BY DEF CountExact
  <2>1. cnt[b] = Cardinality(Holders(b)) + lost[b] /\ lost[b] \in Nat /\ lost'[b] = lost[b]
    BY DEF HeapInv, TypeOK, CountExact, Dropping
  <2>2. Holders(b)' = Holders(b) \ {l}
    BY DropStep
  <2>3. Cardinality(Holders(b)') = Cardinality(Holders(b)) - (IF l \in Holders(b) THEN 1 ELSE 0)
    BY <2>2, DropCounts
  <2>4. Cardinality(Holders(b)) \in Nat
    BY HoldersFinite
  <2> QED BY <2>1, <2>3, <2>4
<1>3. RefsInSlots' /\ DropsOnce'
  BY DropStep
<1>4. TasksFit' /\ RefsAnchored'
  BY DropRest
<1> QED BY <1>1, <1>2, <1>3, <1>4 DEF HeapInv

(* The head of the list, as the actions name it.                           *)
LEMMA RunningFirst ==
  ASSUME HeapInv, NEW do, Running(do)
  PROVE  /\ todo # <<>> /\ Head1 = todo[1] /\ todo[1].do = do /\ todo[1] \in Task
         /\ 1 \in DOMAIN todo /\ todo \in Seq(Task)
         /\ do \in {"drop", "release"} <=> Drops(1)
<1>1. todo # <<>> /\ Head1.do = do /\ todo \in Seq(Task)
  BY DEF Running, HeapInv, TypeOK
<1>2. Head1 = todo[1] /\ todo[1] \in Task /\ 1 \in DOMAIN todo
  BY <1>1, Tasks
<1> QED BY <1>1, <1>2 DEF Drops

LEMMA DropPlainInv == HeapInv /\ DropPlain => HeapInv'
<1> SUFFICES ASSUME HeapInv, DropPlain PROVE HeapInv'
  OBVIOUS
<1> PICK l : l = todo[1].to
  OBVIOUS
<1>1. /\ Dropping(l) /\ mem[l] \notin Blocks /\ kind' = kind /\ cnt' = cnt
      /\ todo[1].do = "drop"
  BY RunningFirst DEF DropPlain, Dropping
<1>2. Stay
  BY <1>1, DropStep DEF Stay
<1>3. ASSUME NEW b \in Blocks
      PROVE  cnt'[b] = cnt[b] - (IF l \in Holders(b) THEN 1 ELSE 0)
  <2>1. l \notin Holders(b)
    BY <1>1 DEF Holders
  <2>2. cnt[b] \in Nat
    BY DEF HeapInv, TypeOK
  <2> QED BY <1>1, <2>1, <2>2
<1>4. KindFits'
  <2>1. Leaving' = Leaving /\ \A x \in Locs : mem'[x] = IF x = l THEN Void ELSE mem[x]
    BY <1>1, DropStep
  <2>2. \A m \in Leaving : m \in Locs /\ mem[m] \in Blocks
    BY LeavingFits DEF IsCounted
  <2>3. \A m \in Leaving : mem'[m] = mem[m]
    BY <1>1, <2>1, <2>2
  <2> QED BY <1>1, <2>1, <2>3, ElemLoc DEF HeapInv, KindFits
<1> QED BY <1>1, <1>2, <1>3, <1>4, DropInv DEF HeapInv, TypeOK

LEMMA DropOwnedInv == HeapInv /\ DropOwned => HeapInv'
<1> SUFFICES ASSUME HeapInv, DropOwned PROVE HeapInv'
  OBVIOUS
<1> PICK l : l = todo[1].to
  OBVIOUS
<1> PICK b : b = mem[l]
  OBVIOUS
<1> USE DEF HeapInv, TypeOK
<1>1. /\ Dropping(l) /\ IsOwned(b) /\ kind' = [kind EXCEPT ![b] = "free"]
      /\ cnt' = [cnt EXCEPT ![b] = 0] /\ todo[1].do = "drop"
  BY RunningFirst DEF DropOwned, Dropping
<1>2. b \in Blocks /\ kind[b] = "owned" /\ cnt[b] = 1
  BY <1>1 DEF IsOwned, KindFits
<1>3. /\ l \in Holders(b) /\ Leaving' = Leaving /\ l \in Scheduled /\ l \notin Leaving /\ l \in Locs
      /\ \A x \in Locs : mem'[x] = IF x = l THEN Void ELSE mem[x]
  <2>1. /\ Leaving' = Leaving /\ l \in Scheduled /\ l \notin Leaving /\ l \in Locs
        /\ \A x \in Locs : mem'[x] = IF x = l THEN Void ELSE mem[x]
    BY <1>1, DropStep
  <2> QED BY <2>1 DEF Holders
<1>4. Stay
  <2>1. ~Anchored(b)
    BY <1>2, <1>3, AnchoredCounts
  <2> QED BY <1>1, <2>1, DropStep DEF Stay
<1>5. ASSUME NEW c \in Blocks
      PROVE  cnt'[c] = cnt[c] - (IF l \in Holders(c) THEN 1 ELSE 0)
  <2>1. l \in Holders(c) <=> c = b
    BY <1>3 DEF Holders
  <2> QED BY <1>1, <1>2, <2>1
<1>6. \A m \in Leaving : mem[m] # b /\ mem[m] \in Blocks /\ m \in Locs
  BY <1>2, LeavingFits DEF IsCounted
<1>7. KindFits'
  <2>1. \A m \in Leaving : mem'[m] = mem[m]
    BY <1>3, <1>6
  <2> SUFFICES ASSUME NEW c \in Blocks
               PROVE  /\ kind'[c] = "free" => cnt'[c] = 0
                      /\ kind'[c] = "owned" => cnt'[c] = 1
                      /\ kind'[c] = "counted" => cnt'[c] > 0 \/ \E m \in Leaving' : mem'[m] = c
                      /\ kind'[c] # "counted" => \A k \in 1 .. N : mem'[<<c, k>>] = Void
    BY DEF KindFits
  <2>2. kind[c] # "counted" => \A k \in 1 .. N : mem[<<c, k>>] = Void
    BY DEF KindFits
  <2>3. kind[c] # "counted" => \A k \in 1 .. N : mem'[<<c, k>>] = Void
    BY <1>3, <2>2, ElemLoc
  <2>4. /\ kind[c] = "free" => cnt[c] = 0
        /\ kind[c] = "owned" => cnt[c] = 1
        /\ kind[c] = "counted" => cnt[c] > 0 \/ \E m \in Leaving : mem[m] = c
    BY DEF KindFits
  <2>5. CASE c = b
    BY <1>1, <1>2, <2>3, <2>5
  <2>6. CASE c # b
    <3>1. cnt'[c] = cnt[c] /\ kind'[c] = kind[c]
      BY <1>1, <2>6
    <3>2. (\E m \in Leaving : mem[m] = c) => \E m \in Leaving' : mem'[m] = c
      BY <1>3, <2>1
    <3> QED BY <2>3, <2>4, <3>1, <3>2
  <2> QED BY <2>5, <2>6
<1>8. \A m \in Leaving' : kind'[mem[m]] = kind[mem[m]] /\ cnt'[mem[m]] = cnt[mem[m]]
  BY <1>1, <1>3, <1>6
<1>9. kind' \in [Blocks -> {"free", "counted", "owned"}] /\ cnt' \in [Blocks -> Nat]
  BY <1>1
<1> HIDE DEF HeapInv, TypeOK
<1> QED BY <1>1, <1>4, <1>5, <1>7, <1>8, <1>9, DropInv

LEMMA DropSharedInv == HeapInv /\ DropShared => HeapInv'
<1> SUFFICES ASSUME HeapInv, DropShared PROVE HeapInv'
  OBVIOUS
<1> PICK l : l = todo[1].to
  OBVIOUS
<1> PICK b : b = mem[l]
  OBVIOUS
<1> USE DEF HeapInv, TypeOK
<1>1. /\ Dropping(l) /\ IsCounted(b) /\ ~IsLast(b) /\ kind' = kind
      /\ cnt' = [cnt EXCEPT ![b] = @ - 1] /\ todo[1].do = "drop"
  BY RunningFirst DEF DropShared, Dropping
<1>2. b \in Blocks /\ kind[b] = "counted"
  BY <1>1 DEF IsCounted
<1>3. /\ l \in Holders(b) /\ Leaving' = Leaving /\ l \in Scheduled /\ l \notin Leaving /\ l \in Locs
      /\ \A x \in Locs : mem'[x] = IF x = l THEN Void ELSE mem[x]
  <2>1. /\ Leaving' = Leaving /\ l \in Scheduled /\ l \notin Leaving /\ l \in Locs
        /\ \A x \in Locs : mem'[x] = IF x = l THEN Void ELSE mem[x]
    BY <1>1, DropStep
  <2> QED BY <2>1 DEF Holders
<1>4. Stay
  BY <1>1, DropStep DEF Stay
<1>5. cnt[b] \in Nat /\ cnt[b] > 1
  <2>1. cnt[b] \in Nat /\ cnt[b] >= 1
    BY <1>2, <1>3, HeldCounts
  <2> QED BY <1>1, <2>1 DEF IsLast
<1>6. cnt' \in [Blocks -> Nat] /\ \A c \in Blocks : cnt'[c] = IF c = b THEN cnt[b] - 1 ELSE cnt[c]
  BY <1>1, <1>2, <1>5
<1>7. ASSUME NEW c \in Blocks
      PROVE  cnt'[c] = cnt[c] - (IF l \in Holders(c) THEN 1 ELSE 0)
  <2>1. l \in Holders(c) <=> c = b
    BY <1>3 DEF Holders
  <2>2. cnt[c] \in Nat
    OBVIOUS
  <2> QED BY <1>6, <2>1, <2>2
<1>8. \A m \in Leaving : mem[m] # b /\ mem[m] \in Blocks /\ m \in Locs
  BY <1>5, LeavingFits DEF IsCounted
<1>9. KindFits'
  <2>1. \A m \in Leaving : mem'[m] = mem[m]
    BY <1>3, <1>8
  <2> SUFFICES ASSUME NEW c \in Blocks
               PROVE  /\ kind[c] = "free" => cnt'[c] = 0
                      /\ kind[c] = "owned" => cnt'[c] = 1
                      /\ kind[c] = "counted" => cnt'[c] > 0 \/ \E m \in Leaving' : mem'[m] = c
                      /\ kind[c] # "counted" => \A k \in 1 .. N : mem'[<<c, k>>] = Void
    BY <1>1 DEF KindFits
  <2>2. kind[c] # "counted" => \A k \in 1 .. N : mem[<<c, k>>] = Void
    BY DEF KindFits
  <2>3. kind[c] # "counted" => \A k \in 1 .. N : mem'[<<c, k>>] = Void
    BY <1>3, <2>2, ElemLoc
  <2>4. CASE c = b
    BY <1>2, <1>5, <1>6, <2>4
  <2>5. CASE c # b
    <3>1. /\ kind[c] = "free" => cnt[c] = 0
          /\ kind[c] = "owned" => cnt[c] = 1
          /\ kind[c] = "counted" => cnt[c] > 0 \/ \E m \in Leaving : mem[m] = c
      BY DEF KindFits
    <3>2. (\E m \in Leaving : mem[m] = c) => \E m \in Leaving' : mem'[m] = c
      BY <1>3, <2>1
    <3> QED BY <1>6, <2>3, <2>5, <3>1, <3>2
  <2> QED BY <2>4, <2>5
<1>10. \A m \in Leaving' : kind'[mem[m]] = kind[mem[m]] /\ cnt'[mem[m]] = cnt[mem[m]]
  BY <1>1, <1>3, <1>6, <1>8
<1>11. kind' \in [Blocks -> {"free", "counted", "owned"}]
  BY <1>1
<1> HIDE DEF HeapInv, TypeOK
<1> QED BY <1>1, <1>4, <1>6, <1>7, <1>9, <1>10, <1>11, DropInv

LEMMA ReleaseBlockInv == HeapInv /\ ReleaseBlock => HeapInv'
<1> SUFFICES ASSUME HeapInv, ReleaseBlock PROVE HeapInv'
  OBVIOUS
<1> PICK l : l = todo[1].to
  OBVIOUS
<1> PICK b : b = mem[l]
  OBVIOUS
<1> USE DEF HeapInv, TypeOK
<1>1. /\ Dropping(l) /\ kind' = [kind EXCEPT ![b] = "free"] /\ cnt' = cnt
      /\ todo[1].do = "release" /\ 1 \in DOMAIN todo
  BY RunningFirst DEF ReleaseBlock, Dropping
<1>2. l \in Leaving
  BY <1>1 DEF Leaving
<1>3. b \in Blocks /\ kind[b] = "counted" /\ cnt[b] = 0
  BY <1>2, LeavingFits DEF IsCounted
<1>4. \A k \in 1 .. N : mem[<<b, k>>] = Void
  <2>1. ReleaseFits(1)
    BY <1>1 DEF TasksFit
  <2>2. \A j \in 1 .. 1 - 1 : FALSE
    OBVIOUS
  <2> QED BY <2>1, <2>2 DEF ReleaseFits
<1>5. /\ Leaving' = Leaving \ {l} /\ l \in Locs
      /\ \A x \in Locs : mem'[x] = IF x = l THEN Void ELSE mem[x]
  BY <1>1, DropStep
<1>6. Stay
  <2>1. ~Anchored(b)
    BY <1>3, AnchoredCounts
  <2> QED BY <1>1, <2>1, DropStep DEF Stay
<1>7. ASSUME NEW c \in Blocks
      PROVE  cnt'[c] = cnt[c] - (IF l \in Holders(c) THEN 1 ELSE 0)
  <2>1. l \notin Holders(c)
    BY <1>2 DEF Holders
  <2>2. cnt[c] \in Nat
    OBVIOUS
  <2> QED BY <1>1, <2>1, <2>2
<1>8. \A m \in Leaving' : mem[m] # b /\ mem[m] \in Blocks /\ m \in Locs
  BY <1>2, <1>5, LeavingFits DEF IsCounted
<1>9. KindFits'
  <2>1. \A m \in Leaving' : mem'[m] = mem[m]
    BY <1>5, <1>8
  <2> SUFFICES ASSUME NEW c \in Blocks
               PROVE  /\ kind'[c] = "free" => cnt'[c] = 0
                      /\ kind'[c] = "owned" => cnt'[c] = 1
                      /\ kind'[c] = "counted" => cnt'[c] > 0 \/ \E m \in Leaving' : mem'[m] = c
                      /\ kind'[c] # "counted" => \A k \in 1 .. N : mem'[<<c, k>>] = Void
    BY DEF KindFits
  <2>2. kind[c] # "counted" => \A k \in 1 .. N : mem[<<c, k>>] = Void
    BY DEF KindFits
  <2>3. kind'[c] # "counted" => \A k \in 1 .. N : mem'[<<c, k>>] = Void
    BY <1>1, <1>3, <1>4, <1>5, <2>2, ElemLoc
  <2>4. CASE c = b
    BY <1>1, <1>3, <2>3, <2>4
  <2>5. CASE c # b
    <3>1. /\ kind[c] = "free" => cnt[c] = 0
          /\ kind[c] = "owned" => cnt[c] = 1
          /\ kind[c] = "counted" => cnt[c] > 0 \/ \E m \in Leaving : mem[m] = c
      BY DEF KindFits
    <3>2. \A m \in Leaving : mem[m] = c => m \in Leaving'
      BY <1>5, <2>5
    <3>3. (\E m \in Leaving : mem[m] = c) => \E m \in Leaving' : mem'[m] = c
      BY <2>1, <3>2
    <3>4. cnt'[c] = cnt[c] /\ kind'[c] = kind[c]
      BY <1>1, <2>5
    <3> QED BY <2>3, <3>1, <3>3, <3>4
  <2> QED BY <2>4, <2>5
<1>10. \A m \in Leaving' : kind'[mem[m]] = kind[mem[m]] /\ cnt'[mem[m]] = cnt[mem[m]]
  BY <1>1, <1>8
<1>11. kind' \in [Blocks -> {"free", "counted", "owned"}] /\ cnt' \in [Blocks -> Nat]
  BY <1>1
<1> HIDE DEF HeapInv, TypeOK
<1> QED BY <1>1, <1>6, <1>7, <1>9, <1>10, <1>11, DropInv

(* The last holder of a block is dropped: the tasks that release the block *)
(* come before those that are left.                                        *)
Giving(l, b) ==
  /\ todo # <<>> /\ todo[1].do = "drop" /\ l = todo[1].to
  /\ b = mem[l] /\ IsCounted(b) /\ cnt[b] = 1
  /\ cnt' = [cnt EXCEPT ![b] = @ - 1]
  /\ todo' = DropElements(b) \o <<Release(l)>> \o Tail(todo)
  /\ mem' = mem /\ kind' = kind /\ lost' = lost /\ rets' = rets /\ pending' = pending

LEMMA GivingBlock ==
  ASSUME HeapInv, NEW l, NEW b, Giving(l, b)
  PROVE  /\ l \in Locs /\ l \in Scheduled /\ l \notin Leaving
         /\ b \in Blocks /\ kind[b] = "counted" /\ Holders(b) = {l} /\ lost[b] = 0
         /\ ~Anchored(b) /\ \A m \in Leaving : mem[m] # b
         /\ \A k \in 1 .. N : <<b, k>> \notin Scheduled
<1> USE DEF HeapInv, TypeOK
<1>1. 1 \in DOMAIN todo /\ todo[1] \in Task /\ DOMAIN todo = 1 .. Len(todo)
      /\ \A i \in DOMAIN todo : todo[i] \in Task
  BY Tasks DEF Giving
<1>2. l \in Locs /\ l \in Scheduled /\ Drops(1)
  BY <1>1, TaskCases DEF Giving, Scheduled, Drops
<1>3. l \notin Leaving
  <2> SUFFICES ASSUME NEW j \in DOMAIN todo, todo[j].do = "release", todo[j].to = l
               PROVE  FALSE
    BY DEF Leaving
  <2>1. Drops(j) /\ j # 1
    BY DEF Drops, Giving
  <2> QED BY <1>1, <1>2, <2>1 DEF DropsOnce, Giving
<1>4. b \in Blocks /\ kind[b] = "counted" /\ cnt[b] = 1
  BY DEF Giving, IsCounted
<1>5. l \in Holders(b)
  BY <1>2, <1>3 DEF Holders, Giving
<1>6. Holders(b) = {l} /\ lost[b] = 0
  BY <1>4, <1>5, HeldCounts
<1>7. ~Anchored(b)
  BY <1>2, <1>4, <1>5, AnchoredCounts
<1>8. \A m \in Leaving : mem[m] # b
  BY <1>4, LeavingFits
<1>9. ASSUME NEW k \in 1 .. N, <<b, k>> \in Scheduled
      PROVE  FALSE
  <2>1. PICK j \in DOMAIN todo : Drops(j) /\ todo[j].to = <<b, k>>
    BY <1>9 DEF Scheduled
  <2>2. DropFits(j)
    BY <2>1 DEF TasksFit
  <2>3. ~Secure(<<b, k>>)
    BY <1>4, <1>7, ElemLoc DEF Secure
  <2>4. PICK m \in j + 1 .. Len(todo) : todo[m].do = "release" /\ mem[todo[m].to] = <<b, k>>[1]
    BY <2>1, <2>2, <2>3 DEF DropFits
  <2>5. m \in DOMAIN todo
    BY <1>1, <2>4
  <2>6. todo[m].to \in Leaving
    BY <2>4, <2>5 DEF Leaving
  <2> QED BY <1>4, <1>8, <2>4, <2>6, ElemLoc
<1> QED BY <1>2, <1>3, <1>4, <1>6, <1>7, <1>8, <1>9

LEMMA GivingTasks ==
  ASSUME HeapInv, NEW l, NEW b, Giving(l, b)
  PROVE  /\ todo' \in Seq(Task) /\ Len(todo') = N + Len(todo) /\ DOMAIN todo' = 1 .. N + Len(todo)
         /\ \A i \in 1 .. N : todo'[i] = Drop(<<b, i>>) /\ i \in DOMAIN todo'
         /\ todo'[N + 1] = Release(l) /\ N + 1 \in DOMAIN todo'
         /\ \A i \in 2 .. Len(todo) : todo'[N + i] = todo[i] /\ N + i \in DOMAIN todo'
         /\ \A j \in DOMAIN todo' : \/ j \in 1 .. N
                                    \/ j = N + 1
                                    \/ \E i \in 2 .. Len(todo) : j = N + i
<1> DEFINE drops == DropElements(b)
           new == drops \o <<Release(l)>>
<1>1. l \in Locs /\ b \in Blocks
  BY GivingBlock
<1>2. /\ drops \in Seq(Task) /\ Len(drops) = N /\ \A i \in 1 .. N : drops[i] = Drop(<<b, i>>)
      /\ <<Release(l)>> \in Seq(Task) /\ Len(<<Release(l)>>) = 1 /\ <<Release(l)>>[1] = Release(l)
      /\ N \in Nat
  BY <1>1, ElementTasks, MakesTask, HeapAssumption
<1>3. /\ todo \in Seq(Task) /\ todo # <<>>
      /\ todo' = new \o Tail(todo)
  BY DEF Giving, HeapInv, TypeOK
<1> DEFINE last == <<Release(l)>>
<1> HIDE DEF drops
<1>4. /\ new \in Seq(Task) /\ Len(new) = N + 1 /\ \A i \in 1 .. N : new[i] = Drop(<<b, i>>)
      /\ new[N + 1] = Release(l)
  <2>1. last \in Seq(Task) /\ Len(last) = 1 /\ last[1] = Release(l)
    BY <1>2
  <2> HIDE DEF last
  <2>2. /\ drops \o last \in Seq(Task) /\ Len(drops \o last) = N + 1
        /\ \A i \in 1 .. N + 1 : (drops \o last)[i] = IF i <= N THEN drops[i] ELSE last[i - N]
    <3>1. /\ drops \o last \in Seq(Task) /\ Len(drops \o last) = Len(drops) + Len(last)
          /\ \A i \in 1 .. Len(drops) + Len(last) :
               (drops \o last)[i] = IF i <= Len(drops) THEN drops[i] ELSE last[i - Len(drops)]
      <4>1. drops \in Seq(Task) /\ last \in Seq(Task)
        BY <1>2, <2>1
      <4> QED BY <4>1, ConcatProperties
    <3>2. Len(drops) = N /\ Len(last) = 1
      BY <1>2, <2>1
    <3> QED BY <3>1, <3>2
  <2>3. (drops \o last)[N + 1] = last[1]
    <3>1. N + 1 \in 1 .. N + 1 /\ ~(N + 1 <= N) /\ (N + 1) - N = 1
      BY <1>2
    <3> QED BY <2>2, <3>1
  <2>4. \A i \in 1 .. N : (drops \o last)[i] = drops[i]
    BY <1>2, <2>2
  <2> QED BY <1>2, <2>1, <2>2, <2>3, <2>4 DEF last
<1> HIDE DEF new
<1>5. /\ todo' \in Seq(Task) /\ Len(todo) \in Nat \ {0}
      /\ Len(todo') = Len(new) + Len(todo) - 1
      /\ DOMAIN todo' = 1 .. Len(new) + Len(todo) - 1
      /\ \A i \in 1 .. Len(new) : todo'[i] = new[i]
      /\ \A i \in 2 .. Len(todo) : todo'[Len(new) + i - 1] = todo[i]
  BY <1>3, <1>4, MoreTasks
<1>6. Len(todo') = N + Len(todo) /\ DOMAIN todo' = 1 .. N + Len(todo)
  <2>1. (N + 1) + Len(todo) - 1 = N + Len(todo)
    BY <1>2, <1>5
  <2> QED BY <1>4, <1>5, <2>1
<1>7. \A i \in 1 .. N : todo'[i] = Drop(<<b, i>>) /\ i \in DOMAIN todo'
  <2> SUFFICES ASSUME NEW i \in 1 .. N PROVE todo'[i] = Drop(<<b, i>>) /\ i \in DOMAIN todo'
    OBVIOUS
  <2>1. i \in 1 .. N + 1 /\ i \in 1 .. N + Len(todo)
    BY <1>2, <1>5
  <2> QED BY <1>4, <1>5, <1>6, <2>1
<1>8. todo'[N + 1] = Release(l) /\ N + 1 \in DOMAIN todo'
  <2>1. N + 1 \in 1 .. N + 1 /\ N + 1 \in 1 .. N + Len(todo)
    BY <1>2, <1>5
  <2> QED BY <1>4, <1>5, <1>6, <2>1
<1>9. \A i \in 2 .. Len(todo) : todo'[N + i] = todo[i] /\ N + i \in DOMAIN todo'
  <2> SUFFICES ASSUME NEW i \in 2 .. Len(todo)
               PROVE  todo'[N + i] = todo[i] /\ N + i \in DOMAIN todo'
    OBVIOUS
  <2>1. (N + 1) + i - 1 = N + i /\ N + i \in 1 .. N + Len(todo)
    BY <1>2, <1>5
  <2> QED BY <1>4, <1>5, <1>6, <2>1
<1>10. ASSUME NEW j \in 1 .. N + Len(todo), j \notin 1 .. N, j # N + 1
       PROVE  \E i \in 2 .. Len(todo) : j = N + i
  <2>1. j - N \in 2 .. Len(todo) /\ j = N + (j - N)
    BY <1>2, <1>5, <1>10
  <2> QED BY <2>1
<1> QED BY <1>5, <1>6, <1>7, <1>8, <1>9, <1>10

LEMMA GivingSets ==
  ASSUME HeapInv, NEW l, NEW b, Giving(l, b)
  PROVE  /\ Leaving' = Leaving \cup {l}
         /\ Scheduled' = Scheduled \cup {b} \X (1 .. N)
         /\ DropsOnce'
<1>1. /\ DOMAIN todo' = 1 .. N + Len(todo)
      /\ \A i \in 1 .. N : todo'[i] = Drop(<<b, i>>) /\ i \in DOMAIN todo'
      /\ todo'[N + 1] = Release(l) /\ N + 1 \in DOMAIN todo'
      /\ \A i \in 2 .. Len(todo) : todo'[N + i] = todo[i] /\ N + i \in DOMAIN todo'
      /\ \A j \in DOMAIN todo' : \/ j \in 1 .. N
                                 \/ j = N + 1
                                 \/ \E i \in 2 .. Len(todo) : j = N + i
  BY GivingTasks
<1>2. /\ l \in Locs /\ b \in Blocks /\ l \in Scheduled /\ l \notin Leaving
      /\ \A k \in 1 .. N : <<b, k>> \notin Scheduled
  BY GivingBlock
<1>3. /\ \A k \in 1 .. N : Drop(<<b, k>>).do = "drop" /\ Drop(<<b, k>>).to = <<b, k>>
      /\ Release(l).do = "release" /\ Release(l).to = l
  BY <1>2, MakesTask, ElemLoc
<1>4. /\ DOMAIN todo = 1 .. Len(todo) /\ Len(todo) \in Nat \ {0} /\ todo[1].do = "drop"
      /\ todo[1].to = l /\ N \in Nat
  BY Tasks, HeapAssumption DEF HeapInv, TypeOK, Giving
<1>5. Leaving' = Leaving \cup {l}
  <2>1. ASSUME NEW j \in DOMAIN todo', todo'[j].do = "release"
        PROVE  todo'[j].to \in Leaving \cup {l}
    <3>1. CASE j \in 1 .. N
      BY <1>1, <1>3, <2>1, <3>1
    <3>2. CASE j = N + 1
      BY <1>1, <1>3, <3>2
    <3>3. ASSUME NEW i \in 2 .. Len(todo), j = N + i
          PROVE  todo'[j].to \in Leaving
      BY <1>1, <1>4, <2>1, <3>3 DEF Leaving
    <3> QED BY <1>1, <3>1, <3>2, <3>3
  <2>2. ASSUME NEW i \in DOMAIN todo, todo[i].do = "release"
        PROVE  todo[i].to \in Leaving'
    <3>1. i \in 2 .. Len(todo)
      BY <1>4, <2>2
    <3> QED BY <1>1, <2>2, <3>1 DEF Leaving
  <2>3. l \in Leaving'
    BY <1>1, <1>3 DEF Leaving
  <2>4. Leaving' \subseteq Leaving \cup {l}
    BY <2>1 DEF Leaving
  <2>5. Leaving \subseteq Leaving'
    BY <2>2 DEF Leaving
  <2> QED BY <2>3, <2>4, <2>5
<1>6. Scheduled' = Scheduled \cup {b} \X (1 .. N)
  <2>1. ASSUME NEW j \in DOMAIN todo', Drops(j)'
        PROVE  todo'[j].to \in Scheduled \cup {b} \X (1 .. N)
    <3>1. CASE j \in 1 .. N
      <4>1. todo'[j].to = <<b, j>> /\ <<b, j>> \in {b} \X (1 .. N)
        BY <1>1, <1>3, <3>1
      <4> QED BY <4>1
    <3>2. CASE j = N + 1
      BY <1>1, <1>2, <1>3, <3>2
    <3>3. ASSUME NEW i \in 2 .. Len(todo), j = N + i
          PROVE  todo'[j].to \in Scheduled
      BY <1>1, <1>4, <2>1, <3>3 DEF Scheduled, Drops
    <3> QED BY <1>1, <3>1, <3>2, <3>3
  <2>2. ASSUME NEW i \in DOMAIN todo, Drops(i)
        PROVE  todo[i].to \in Scheduled'
    <3>1. CASE i = 1
      BY <1>1, <1>3, <1>4, <3>1 DEF Scheduled, Drops
    <3>2. CASE i # 1
      <4>1. i \in 2 .. Len(todo)
        BY <1>4, <3>2
      <4> QED BY <1>1, <2>2, <4>1 DEF Scheduled, Drops
    <3> QED BY <3>1, <3>2
  <2>3. ASSUME NEW k \in 1 .. N
        PROVE  <<b, k>> \in Scheduled'
    <3>1. todo'[k].do = "drop" /\ todo'[k].to = <<b, k>> /\ k \in DOMAIN todo'
      BY <1>1, <1>3
    <3> QED BY <3>1 DEF Scheduled, Drops
  <2>4. Scheduled' \subseteq Scheduled \cup {b} \X (1 .. N)
    BY <2>1 DEF Scheduled
  <2>5. Scheduled \subseteq Scheduled'
    BY <2>2 DEF Scheduled
  <2> QED BY <2>3, <2>4, <2>5
<1>7. ASSUME NEW i \in DOMAIN todo', NEW j \in DOMAIN todo', Drops(i)', Drops(j)',
             todo'[i].to = todo'[j].to, i < j
      PROVE  FALSE
  <2>1. i \in Int /\ j \in Int
    BY <1>1
  <2> HIDE DEF HeapInv
  <2>2. \A k \in 1 .. N : todo'[k].to = <<b, k>>
    BY <1>1, <1>3
  <2>3. todo'[N + 1].to = l
    BY <1>1, <1>3
  <2>4. CASE i \in 1 .. N /\ j \in 1 .. N
    <3>1. <<b, i>> = <<b, j>>
      BY <1>7, <2>2, <2>4
    <3> QED BY <1>7, <2>1, <3>1
  <2>5. CASE i \in 1 .. N /\ j = N + 1
    <3>1. <<b, i>> = l
      BY <1>7, <2>2, <2>3, <2>5
    <3> QED BY <1>2, <2>5, <3>1
  <2>6. ASSUME NEW n \in 2 .. Len(todo), j = N + n
        PROVE  FALSE
    <3>1. /\ Drops(n) /\ todo[n].to = todo'[i].to /\ n \in DOMAIN todo /\ n # 1
          /\ todo[n].to \in Scheduled
      <4>1. n \in DOMAIN todo /\ n # 1
        BY <1>4, <2>6
      <4>2. todo'[j] = todo[n]
        BY <1>1, <2>6
      <4>3. Drops(n) /\ todo[n].to = todo'[i].to
        BY <1>7, <4>2 DEF Drops
      <4> QED BY <4>1, <4>3 DEF Scheduled
    <3>2. CASE i \in 1 .. N
      <4>1. todo[n].to = <<b, i>>
        BY <2>2, <3>1, <3>2
      <4> QED BY <1>2, <3>1, <3>2, <4>1
    <3>3. \A m \in DOMAIN todo : Drops(m) /\ todo[m].to = todo[n].to => m = n
      BY <3>1 DEF DropsOnce, HeapInv
    <3>4. CASE i = N + 1
      <4>1. Drops(1) /\ todo[1].to = todo[n].to /\ 1 \in DOMAIN todo
        BY <1>1, <1>3, <1>4, <3>1, <3>4 DEF Drops
      <4> QED BY <3>1, <3>3, <4>1
    <3>5. ASSUME NEW m \in 2 .. Len(todo), i = N + m
          PROVE  FALSE
      <4>1. Drops(m) /\ todo[m].to = todo[n].to /\ m \in DOMAIN todo
        BY <1>1, <1>4, <1>7, <3>1, <3>5 DEF Drops
      <4>2. m = n
        BY <3>3, <4>1
      <4> QED BY <1>4, <1>7, <2>6, <3>5, <4>2
    <3> QED BY <1>1, <3>2, <3>4, <3>5
  <2>7. ASSUME j \in 1 .. N, i \notin 1 .. N
        PROVE  FALSE
    BY <1>1, <1>4, <1>7, <2>1, <2>7
  <2>8. ASSUME j = N + 1, i \notin 1 .. N
        PROVE  FALSE
    BY <1>1, <1>4, <1>7, <2>1, <2>8
  <2> QED BY <1>1, <2>4, <2>5, <2>6, <2>7, <2>8
<1>8. DropsOnce'
  <2> SUFFICES ASSUME NEW i \in DOMAIN todo', NEW j \in DOMAIN todo', Drops(i)', Drops(j)',
                      todo'[i].to = todo'[j].to
               PROVE  i = j
    BY DEF DropsOnce
  <2>1. i \in Int /\ j \in Int
    BY <1>1
  <2>2. ~(i < j) /\ ~(j < i)
    BY <1>7
  <2> QED BY <2>1, <2>2
<1> QED BY <1>5, <1>6, <1>8

LEMMA GivingStay ==
  ASSUME HeapInv, NEW l, NEW b, Giving(l, b)
  PROVE  Stay
<1>1. /\ l \in Locs /\ l \in Scheduled /\ b \in Blocks /\ Holders(b) = {l} /\ lost[b] = 0
      /\ Scheduled' = Scheduled \cup {b} \X (1 .. N)
  BY GivingBlock, GivingSets
<1>2. mem' = mem /\ lost' = lost /\ kind' = kind
  BY DEF Giving
<1>3. ASSUME NEW c \in Blocks, Anchored(c), NEW U \in SUBSET Blocks, c \in U
      PROVE  Entered(U)'
  <2> DEFINE V == U \cup {b}
  <2>1. V \in SUBSET Blocks /\ c \in V
    BY <1>1, <1>3
  <2>2. Entered(V)
    BY <1>3, <2>1 DEF Anchored
  <2>3. PICK d \in V : lost[d] > 0 \/ \E h \in Locs \ Scheduled :
                                        mem[h] = d /\ (h \in Slots \/ h[1] \notin V)
    BY <2>2 DEF Entered
  <2>4. d # b
    <3>1. ASSUME NEW h \in Locs \ Scheduled, mem[h] = b
          PROVE  FALSE
      <4>1. h \in Holders(b)
        BY <3>1, LeavingScheduled DEF Holders
      <4> QED BY <1>1, <4>1
    <3> QED BY <1>1, <2>3, <3>1
  <2>5. d \in U
    BY <2>4
  <2>6. CASE lost[d] > 0
    BY <1>2, <2>5, <2>6 DEF Entered
  <2>7. ASSUME NEW h \in Locs \ Scheduled, mem[h] = d, h \in Slots \/ h[1] \notin V
        PROVE  Entered(U)'
    <3>1. h \notin {b} \X (1 .. N)
      BY <1>1, <2>7, ElemLoc
    <3>2. h \in Locs \ Scheduled' /\ (h \in Slots \/ h[1] \notin U)
      BY <1>1, <2>7, <3>1
    <3> QED BY <1>2, <2>5, <2>7, <3>2 DEF Entered
  <2> QED BY <2>3, <2>6, <2>7
<1>4. \A c \in Blocks : Anchored(c) => Anchored(c)'
  BY <1>3 DEF Anchored
<1> QED BY <1>2, <1>4 DEF Stay

LEMMA GivingFits ==
  ASSUME HeapInv, NEW l, NEW b, Giving(l, b)
  PROVE  TasksFit'
<1>1. /\ DOMAIN todo' = 1 .. N + Len(todo) /\ Len(todo') = N + Len(todo)
      /\ \A i \in 1 .. N : todo'[i] = Drop(<<b, i>>) /\ i \in DOMAIN todo'
      /\ todo'[N + 1] = Release(l) /\ N + 1 \in DOMAIN todo'
      /\ \A i \in 2 .. Len(todo) : todo'[N + i] = todo[i] /\ N + i \in DOMAIN todo'
      /\ \A j \in DOMAIN todo' : \/ j \in 1 .. N
                                 \/ j = N + 1
                                 \/ \E i \in 2 .. Len(todo) : j = N + i
  BY GivingTasks
<1>2. /\ l \in Locs /\ b \in Blocks /\ kind[b] = "counted"
      /\ \A k \in 1 .. N : <<b, k>> \notin Scheduled
  BY GivingBlock
<1>3. /\ \A k \in 1 .. N : /\ todo'[k].do = "drop" /\ todo'[k].to = <<b, k>>
                           /\ Drops(k)' /\ <<b, k>>[1] = b
      /\ todo'[N + 1].do = "release" /\ todo'[N + 1].to = l /\ Drops(N + 1)'
  <2>1. /\ \A k \in 1 .. N : Drop(<<b, k>>).do = "drop" /\ Drop(<<b, k>>).to = <<b, k>>
        /\ Release(l).do = "release" /\ Release(l).to = l
    BY <1>2, MakesTask, ElemLoc
  <2> QED BY <1>1, <2>1 DEF Drops
<1>4. /\ DOMAIN todo = 1 .. Len(todo) /\ Len(todo) \in Nat \ {0} /\ todo[1].do = "drop"
      /\ todo[1].to = l /\ N \in Nat /\ 1 \in DOMAIN todo
      /\ \A i \in DOMAIN todo : todo[i] \in Task
  BY Tasks, HeapAssumption DEF HeapInv, TypeOK, Giving
<1>5. /\ mem' = mem /\ kind' = kind /\ b = mem[l] /\ cnt[b] = 1
      /\ cnt' = [cnt EXCEPT ![b] = @ - 1] /\ rets' = rets /\ pending' = pending
      /\ cnt \in [Blocks -> Nat]
  BY DEF Giving, HeapInv, TypeOK
<1>6. Stay
  BY GivingStay
<1>7. ASSUME NEW i \in 2 .. Len(todo)
      PROVE  /\ i \in DOMAIN todo /\ todo'[N + i] = todo[i] /\ N + i \in DOMAIN todo'
             /\ Drops(N + i)' <=> Drops(i)
  BY <1>1, <1>4 DEF Drops
(* What was to be dropped before still has its place. *)
<1>8. ASSUME NEW i \in DOMAIN todo, Drops(i), NEW t \in DOMAIN todo', todo'[t].to = todo[i].to,
             t <= N + i
      PROVE  DropFits(t)'
  <2> PICK m \in Locs : m = todo[i].to
    BY <1>4, <1>8, TaskCases DEF Drops
  <2>1. DropFits(i)
    BY <1>8 DEF TasksFit, HeapInv
  <2>2. CASE Secure(m)
    <3>1. Secure(m)'
      BY <1>6, <2>2, SecureKept
    <3>2. todo'[t].to = m
      BY <1>8
    <3> QED BY <3>1, <3>2 DEF DropFits, Secure, Anchored
  <2>3. ASSUME NEW j \in i + 1 .. Len(todo), todo[j].do = "release", mem[todo[j].to] = m[1]
        PROVE  DropFits(t)'
    <3>1. j \in 2 .. Len(todo) /\ N + j \in t + 1 .. N + Len(todo)
      BY <1>1, <1>4, <1>8
    <3>2. todo'[N + j].do = "release" /\ mem'[todo'[N + j].to] = todo'[t].to[1]
      BY <1>5, <1>7, <1>8, <2>3, <3>1
    <3> QED BY <1>1, <3>1, <3>2 DEF DropFits
  <2> QED BY <2>1, <2>2, <2>3 DEF DropFits
<1>9. ASSUME NEW k \in 1 .. N
      PROVE  DropFits(k)'
  <2>1. N + 1 \in k + 1 .. Len(todo')
    BY <1>1, <1>4
  <2>2. todo'[N + 1].do = "release" /\ mem'[todo'[N + 1].to] = todo'[k].to[1]
    BY <1>3, <1>5
  <2> QED BY <2>1, <2>2 DEF DropFits
<1>10. /\ DropFits(N + 1)' /\ ReleaseFits(N + 1)'
       /\ \A j \in 1 .. (N + 1) - 1 : Drops(j)' /\ todo'[j].do # "release"
  <2>1. DropFits(N + 1)'
    <3>1. Drops(1) /\ todo'[N + 1].to = todo[1].to /\ N + 1 <= N + 1
      BY <1>3, <1>4 DEF Drops
    <3> QED BY <1>1, <1>4, <1>8, <3>1
  <2>2. \A j \in 1 .. (N + 1) - 1 : j \in 1 .. N
    BY <1>4
  <2>3. IsCounted(mem[todo[N + 1].to])' /\ cnt'[mem'[todo'[N + 1].to]] = 0
    BY <1>2, <1>3, <1>5 DEF IsCounted
  <2>4. \A k \in 1 .. N : k \in 1 .. (N + 1) - 1 /\ todo'[k].to = <<mem'[todo'[N + 1].to], k>>
    BY <1>3, <1>4, <1>5
  <2>5. ReleaseFits(N + 1)'
    BY <1>3, <2>3, <2>4 DEF ReleaseFits
  <2> QED BY <1>3, <2>1, <2>2, <2>5
<1>11. ASSUME NEW i \in 2 .. Len(todo), todo[i].do = "release"
       PROVE  /\ ReleaseFits(N + i)'
              /\ \A j \in 1 .. (N + i) - 1 : Drops(j)'
              /\ \A j \in 1 .. (N + i) - 1 : todo'[j].do = "release" => mem'[todo'[j].to] # mem'[todo'[N + i].to]
  <2> PICK m, c : m = todo[i].to /\ c = mem[m]
    OBVIOUS
  <2>1. /\ ReleaseFits(i) /\ \A j \in 1 .. i - 1 : Drops(j)
        /\ \A j \in 1 .. i - 1 : todo[j].do = "release" => mem[todo[j].to] # c
    BY <1>7, <1>11 DEF HeapInv, TasksFit
  <2>2. IsCounted(c) /\ cnt[c] = 0 /\ c # b /\ c \in Blocks
    BY <1>5, <2>1 DEF ReleaseFits, IsCounted
  <2>3. todo'[N + i].to = m /\ mem'[todo'[N + i].to] = c
    BY <1>5, <1>7
  <2>4. IsCounted(mem[todo[N + i].to])' /\ cnt'[mem'[todo'[N + i].to]] = 0
    BY <1>5, <2>2, <2>3 DEF IsCounted
  <2>5. ASSUME NEW j \in 1 .. (N + i) - 1
        PROVE  \/ j \in 1 .. N
               \/ j = N + 1
               \/ \E n \in 2 .. i - 1 : j = N + n
    <3>1. j \in DOMAIN todo'
      BY <1>1, <1>4
    <3>2. ASSUME NEW n \in 2 .. Len(todo), j = N + n
          PROVE  n \in 2 .. i - 1
      BY <1>4, <3>2
    <3> QED BY <1>1, <3>1, <3>2
  <2>6. ASSUME NEW n \in 2 .. i - 1
        PROVE  /\ n \in 2 .. Len(todo) /\ n \in 1 .. i - 1 /\ N + n \in 1 .. (N + i) - 1
               /\ todo'[N + n] = todo[n] /\ Drops(N + n)'
               /\ todo'[N + n].do = "release" => mem'[todo'[N + n].to] # c
    <3>1. n \in 2 .. Len(todo) /\ n \in 1 .. i - 1 /\ N + n \in 1 .. (N + i) - 1
      BY <1>4
    <3> QED BY <1>5, <1>7, <2>1, <3>1
  <2>7. \A j \in 1 .. (N + i) - 1 : Drops(j)'
    BY <1>3, <2>5, <2>6
  <2>8. ASSUME NEW j \in 1 .. (N + i) - 1, todo'[j].do = "release"
        PROVE  mem'[todo'[j].to] # mem'[todo'[N + i].to]
    <3>1. CASE j \in 1 .. N
      BY <1>3, <2>8, <3>1
    <3>2. CASE j = N + 1
      BY <1>3, <1>5, <2>2, <2>3, <3>2
    <3>3. ASSUME NEW n \in 2 .. i - 1, j = N + n
          PROVE  mem'[todo'[j].to] # mem'[todo'[N + i].to]
      BY <2>3, <2>6, <2>8, <3>3
    <3> QED BY <2>5, <3>1, <3>2, <3>3
  <2>9. ASSUME NEW k \in 1 .. N
        PROVE  \/ mem'[<<c, k>>] = Void
               \/ \E j \in 1 .. (N + i) - 1 : Drops(j)' /\ todo'[j].to = <<c, k>>
    <3>1. CASE mem[<<c, k>>] = Void
      BY <1>5, <3>1
    <3>2. ASSUME NEW j \in 1 .. i - 1, Drops(j), todo[j].to = <<c, k>>
          PROVE  \E n \in 1 .. (N + i) - 1 : Drops(n)' /\ todo'[n].to = <<c, k>>
      <4>1. CASE j = 1
        <5>1. N + 1 \in 1 .. (N + i) - 1
          BY <1>4
        <5> QED BY <1>3, <1>4, <3>2, <4>1, <5>1
      <4>2. CASE j # 1
        <5>1. j \in 2 .. i - 1
          BY <4>2
        <5> QED BY <2>6, <3>2, <5>1
      <4> QED BY <4>1, <4>2
    <3>3. mem[<<c, k>>] = Void \/ \E j \in 1 .. i - 1 : Drops(j) /\ todo[j].to = <<c, k>>
      BY <2>1 DEF ReleaseFits
    <3> QED BY <3>1, <3>2, <3>3
  <2>10. ReleaseFits(N + i)'
    <3>1. \A k \in 1 .. N : \/ mem'[<<mem'[todo'[N + i].to], k>>] = Void
                            \/ \E j \in 1 .. (N + i) - 1 : /\ Drops(j)'
                                                           /\ todo'[j].to = <<mem'[todo'[N + i].to], k>>
      BY <2>3, <2>9
    <3> QED BY <2>4, <3>1 DEF ReleaseFits
  <2> QED BY <2>7, <2>8, <2>10
<1>12. ASSUME NEW i \in 2 .. Len(todo)
       PROVE  /\ Drops(N + i)' => DropFits(N + i)'
              /\ todo'[N + i].do \in {"copy", "make"} => Secure(todo[N + i].to)'
              /\ todo'[N + i].do = "copy" => /\ Secure(todo[N + i].from)'
                                             /\ mem'[todo'[N + i].from] \in Blocks \cup {Void}
              /\ todo'[N + i].do # "make"
              /\ todo'[N + i].do = "leave" => N + i = Len(todo') /\ depth' > 0 /\ pending' = None
  <2> PICK t : t = todo[i]
    OBVIOUS
  <2>1. todo'[N + i] = t /\ t \in Task /\ i \in DOMAIN todo
    BY <1>4, <1>7
  <2>2. /\ t.do \in {"copy", "make"} => Secure(t.to)
        /\ t.do = "copy" => Secure(t.from) /\ mem[t.from] \in Blocks \cup {Void}
        /\ t.do = "make" => Scheduled = {}
        /\ t.do = "leave" => i = Len(todo) /\ depth > 0 /\ pending = None
    BY <2>1 DEF TasksFit, HeapInv
  <2>3. /\ t.do \in {"copy", "make"} => t.to \in Locs
        /\ t.do = "copy" => t.from \in Locs
    BY <2>1, TaskCases
  <2>4. t.do \in {"copy", "make"} => Secure(t.to)'
    BY <1>6, <2>2, <2>3, SecureKept
  <2>5. t.do = "copy" => Secure(t.from)'
    BY <1>6, <2>2, <2>3, SecureKept
  <2>6. todo'[N + i].do \in {"copy", "make"} => Secure(todo[N + i].to)'
    BY <2>1, <2>4 DEF Secure, Anchored
  <2>7. todo'[N + i].do = "copy" => Secure(todo[N + i].from)'
    BY <2>1, <2>5 DEF Secure, Anchored
  <2>8. todo'[N + i].do = "copy" => mem'[todo'[N + i].from] \in Blocks \cup {Void}
    BY <1>5, <2>1, <2>2
  <2>9. todo'[N + i].do = "leave" => N + i = Len(todo') /\ depth' > 0 /\ pending' = None
    <3>1. depth' = depth
      BY <1>5 DEF depth
    <3>2. i = Len(todo) => N + i = Len(todo')
      BY <1>1
    <3> QED BY <1>5, <2>1, <2>2, <3>1, <3>2
  <2>10. Drops(N + i)' => DropFits(N + i)'
    <3>1. N + i <= N + i
      BY <1>4
    <3> QED BY <1>7, <1>8, <3>1
  <2>11. todo'[N + i].do # "make"
    BY <2>1, <2>2, GivingBlock
  <2> QED BY <2>6, <2>7, <2>8, <2>9, <2>10, <2>11
<1>13. ASSUME NEW j \in DOMAIN todo'
       PROVE  /\ Drops(j)' => DropFits(j)'
              /\ todo'[j].do = "release" =>
                   /\ ReleaseFits(j)'
                   /\ \A n \in 1 .. j - 1 : Drops(n)'
                   /\ \A n \in 1 .. j - 1 : todo'[n].do = "release" => mem'[todo'[n].to] # mem'[todo'[j].to]
              /\ todo'[j].do \in {"copy", "make"} => Secure(todo[j].to)'
              /\ todo'[j].do = "copy" => Secure(todo[j].from)' /\ mem'[todo'[j].from] \in Blocks \cup {Void}
              /\ todo'[j].do = "make" => Scheduled' = {}
              /\ todo'[j].do = "leave" => j = Len(todo') /\ depth' > 0 /\ pending' = None
  <2>1. CASE j \in 1 .. N
    <3>1. todo'[j].do = "drop"
      BY <1>3, <2>1
    <3> QED BY <1>9, <2>1, <3>1
  <2>2. CASE j = N + 1
    <3>1. todo'[j].do = "release"
      BY <1>3, <2>2
    <3> QED BY <1>10, <2>2, <3>1
  <2>3. ASSUME NEW i \in 2 .. Len(todo), j = N + i
        PROVE  /\ todo'[j].do = "release" =>
                   /\ ReleaseFits(j)'
                   /\ \A n \in 1 .. j - 1 : Drops(n)'
                   /\ \A n \in 1 .. j - 1 : todo'[n].do = "release" => mem'[todo'[n].to] # mem'[todo'[j].to]
    BY <1>7, <1>11, <2>3
  <2> QED BY <1>1, <1>12, <2>1, <2>2, <2>3
<1> QED BY <1>13 DEF TasksFit

LEMMA DropLastInv == HeapInv /\ DropLast => HeapInv'
<1> SUFFICES ASSUME HeapInv, DropLast PROVE HeapInv'
  OBVIOUS
<1> PICK l : l = todo[1].to
  OBVIOUS
<1> PICK b : b = mem[l]
  OBVIOUS
<1>1. Giving(l, b)
  <2>1. /\ todo # <<>> /\ Head1 = todo[1] /\ todo[1].do = "drop"
    BY RunningFirst DEF DropLast
  <2>2. IsCounted(b) /\ cnt[b] - 1 = 0
    BY <2>1 DEF DropLast, IsLast
  <2>3. cnt[b] = 1
    <3>1. cnt[b] \in Nat
      BY <2>2 DEF HeapInv, TypeOK, IsCounted
    <3> QED BY <2>2, <3>1
  <2> QED BY <2>1, <2>2, <2>3 DEF DropLast, Giving
<1>2. /\ l \in Locs /\ b \in Blocks /\ kind[b] = "counted" /\ Holders(b) = {l} /\ cnt[b] = 1
      /\ l \notin Leaving
  BY <1>1, GivingBlock DEF Giving
<1>3. /\ mem' = mem /\ kind' = kind /\ lost' = lost /\ rets' = rets /\ pending' = pending
      /\ b = mem[l] /\ cnt' = [cnt EXCEPT ![b] = @ - 1]
  BY <1>1 DEF Giving
<1>4. Leaving' = Leaving \cup {l} /\ DropsOnce' /\ todo' \in Seq(Task) /\ TasksFit' /\ Stay
  BY <1>1, GivingSets, GivingTasks, GivingFits, GivingStay
<1>5. cnt \in [Blocks -> Nat] /\ cnt' \in [Blocks -> Nat]
      /\ \A c \in Blocks : cnt'[c] = IF c = b THEN 0 ELSE cnt[c]
  <2>1. cnt \in [Blocks -> Nat]
    BY DEF HeapInv, TypeOK
  <2> QED BY <1>2, <1>3, <2>1
<1>6. TypeOK'
  BY <1>3, <1>4, <1>5 DEF HeapInv, TypeOK, depth
<1>7. CountExact'
  <2> SUFFICES ASSUME NEW c \in Blocks
               PROVE  cnt'[c] = Cardinality(Holders(c)') + lost'[c]
    BY DEF CountExact
  <2>1. cnt[c] = Cardinality(Holders(c)) + lost[c] /\ lost[c] \in Nat /\ lost'[c] = lost[c]
    BY <1>3 DEF HeapInv, TypeOK, CountExact
  <2>2. Holders(c)' = Holders(c) \ {l}
    BY <1>3, <1>4 DEF Holders
  <2>3. Cardinality(Holders(c)') = Cardinality(Holders(c)) - (IF l \in Holders(c) THEN 1 ELSE 0)
    BY <2>2, DropCounts
  <2>4. Cardinality(Holders(c)) \in Nat
    BY HoldersFinite
  <2>5. l \in Holders(c) <=> c = b
    BY <1>2, <1>3 DEF Holders
  <2>6. cnt'[c] = cnt[c] - (IF c = b THEN 1 ELSE 0)
    BY <1>2, <1>5
  <2> QED BY <2>1, <2>3, <2>4, <2>5, <2>6
<1>8. KindFits'
  <2> SUFFICES ASSUME NEW c \in Blocks
               PROVE  /\ kind[c] = "free" => cnt'[c] = 0
                      /\ kind[c] = "owned" => cnt'[c] = 1
                      /\ kind[c] = "counted" => cnt'[c] > 0 \/ \E m \in Leaving' : mem[m] = c
                      /\ kind[c] # "counted" => \A k \in 1 .. N : mem[<<c, k>>] = Void
    BY <1>3 DEF KindFits
  <2>1. /\ kind[c] = "free" => cnt[c] = 0
        /\ kind[c] = "owned" => cnt[c] = 1
        /\ kind[c] = "counted" => cnt[c] > 0 \/ \E m \in Leaving : mem[m] = c
        /\ kind[c] # "counted" => \A k \in 1 .. N : mem[<<c, k>>] = Void
    BY DEF HeapInv, KindFits
  <2> QED BY <1>2, <1>3, <1>4, <1>5, <2>1
<1>9. RefsInSlots'
  BY <1>3 DEF HeapInv, RefsInSlots
<1>10. RefsAnchored'
  BY <1>3, <1>4, RefsKept DEF HeapInv, TypeOK
<1> QED BY <1>4, <1>6, <1>7, <1>8, <1>9, <1>10 DEF HeapInv

-------------------------------------------------------------------------------
(* Copying and making.                                                     *)

(* The first task writes; nothing is being released.                       *)
LEMMA WritingSets ==
  ASSUME HeapInv, todo # <<>>, ~Drops(1), todo' = Tail(todo)
  PROVE  Leaving = {} /\ Leaving' = {} /\ Scheduled' \subseteq Scheduled
<1>1. Leaving = {}
  BY NoRelease DEF HeapInv, TypeOK
<1>2. Leaving' \subseteq Leaving /\ Scheduled' \subseteq Scheduled
  BY TailSets DEF HeapInv, TypeOK
<1> QED BY <1>1, <1>2

LEMMA WrittenTail ==
  ASSUME HeapInv, todo # <<>>, ~Drops(1), todo' = Tail(todo), Written,
         rets' = rets, pending' = pending,
         \A x \in Locs : mem'[x] = mem[x] \/ mem'[x] \in Blocks \cup {Void}
  PROVE  HeapInv'
<1> USE DEF HeapInv, TypeOK, Written
<1>1. Leaving' = {}
  BY WritingSets
<1>2. DropsOnce' /\ todo' \in Seq(Task)
  BY TailSets, TailTasks
<1>3. depth' = depth
  BY DEF depth
<1>4. TasksFit'
  <2>1. \A l \in Locs : mem[l] \in Blocks \cup {Void} => mem'[l] \in Blocks \cup {Void}
    OBVIOUS
  <2>2. Stay
    OBVIOUS
  <2> HIDE DEF HeapInv, TypeOK, Written
  <2> QED BY <1>1, <1>3, <2>1, <2>2, TailFits
<1>5. RefsAnchored'
  BY RefsKept
<1>6. TypeOK'
  BY <1>2, <1>3
<1> QED BY <1>2, <1>4, <1>5, <1>6

LEMMA CopyValueInv == HeapInv /\ CopyValue => HeapInv'
<1> SUFFICES ASSUME HeapInv, CopyValue PROVE HeapInv'
  OBVIOUS
<1> PICK l, f : l = todo[1].to /\ f = todo[1].from
  OBVIOUS
<1> PICK v : v = mem[f]
  OBVIOUS
<1>1. /\ todo # <<>> /\ Head1 = todo[1] /\ todo[1].do = "copy" /\ todo[1] \in Task
      /\ 1 \in DOMAIN todo /\ ~Drops(1) /\ todo' = Tail(todo)
      /\ rets' = rets /\ pending' = pending
      /\ CopyShared(l, v) \/ CopyOwned(l, v) \/ CopyPlain(l, v)
  BY RunningFirst DEF CopyValue
<1>2. /\ l \in Locs /\ (l \in Slots \/ kind[l[1]] = "counted")
      /\ f \in Locs /\ v \in Blocks \cup {Void}
  <2>1. l \in Locs /\ f \in Locs
    BY <1>1, TaskCases
  <2>2. Secure(l) /\ v \in Blocks \cup {Void}
    BY <1>1 DEF HeapInv, TasksFit
  <2> QED BY <2>1, <2>2 DEF Secure
<1>3. Leaving = {} /\ Leaving' = {} /\ Scheduled' \subseteq Scheduled
  BY <1>1, WritingSets
<1>4. mem \in [Locs -> Value] /\ l \in Locs /\ v \in Value
  BY <1>1, <1>2, TaskCases, MakesValue DEF HeapInv, TypeOK
<1>5. CASE CopyShared(l, v)
  <2>1. v \in Blocks /\ IsCounted(v) /\ Put(l, v) /\ kind' = kind /\ cnt' = [cnt EXCEPT ![v] = @ + 1]
    BY <1>5 DEF CopyShared, IsCounted
  <2>2. Written
    BY <1>2, <1>3, <1>4, <2>1, PutStep
  <2>3. \A x \in Locs : mem'[x] = mem[x] \/ mem'[x] \in Blocks \cup {Void}
    BY <1>4, <2>1 DEF Put
  <2> QED BY <1>1, <2>2, <2>3, WrittenTail
<1>6. CASE CopyOwned(l, v)
  <2>1. PICK b \in Blocks : Alloc(b, "owned", l)
    BY <1>6 DEF CopyOwned
  <2>2. Written /\ mem' = [mem EXCEPT ![l] = b]
    BY <1>2, <1>3, <1>4, <2>1, AllocStep
  <2>3. \A x \in Locs : mem'[x] = mem[x] \/ mem'[x] \in Blocks \cup {Void}
    BY <1>4, <2>2
  <2> QED BY <1>1, <2>2, <2>3, WrittenTail
<1>7. CASE CopyPlain(l, v)
  <2>1. v = Void /\ v \notin Blocks /\ Put(l, v) /\ kind' = kind /\ cnt' = cnt
    BY <1>2, <1>7 DEF CopyPlain
  <2>2. Written
    BY <1>2, <1>3, <1>4, <2>1, PutStep
  <2>3. \A x \in Locs : mem'[x] = mem[x] \/ mem'[x] \in Blocks \cup {Void}
    BY <1>4, <2>1 DEF Put
  <2> QED BY <1>1, <2>2, <2>3, WrittenTail
<1> QED BY <1>1, <1>5, <1>6, <1>7

(* Nothing is written.                                                     *)
LEMMA SameMemory ==
  ASSUME HeapInv, Leaving = {}, Leaving' = {},
         mem' = mem, kind' = kind, cnt' = cnt, lost' = lost
  PROVE  /\ RefsInSlots' /\ CountExact' /\ KindFits'
         /\ Scheduled' \subseteq Scheduled => Written
<1> USE DEF HeapInv, TypeOK
<1>1. RefsInSlots'
  BY DEF RefsInSlots
<1>2. CountExact'
  BY DEF CountExact, Holders
<1>3. KindFits'
  BY DEF KindFits
<1>4. Scheduled' \subseteq Scheduled => Stay
  <2> SUFFICES ASSUME Scheduled' \subseteq Scheduled PROVE Stay
    OBVIOUS
  <2>1. \A b \in Blocks : Anchored(b) => Anchored(b)'
    BY AnchorsKept
  <2> QED BY <2>1 DEF Stay
<1> QED BY <1>1, <1>2, <1>3, <1>4 DEF Written

LEMMA MakeNothingInv == HeapInv /\ MakeNothing => HeapInv'
<1> SUFFICES ASSUME HeapInv, MakeNothing PROVE HeapInv'
  OBVIOUS
<1>1. /\ todo # <<>> /\ ~Drops(1) /\ todo' = Tail(todo)
      /\ mem' = mem /\ kind' = kind /\ cnt' = cnt /\ lost' = lost
      /\ rets' = rets /\ pending' = pending
  BY RunningFirst DEF MakeNothing
<1>2. Written
  BY <1>1, WritingSets, SameMemory
<1> QED BY <1>1, <1>2, WrittenTail

(* A block is made for a location, and its elements are made next.         *)
Making(l, b, d) ==
  /\ todo # <<>> /\ todo[1].do = "make" /\ l = todo[1].to /\ d \in Nat
  /\ b \in Blocks /\ Alloc(b, "counted", l)
  /\ todo' = MakeElements(b, d) \o Tail(todo)
  /\ rets' = rets /\ pending' = pending

LEMMA MakingTasks ==
  ASSUME HeapInv, NEW l, NEW b, NEW d, Making(l, b, d)
  PROVE  /\ todo' \in Seq(Task) /\ DOMAIN todo' = 1 .. N + Len(todo) - 1
         /\ Len(todo') = N + Len(todo) - 1
         /\ \A j \in DOMAIN todo' :
              \/ todo'[j] = Make(<<b, j>>, d) /\ j \in 1 .. N
              \/ \E i \in 2 .. Len(todo) : j = N + i - 1 /\ todo'[j] = todo[i]
         /\ Leaving = {} /\ Leaving' = {} /\ Scheduled = {} /\ Scheduled' = {}
         /\ DropsOnce'
<1> USE DEF HeapInv, TypeOK
<1> DEFINE new == MakeElements(b, d)
<1>1. /\ new \in Seq(Task) /\ Len(new) = N /\ N \in Nat
      /\ \A i \in 1 .. N : new[i] = Make(<<b, i>>, d)
  BY ElementTasks, HeapAssumption DEF Making
<1>2. todo # <<>> /\ todo \in Seq(Task) /\ todo' = new \o Tail(todo) /\ b \in Blocks /\ d \in Nat
  BY DEF Making
<1> HIDE DEF new
<1>3. /\ todo' \in Seq(Task) /\ Len(todo) \in Nat \ {0}
      /\ Len(todo') = Len(new) + Len(todo) - 1
      /\ DOMAIN todo' = 1 .. Len(new) + Len(todo) - 1
      /\ \A i \in 1 .. Len(new) : todo'[i] = new[i]
      /\ \A i \in 2 .. Len(todo) : todo'[Len(new) + i - 1] = todo[i]
  BY <1>1, <1>2, MoreTasks
<1>4. ASSUME NEW j \in DOMAIN todo'
      PROVE  \/ todo'[j] = Make(<<b, j>>, d) /\ j \in 1 .. N
             \/ \E i \in 2 .. Len(todo) : j = N + i - 1 /\ todo'[j] = todo[i]
  <2>1. j \in 1 .. N + Len(todo) - 1
    BY <1>1, <1>3
  <2>2. CASE j \in 1 .. N
    BY <1>1, <1>3, <2>2
  <2>3. CASE j \notin 1 .. N
    <3>1. j - N + 1 \in 2 .. Len(todo) /\ j = N + (j - N + 1) - 1
      BY <1>1, <1>3, <2>1, <2>3
    <3> QED BY <1>1, <1>3, <3>1
  <2> QED BY <2>2, <2>3
<1>5. DOMAIN todo = 1 .. Len(todo) /\ todo[1].do = "make" /\ 1 \in DOMAIN todo
  BY Tasks DEF Making
<1>6. Scheduled = {}
  BY <1>5 DEF TasksFit
<1>7. Leaving = {}
  BY <1>6, LeavingScheduled
<1>8. \A i \in 1 .. N : Make(<<b, i>>, d).do = "make"
  BY <1>2, MakesTask, ElemLoc
<1>9. \A i \in DOMAIN todo : ~Drops(i)
  BY <1>6 DEF Scheduled
<1>10. ASSUME NEW j \in DOMAIN todo'
       PROVE  ~Drops(j)'
  <2>1. CASE todo'[j] = Make(<<b, j>>, d) /\ j \in 1 .. N
    <3>1. todo'[j].do = "make"
      BY <1>8, <2>1
    <3> QED BY <3>1 DEF Drops
  <2>2. ASSUME NEW i \in 2 .. Len(todo), todo'[j] = todo[i]
        PROVE  ~Drops(j)'
    <3>1. i \in DOMAIN todo
      BY <1>5
    <3>2. ~Drops(i)
      BY <1>9, <3>1
    <3> QED BY <2>2, <3>2 DEF Drops
  <2> QED BY <1>4, <2>1, <2>2
<1>11. Scheduled' = {} /\ DropsOnce'
  BY <1>10 DEF Scheduled, DropsOnce
<1>12. Leaving' = {}
  BY <1>10 DEF Leaving, Drops
<1> QED BY <1>1, <1>3, <1>4, <1>6, <1>7, <1>11, <1>12

LEMMA MakingInv ==
  ASSUME HeapInv, NEW l, NEW b, NEW d, Making(l, b, d)
  PROVE  HeapInv'
<1> USE DEF HeapInv, TypeOK
<1>1. /\ todo' \in Seq(Task) /\ DOMAIN todo' = 1 .. N + Len(todo) - 1
      /\ Len(todo') = N + Len(todo) - 1
      /\ \A j \in DOMAIN todo' :
           \/ todo'[j] = Make(<<b, j>>, d) /\ j \in 1 .. N
           \/ \E i \in 2 .. Len(todo) : j = N + i - 1 /\ todo'[j] = todo[i]
      /\ Leaving = {} /\ Leaving' = {} /\ Scheduled = {} /\ Scheduled' = {}
      /\ DropsOnce'
  BY MakingTasks
<1>2. /\ DOMAIN todo = 1 .. Len(todo) /\ Len(todo) \in Nat /\ 1 \in DOMAIN todo
      /\ \A i \in DOMAIN todo : todo[i] \in Task
      /\ b \in Blocks /\ d \in Nat
  BY Tasks DEF Making
<1>3. l \in Locs /\ Secure(l)
  <2>1. todo[1] \in Task /\ todo[1].do = "make" /\ l = todo[1].to
    BY <1>2 DEF Making
  <2> QED BY <1>2, <2>1, TaskCases DEF TasksFit
<1>4. Written /\ mem' = [mem EXCEPT ![l] = b] /\ kind'[b] = "counted" /\ kind[b] = "free"
  <2>1. Alloc(b, "counted", l)
    BY DEF Making
  <2>2. l \in Slots \/ kind[l[1]] = "counted"
    BY <1>3 DEF Secure
  <2> HIDE DEF HeapInv, TypeOK
  <2> QED BY <1>1, <1>2, <1>3, <2>1, <2>2, AllocStep
<1>5. Stay
  BY <1>4 DEF Written
<1>6. Anchored(b)'
  <2>1. Secure(l)'
    BY <1>3, <1>5, SecureKept
  <2> SUFFICES ASSUME NEW U \in SUBSET Blocks, b \in U
               PROVE  Entered(U)'
    BY DEF Anchored
  <2>2. mem'[l] = b /\ l \in Locs \ Scheduled'
    BY <1>1, <1>3, <1>4
  <2>3. CASE l \in Slots \/ l[1] \notin U
    BY <2>2, <2>3 DEF Entered
  <2>4. CASE l \notin Slots /\ l[1] \in U
    BY <2>1, <2>4 DEF Secure, Anchored
  <2> QED BY <2>3, <2>4
<1>7. ASSUME NEW k \in 1 .. N
      PROVE  /\ Make(<<b, k>>, d).do = "make" /\ Make(<<b, k>>, d).to = <<b, k>>
             /\ Secure(<<b, k>>)'
  <2>1. <<b, k>> \in Locs /\ <<b, k>>[1] = b
    BY <1>2, ElemLoc
  <2> QED BY <1>2, <1>4, <1>6, <2>1, MakesTask DEF Secure
<1>8. rets' = rets /\ pending' = pending /\ depth' = depth
  BY DEF Making, depth
<1>9. ASSUME NEW j \in DOMAIN todo'
      PROVE  /\ ~Drops(j)' /\ todo'[j].do # "release"
             /\ todo'[j].do \in {"copy", "make"} => Secure(todo[j].to)'
             /\ todo'[j].do = "copy" => Secure(todo[j].from)' /\ mem'[todo'[j].from] \in Blocks \cup {Void}
             /\ todo'[j].do = "make" => Scheduled' = {}
             /\ todo'[j].do = "leave" => j = Len(todo') /\ depth' > 0 /\ pending' = None
  <2>1. ~Drops(j)'
    <3> SUFFICES ASSUME Drops(j)' PROVE FALSE
      OBVIOUS
    <3>1. todo'[j].to \in Scheduled'
      BY DEF Scheduled
    <3> QED BY <1>1, <3>1
  <2>2. todo'[j].do # "release"
    BY <2>1 DEF Drops
  <2>3. CASE todo'[j] = Make(<<b, j>>, d) /\ j \in 1 .. N
    <3>1. todo'[j].do = "make" /\ todo'[j].to = <<b, j>>
      BY <1>7, <2>3
    <3>2. Secure(todo[j].to)'
      BY <1>7, <2>3, <3>1 DEF Secure, Anchored
    <3> QED BY <1>1, <2>1, <2>2, <3>1, <3>2
  <2>4. ASSUME NEW i \in 2 .. Len(todo), j = N + i - 1, todo'[j] = todo[i]
        PROVE  /\ todo'[j].do \in {"copy", "make"} => Secure(todo[j].to)'
               /\ todo'[j].do = "copy" => Secure(todo[j].from)' /\ mem'[todo'[j].from] \in Blocks \cup {Void}
               /\ todo'[j].do = "leave" => j = Len(todo') /\ depth' > 0 /\ pending' = None
    <3> PICK t : t = todo[i]
      OBVIOUS
    <3>1. todo'[j] = t /\ t \in Task /\ i \in DOMAIN todo
      BY <1>2, <2>4
    <3>2. /\ t.do \in {"copy", "make"} => Secure(t.to)
          /\ t.do = "copy" => Secure(t.from) /\ mem[t.from] \in Blocks \cup {Void}
          /\ t.do = "leave" => i = Len(todo) /\ depth > 0 /\ pending = None
      BY <3>1 DEF TasksFit
    <3>3. /\ t.do \in {"copy", "make"} => t.to \in Locs
          /\ t.do = "copy" => t.from \in Locs
      BY <3>1, TaskCases
    <3>4. t.do \in {"copy", "make"} => Secure(t.to)'
      BY <1>5, <3>2, <3>3, SecureKept
    <3>5. t.do = "copy" => Secure(t.from)'
      BY <1>5, <3>2, <3>3, SecureKept
    <3>6. todo'[j].do \in {"copy", "make"} => Secure(todo[j].to)'
      BY <3>1, <3>4 DEF Secure, Anchored
    <3>7. todo'[j].do = "copy" => Secure(todo[j].from)'
      BY <3>1, <3>5 DEF Secure, Anchored
    <3>8. todo'[j].do = "copy" => mem'[todo'[j].from] \in Blocks \cup {Void}
      BY <1>2, <1>4, <3>1, <3>2, <3>3
    <3>9. i = Len(todo) => j = Len(todo')
      BY <1>1, <2>4
    <3> QED BY <1>8, <3>1, <3>2, <3>6, <3>7, <3>8, <3>9
  <2> QED BY <1>1, <2>1, <2>2, <2>3, <2>4
<1>10. TasksFit'
  BY <1>9 DEF TasksFit
<1>11. RefsAnchored'
  <2>1. mem' \in [Locs -> Value] /\ \A x \in Locs : mem'[x] = mem[x] \/ mem'[x] \in Blocks \cup {Void}
    BY <1>2, <1>4 DEF Written
  <2> QED BY <1>5, <1>8, <2>1, RefsKept
<1>12. TypeOK'
  BY <1>1, <1>4, <1>8 DEF Written
<1> QED BY <1>1, <1>4, <1>10, <1>11, <1>12 DEF Written

LEMMA MakeBlockInv == HeapInv /\ MakeBlock => HeapInv'
<1> SUFFICES ASSUME HeapInv, MakeBlock PROVE HeapInv'
  OBVIOUS
<1>1. /\ todo # <<>> /\ Head1 = todo[1] /\ todo[1].do = "make" /\ todo[1] \in Task
  BY RunningFirst DEF MakeBlock
<1>2. todo[1].dims \in Nat /\ todo[1].dims > 0
  BY <1>1, TaskCases DEF MakeBlock
<1>3. PICK b \in Blocks : /\ Alloc(b, "counted", todo[1].to)
                          /\ todo' = MakeElements(b, todo[1].dims - 1) \o Tail(todo)
  BY <1>1 DEF MakeBlock
<1> PICK l, d : l = todo[1].to /\ d = todo[1].dims - 1
  OBVIOUS
<1>4. rets' = rets /\ pending' = pending
  BY DEF MakeBlock
<1>5. d \in Nat
  BY <1>2
<1>6. Making(l, b, d)
  BY <1>1, <1>3, <1>4, <1>5 DEF Making
<1> QED BY <1>6, MakingInv

-------------------------------------------------------------------------------
(* The end of an operation.                                                *)

LEMMA NothingLeft ==
  ASSUME todo' = <<>>
  PROVE  /\ todo' \in Seq(Task) /\ Leaving' = {} /\ Scheduled' = {}
         /\ DropsOnce' /\ TasksFit'
<1>1. DOMAIN todo' = {} /\ todo' \in Seq(Task)
  OBVIOUS
<1> QED BY <1>1 DEF Leaving, Scheduled, DropsOnce, TasksFit

LEMMA DepthNat ==
  ASSUME HeapInv
  PROVE  depth \in 0 .. MaxDepth /\ depth \in Nat /\ MaxDepth \in Nat \ {0}
BY LenProperties, HeapAssumption DEF HeapInv, TypeOK, depth

(* What the frame's parameters held is lost.                               *)
LEMMA LeaveCounts ==
  ASSUME HeapInv, Leaving = {}, Leaving' = {}, NEW S \in SUBSET Locs,
         lost' = Lost(S), mem' = [l \in Locs |-> IF l \in S THEN Void ELSE mem[l]]
  PROVE  /\ lost' \in [Blocks -> Nat]
         /\ \A b \in Blocks : /\ lost[b] > 0 => lost'[b] > 0
                              /\ \A l \in S : mem[l] = b => lost'[b] > 0
                              /\ Cardinality(Holders(b)') + lost'[b] = Cardinality(Holders(b)) + lost[b]
<1> DEFINE Given(b) == {l \in S : mem[l] = b}
<1>1. ASSUME NEW b \in Blocks
      PROVE  /\ IsFiniteSet(Given(b)) /\ Cardinality(Given(b)) \in Nat
             /\ lost'[b] = lost[b] + Cardinality(Given(b)) /\ lost[b] \in Nat
             /\ Given(b) # {} => Cardinality(Given(b)) > 0
  <2>1. IsFiniteSet(Given(b))
    BY LocsFinite, FS_Subset
  <2>2. lost'[b] = lost[b] + Cardinality(Given(b)) /\ lost[b] \in Nat
    BY DEF Lost, HeapInv, TypeOK
  <2> QED BY <2>1, <2>2, FS_CardinalityType, FS_EmptySet
<1>2. lost' \in [Blocks -> Nat]
  <2>1. \A b \in Blocks : lost'[b] \in Nat
    <3> HIDE DEF Given
    <3> QED BY <1>1
  <2>2. lost' = [b \in Blocks |-> lost[b] + Cardinality({l \in S : mem[l] = b})]
    BY DEF Lost
  <2> QED BY <2>1, <2>2
<1>3. ASSUME NEW b \in Blocks
      PROVE  /\ lost[b] > 0 => lost'[b] > 0
             /\ \A l \in S : mem[l] = b => lost'[b] > 0
  <2>1. ASSUME NEW l \in S, mem[l] = b
        PROVE  Cardinality(Given(b)) > 0
    <3>1. l \in Given(b)
      BY <2>1
    <3> QED BY <1>1, <3>1
  <2> HIDE DEF Given
  <2> QED BY <1>1, <2>1
<1>4. ASSUME NEW b \in Blocks
      PROVE  Cardinality(Holders(b)') + lost'[b] = Cardinality(Holders(b)) + lost[b]
  <2> DEFINE H == Holders(b)
  <2>1. H = {x \in Locs : mem[x] = b} /\ Holders(b)' = {x \in Locs : mem'[x] = b}
    BY DEF Holders
  <2>2. b # Void
    BY HeapAssumption
  <2>3. Holders(b)' = H \ Given(b) /\ H \cap Given(b) = Given(b)
    BY <2>1, <2>2
  <2>4. IsFiniteSet(H) /\ Cardinality(H) \in Nat
    BY HoldersFinite
  <2> HIDE DEF H, Given
  <2>5. Cardinality(H \ Given(b)) = Cardinality(H) - Cardinality(H \cap Given(b))
    BY <2>4, FS_Difference
  <2>6. Cardinality(Holders(b)') = Cardinality(H) - Cardinality(Given(b))
    BY <2>3, <2>5
  <2>7. Cardinality(Holders(b)') + lost'[b] = Cardinality(H) + lost[b]
    BY <1>1, <2>4, <2>6
  <2> QED BY <2>7 DEF H
<1> QED BY <1>2, <1>3, <1>4

LEMMA LeaveFrameInv == HeapInv /\ LeaveFrame => HeapInv'
<1> SUFFICES ASSUME HeapInv, LeaveFrame PROVE HeapInv'
  OBVIOUS
<1> USE DEF HeapInv, TypeOK
<1>1. /\ todo # <<>> /\ todo[1].do = "leave" /\ 1 \in DOMAIN todo /\ ~Drops(1)
      /\ todo' = Tail(todo)
  <2>1. Running("leave") /\ todo' = Tail(todo)
    BY DEF LeaveFrame
  <2> HIDE DEF HeapInv, TypeOK
  <2> QED BY <2>1, RunningFirst
<1>2. 1 = Len(todo) /\ depth > 0 /\ pending = None
  BY <1>1 DEF TasksFit
<1>3. todo' = <<>>
  <2>1. todo' \in Seq(Task) /\ Len(todo') = 0
    BY <1>1, <1>2, TailTasks
  <2> QED BY <2>1, EmptySeq
<1>4. Leaving = {} /\ Leaving' = {} /\ Scheduled' = {} /\ DropsOnce' /\ TasksFit' /\ todo' \in Seq(Task)
  BY <1>1, <1>3, NoRelease, NothingLeft
<1> PICK S : S = SlotsOf(Params)
  OBVIOUS
<1>5. S \subseteq Slots /\ S \subseteq Locs
  BY DepthNat, NamesAreNames DEF SlotsOf, Slot, Slots, Locs
<1>6. lost' = Lost(S) /\ mem' = [l \in Locs |-> IF l \in S THEN Void ELSE mem[l]]
      /\ kind' = kind /\ cnt' = cnt /\ pending' = pending
      /\ rets' = SubSeq(rets, 1, depth - 1)
  BY DEF LeaveFrame
<1>7. /\ lost' \in [Blocks -> Nat]
      /\ \A b \in Blocks : /\ lost[b] > 0 => lost'[b] > 0
                           /\ \A l \in S : mem[l] = b => lost'[b] > 0
                           /\ Cardinality(Holders(b)') + lost'[b] = Cardinality(Holders(b)) + lost[b]
  <2> HIDE DEF HeapInv, TypeOK
  <2> QED BY <1>4, <1>5, <1>6, LeaveCounts
<1>8. mem' \in [Locs -> Value] /\ \A l \in Locs : mem'[l] = IF l \in S THEN Void ELSE mem[l]
  BY <1>6, MakesValue
<1>9. rets' \in Seq(NamesOf(Tmps)) /\ depth' <= MaxDepth
  <2>1. depth \in Nat \ {0} /\ depth <= MaxDepth /\ MaxDepth \in Nat
    BY <1>2, DepthNat
  <2>2. \A i \in 1 .. depth - 1 : rets[i] \in NamesOf(Tmps)
    BY <2>1, ElementOfSeq DEF depth
  <2>3. rets' \in Seq(NamesOf(Tmps)) /\ Len(rets') = IF 1 <= depth - 1 THEN depth - 1 - 1 + 1 ELSE 0
    BY <1>6, <2>1, <2>2, SubSeqProperties
  <2> QED BY <2>1, <2>3 DEF depth
<1>10. TypeOK'
  BY <1>4, <1>6, <1>7, <1>8, <1>9
<1>11. RefsInSlots'
  BY <1>8 DEF RefsInSlots
<1>12. CountExact'
  BY <1>6, <1>7 DEF CountExact
<1>13. KindFits'
  <2>1. \A b \in Blocks, k \in 1 .. N : mem'[<<b, k>>] = mem[<<b, k>>]
    BY <1>5, <1>8, ElemLoc
  <2> QED BY <1>4, <1>6, <2>1 DEF KindFits
<1>14. RefsAnchored'
  BY <1>2, <1>6 DEF RefsAnchored
<1> QED BY <1>4, <1>10, <1>11, <1>12, <1>13, <1>14

LEMMA WorkInv == HeapInv /\ Work => HeapInv'
BY DropPlainInv, DropOwnedInv, DropSharedInv, DropLastInv, ReleaseBlockInv,
   CopyValueInv, MakeNothingInv, MakeBlockInv, LeaveFrameInv DEF Work

-------------------------------------------------------------------------------
(* Statements: no operation is running when one begins.                    *)

LEMMA ReadySets ==
  ASSUME HeapInv, Ready
  PROVE  /\ todo = <<>> /\ Leaving = {} /\ Scheduled = {}
         /\ depth \in 1 .. MaxDepth /\ depth \in Nat /\ MaxDepth \in Nat
         /\ Sources \subseteq Slots \ RefSlots /\ Sources \subseteq Locs
         /\ Results \subseteq Sources /\ Places \subseteq Sources
         /\ \A s \in Sources : mem[s] \in Blocks \cup {Void}
<1>1. todo = <<>> /\ Leaving = {} /\ Scheduled = {}
  <2>1. todo = <<>>
    BY DEF Ready
  <2> QED BY <2>1 DEF Leaving, Scheduled
<1>2. depth \in 1 .. MaxDepth /\ depth \in Nat /\ MaxDepth \in Nat
  BY DepthNat DEF Ready
<1>3. /\ Sources \subseteq Slots \ RefSlots /\ Sources \subseteq Locs
      /\ Results \subseteq Sources /\ Places \subseteq Sources
  BY DepthNat, SourcesApart
<1>4. \A s \in Sources : mem[s] \in Blocks \cup {Void}
  BY <1>3 DEF HeapInv, RefsInSlots
<1> QED BY <1>1, <1>2, <1>3, <1>4

(* A statement that writes is over at once.                                *)
LEMMA WriteStatement ==
  ASSUME HeapInv, Ready, Written, todo' = todo, rets' = rets,
         pending' \in RefSlots \cup {None}, RefsAnchored'
  PROVE  HeapInv'
<1>1. todo' = <<>> /\ depth' = depth
  BY DEF Ready, depth
<1>2. todo' \in Seq(Task) /\ DropsOnce' /\ TasksFit'
  BY <1>1, NothingLeft
<1>3. TypeOK'
  BY <1>1, <1>2 DEF HeapInv, TypeOK, Written
<1> QED BY <1>2, <1>3 DEF HeapInv, Written

LEMMA ReadyWrites ==
  ASSUME HeapInv, Ready, todo' = todo
  PROVE  Leaving = {} /\ Leaving' = {} /\ Scheduled' \subseteq Scheduled
<1>1. todo' = <<>>
  BY DEF Ready
<1> QED BY <1>1, ReadySets, NothingLeft

LEMMA PlainInv == HeapInv /\ Plain => HeapInv'
<1> SUFFICES ASSUME HeapInv, Plain PROVE HeapInv'
  OBVIOUS
<1>1. PICK t \in Results : /\ Ready /\ Put(t, Void) /\ pending' = pending
                           /\ kind' = kind /\ cnt' = cnt /\ todo' = todo /\ rets' = rets
  BY DEF Plain, Using
<1>2. t \in Slots /\ t \in Locs /\ Void \in Value /\ Void \notin Blocks
  BY <1>1, ReadySets, MakesValue, HeapAssumption
<1>3. Leaving = {} /\ Leaving' = {} /\ Scheduled' \subseteq Scheduled
  BY <1>1, ReadyWrites
<1>4. Written
  BY <1>1, <1>2, <1>3, PutStep
<1>5. \A x \in Locs : mem'[x] = mem[x] \/ mem'[x] \in Blocks \cup {Void}
  BY <1>1, <1>2 DEF Put, HeapInv, TypeOK
<1>6. RefsAnchored'
  BY <1>1, <1>4, <1>5, RefsKept DEF HeapInv, TypeOK, Written
<1>7. pending' \in RefSlots \cup {None}
  BY <1>1 DEF HeapInv, TypeOK
<1> QED BY <1>1, <1>4, <1>6, <1>7, WriteStatement

LEMMA NewOwnedInv == HeapInv /\ NewOwned => HeapInv'
<1> SUFFICES ASSUME HeapInv, NewOwned PROVE HeapInv'
  OBVIOUS
<1>1. PICK t \in Results, b \in Blocks : /\ Ready /\ Alloc(b, "owned", t) /\ pending' = pending
                                         /\ todo' = todo /\ rets' = rets
  BY DEF NewOwned, Using
<1>2. t \in Slots /\ t \in Locs
  BY <1>1, ReadySets
<1>3. Leaving = {} /\ Leaving' = {} /\ Scheduled' \subseteq Scheduled
  BY <1>1, ReadyWrites
<1>4. Written /\ mem' = [mem EXCEPT ![t] = b]
  BY <1>1, <1>2, <1>3, AllocStep
<1>5. \A x \in Locs : mem'[x] = mem[x] \/ mem'[x] \in Blocks \cup {Void}
  BY <1>2, <1>4 DEF HeapInv, TypeOK
<1>6. RefsAnchored'
  BY <1>1, <1>4, <1>5, RefsKept DEF HeapInv, TypeOK, Written
<1>7. pending' \in RefSlots \cup {None}
  BY <1>1 DEF HeapInv, TypeOK
<1> QED BY <1>1, <1>4, <1>6, <1>7, WriteStatement

(* The error that is forgotten is counted, and lost.                       *)
LEMMA MismatchInv == HeapInv /\ Mismatch => HeapInv'
<1> SUFFICES ASSUME HeapInv, Mismatch PROVE HeapInv'
  OBVIOUS
<1>1. PICK t \in Results, b \in Free :
        /\ Ready
        /\ kind' = [kind EXCEPT ![b] = "owned"]
        /\ cnt' = [cnt EXCEPT ![b] = 1]
        /\ mem' = [mem EXCEPT ![t] = Void]
        /\ lost' = [Lost({t}) EXCEPT ![b] = @ + 1]
        /\ pending' = None
        /\ todo' = todo /\ rets' = rets
  BY DEF Mismatch, Settled
<1> USE DEF HeapInv, TypeOK
<1>2. t \in Slots /\ t \in Locs /\ b \in Blocks /\ kind[b] = "free" /\ cnt[b] = 0
  <2>1. b \in Blocks /\ kind[b] = "free"
    BY DEF Free
  <2> QED BY <1>1, <2>1, ReadySets DEF KindFits
<1>3. Leaving = {} /\ Leaving' = {} /\ Scheduled' \subseteq Scheduled
  BY <1>1, ReadyWrites
<1>4. /\ Lost({t}) \in [Blocks -> Nat]
      /\ \A c \in Blocks : Lost({t})[c] = lost[c] + (IF mem[t] = c THEN 1 ELSE 0)
  BY LostOne
<1>5. /\ lost' \in [Blocks -> Nat]
      /\ \A c \in Blocks : lost'[c] = lost[c] + (IF mem[t] = c THEN 1 ELSE 0) + (IF c = b THEN 1 ELSE 0)
  <2>1. \A c \in Blocks : lost'[c] = IF c = b THEN Lost({t})[c] + 1 ELSE Lost({t})[c]
    BY <1>1, <1>2, <1>4
  <2>2. \A c \in Blocks : lost[c] \in Nat
    OBVIOUS
  <2>3. \A c \in Blocks : Lost({t})[c] \in Nat /\ Lost({t})[c] + 1 \in Nat
    <3> TAKE c \in Blocks
    <3>1. Lost({t})[c] \in Nat
      BY <1>4
    <3> QED BY <3>1
  <2>4. lost' \in [Blocks -> Nat]
    BY <1>1, <1>2, <1>4, <2>3
  <2> SUFFICES ASSUME NEW c \in Blocks
               PROVE  lost'[c] = lost[c] + (IF mem[t] = c THEN 1 ELSE 0) + (IF c = b THEN 1 ELSE 0)
    BY <2>4
  <2>5. /\ lost'[c] = IF c = b THEN Lost({t})[c] + 1 ELSE Lost({t})[c]
        /\ Lost({t})[c] = lost[c] + (IF mem[t] = c THEN 1 ELSE 0) /\ lost[c] \in Nat
    BY <1>4, <2>1, <2>2
  <2>6. CASE c = b
    BY <2>5, <2>6
  <2>7. CASE c # b
    BY <2>5, <2>7
  <2> QED BY <2>6, <2>7
<1>6. /\ mem' \in [Locs -> Value] /\ \A x \in Locs : mem'[x] = IF x = t THEN Void ELSE mem[x]
      /\ kind' \in [Blocks -> {"free", "counted", "owned"}]
      /\ \A c \in Blocks : kind'[c] = IF c = b THEN "owned" ELSE kind[c]
      /\ cnt' \in [Blocks -> Nat] /\ \A c \in Blocks : cnt'[c] = IF c = b THEN 1 ELSE cnt[c]
  BY <1>1, <1>2, MakesValue
<1>7. RefsInSlots'
  BY <1>6 DEF RefsInSlots
<1>8. CountExact'
  <2> SUFFICES ASSUME NEW c \in Blocks
               PROVE  cnt'[c] = Cardinality(Holders(c)') + lost'[c]
    BY DEF CountExact
  <2>1. cnt[c] = Cardinality(Holders(c)) + lost[c]
    BY DEF CountExact
  <2>2. Cardinality(Holders(c)) \in Nat /\ lost[c] \in Nat /\ Void # c
    BY HoldersFinite, HeapAssumption
  <2>3. Cardinality(Holders(c)') = Cardinality(Holders(c)) - (IF mem[t] = c THEN 1 ELSE 0)
    <3>1. Cardinality(Holders(c)') = Cardinality(Holders(c)) + (IF Void = c THEN 1 ELSE 0)
                                                             - (IF mem[t] = c THEN 1 ELSE 0)
      BY <1>1, <1>2, <1>3, HeldAfter
    <3> QED BY <2>2, <3>1
  <2>4. cnt'[c] = cnt[c] + (IF c = b THEN 1 ELSE 0)
    BY <1>2, <1>6, <2>1, <2>2
  <2> QED BY <1>5, <2>1, <2>2, <2>3, <2>4
<1>9. KindFits'
  <2> SUFFICES ASSUME NEW c \in Blocks
               PROVE  /\ kind'[c] = "free" => cnt'[c] = 0
                      /\ kind'[c] = "owned" => cnt'[c] = 1
                      /\ kind'[c] = "counted" => cnt'[c] > 0
                      /\ kind'[c] # "counted" => \A k \in 1 .. N : mem'[<<c, k>>] = Void
    BY DEF KindFits
  <2>1. /\ kind[c] = "free" => cnt[c] = 0
        /\ kind[c] = "owned" => cnt[c] = 1
        /\ kind[c] = "counted" => cnt[c] > 0
        /\ kind[c] # "counted" => \A k \in 1 .. N : mem[<<c, k>>] = Void
    BY <1>3 DEF KindFits
  <2>2. kind'[c] # "counted" => \A k \in 1 .. N : mem'[<<c, k>>] = Void
    BY <1>2, <1>6, <2>1, ElemLoc
  <2> QED BY <1>2, <1>6, <2>1, <2>2
<1>10. todo' = <<>> /\ depth' = depth
  BY <1>1 DEF Ready, depth
<1>11. todo' \in Seq(Task) /\ DropsOnce' /\ TasksFit'
  BY <1>10, NothingLeft
<1>12. TypeOK'
  BY <1>1, <1>5, <1>6, <1>10, <1>11
<1>13. RefsAnchored'
  BY <1>1 DEF RefsAnchored
<1> QED BY <1>7, <1>8, <1>9, <1>11, <1>12, <1>13

(* A statement that starts an operation: nothing is written yet.           *)
Begins ==
  /\ Ready
  /\ mem' = mem /\ kind' = kind /\ cnt' = cnt /\ lost' = lost
  /\ todo' \in Seq(Task)
  /\ \A i \in DOMAIN todo' : todo'[i].do # "release"

LEMMA BeginStatement ==
  ASSUME HeapInv, Begins, rets' \in Seq(NamesOf(Tmps)), depth' <= MaxDepth,
         pending' \in RefSlots \cup {None}, TasksFit', DropsOnce', RefsAnchored'
  PROVE  HeapInv'
<1>1. Leaving = {}
  BY ReadySets DEF Begins
<1>2. Leaving' = {}
  BY DEF Begins, Leaving
<1>3. RefsInSlots' /\ CountExact' /\ KindFits'
  BY <1>1, <1>2, SameMemory DEF Begins
<1>4. TypeOK'
  BY DEF Begins, HeapInv, TypeOK
<1> QED BY <1>3, <1>4 DEF HeapInv

(* No drop is scheduled: what was to stay is to stay.                      *)
LEMMA BeginNoDrop ==
  ASSUME HeapInv, Begins, \A i \in DOMAIN todo' : todo'[i].do # "drop"
  PROVE  Scheduled' = {} /\ DropsOnce' /\ Stay
<1>1. \A i \in DOMAIN todo' : ~Drops(i)'
  BY DEF Begins, Drops
<1>2. Scheduled' = {} /\ Leaving' = {} /\ DropsOnce'
  BY <1>1 DEF Scheduled, Leaving, DropsOnce, Drops
<1>3. Leaving = {} /\ Scheduled' \subseteq Scheduled
  BY <1>2, ReadySets DEF Begins
<1>4. Written
  BY <1>2, <1>3, SameMemory DEF Begins
<1> QED BY <1>2, <1>4 DEF Written

LEMMA BeginOne ==
  ASSUME HeapInv, Ready, mem' = mem, kind' = kind, cnt' = cnt, lost' = lost,
         NEW t \in Task, todo' = <<t>>, t.do \in {"copy", "make"}, Secure(t.to),
         t.do = "copy" => Secure(t.from) /\ mem[t.from] \in Blocks \cup {Void},
         rets' = rets, pending' \in {pending, None}
  PROVE  HeapInv'
<1>1. todo' \in Seq(Task) /\ DOMAIN todo' = {1} /\ todo'[1] = t
  OBVIOUS
<1>2. Begins /\ \A i \in DOMAIN todo' : todo'[i].do # "drop"
  BY <1>1 DEF Begins
<1>3. Scheduled' = {} /\ DropsOnce' /\ Stay
  BY <1>2, BeginNoDrop
<1>4. t.to \in Locs /\ (t.do = "copy" => t.from \in Locs)
  BY TaskCases
<1>5. Secure(t.to)' /\ (t.do = "copy" => Secure(t.from)')
  BY <1>3, <1>4, SecureKept
<1>6. ASSUME NEW i \in DOMAIN todo'
      PROVE  /\ ~Drops(i)' /\ todo'[i].do # "release" /\ todo'[i].do # "leave"
             /\ Secure(todo[i].to)'
             /\ todo'[i].do = "copy" => Secure(todo[i].from)' /\ mem'[todo'[i].from] \in Blocks \cup {Void}
  <2>1. todo'[i] = t
    BY <1>1
  <2>2. ~Drops(i)' /\ todo'[i].do # "release" /\ todo'[i].do # "leave"
    BY <2>1 DEF Drops
  <2>3. Secure(todo[i].to)'
    BY <1>5, <2>1 DEF Secure, Anchored
  <2>4. t.do = "copy" => Secure(todo[i].from)'
    BY <1>5, <2>1 DEF Secure, Anchored
  <2> QED BY <2>1, <2>2, <2>3, <2>4
<1>7. TasksFit'
  BY <1>3, <1>6 DEF TasksFit
<1>8. pending' \in RefSlots \cup {None} /\ rets' \in Seq(NamesOf(Tmps)) /\ depth' <= MaxDepth
  BY DEF HeapInv, TypeOK, depth
<1>9. RefsAnchored'
  <2>1. CASE pending' = pending
    BY <1>3, <2>1, RefsKept DEF HeapInv, TypeOK
  <2>2. CASE pending' = None
    BY <2>2 DEF RefsAnchored
  <2> QED BY <2>1, <2>2
<1> QED BY <1>2, <1>3, <1>7, <1>8, <1>9, BeginStatement

LEMMA GreaterInv == HeapInv /\ Greater => HeapInv'
<1> SUFFICES ASSUME HeapInv, Greater PROVE HeapInv'
  OBVIOUS
<1>1. PICK t \in Results, s \in Sources :
        /\ Ready /\ todo' = <<Copy(t, s)>> /\ pending' = None
        /\ mem' = mem /\ kind' = kind /\ cnt' = cnt /\ rets' = rets /\ lost' = lost
  BY DEF Greater, Settled
<1>2. t \in Slots /\ s \in Slots /\ t \in Locs /\ s \in Locs /\ mem[s] \in Blocks \cup {Void}
  BY <1>1, ReadySets
<1>3. /\ Copy(t, s) \in Task /\ Copy(t, s).do = "copy" /\ Copy(t, s).to = t
      /\ Copy(t, s).from = s
  BY <1>2, MakesTask
<1>4. Secure(Copy(t, s).to) /\ Secure(Copy(t, s).from)
  BY <1>2, <1>3 DEF Secure
<1> QED BY <1>1, <1>2, <1>3, <1>4, BeginOne

LEMMA MakeValueInv == HeapInv /\ MakeValue => HeapInv'
<1> SUFFICES ASSUME HeapInv, MakeValue PROVE HeapInv'
  OBVIOUS
<1>1. PICK t \in Results, dims \in 0 .. 2 :
        /\ Ready /\ todo' = <<Make(t, dims)>> /\ pending' = None
        /\ mem' = mem /\ kind' = kind /\ cnt' = cnt /\ rets' = rets /\ lost' = lost
  BY DEF MakeValue, Settled
<1>2. t \in Slots /\ t \in Locs /\ dims \in Nat
  BY <1>1, ReadySets
<1>3. Make(t, dims) \in Task /\ Make(t, dims).do = "make" /\ Make(t, dims).to = t
  BY <1>2, MakesTask
<1>4. Secure(Make(t, dims).to)
  BY <1>2, <1>3 DEF Secure
<1> QED BY <1>1, <1>3, <1>4, BeginOne

(* The elements of blocks that stay are in blocks that stay.               *)
LEMMA ElementSecure ==
  ASSUME HeapInv, NEW b \in Blocks, kind[b] = "counted", Anchored(b), NEW k \in 1 .. N
  PROVE  /\ <<b, k>> \in Elems /\ <<b, k>> \in Locs /\ Secure(<<b, k>>)
         /\ mem[<<b, k>>] \in Blocks \cup {Void}
         /\ Scheduled = {} /\ mem[<<b, k>>] \in Blocks => Anchored(mem[<<b, k>>])
<1>1. <<b, k>> \in Elems /\ <<b, k>> \in Locs /\ <<b, k>> \notin Slots /\ <<b, k>>[1] = b
  BY ElemLoc
<1>2. Secure(<<b, k>>)
  BY <1>1 DEF Secure
<1>3. <<b, k>> \notin RefSlots
  BY <1>1, RefSlot
<1>4. mem[<<b, k>>] \in Blocks \cup {Void}
  BY <1>1, <1>3 DEF HeapInv, RefsInSlots
<1>5. Scheduled = {} /\ mem[<<b, k>>] \in Blocks => Anchored(mem[<<b, k>>])
  BY <1>1, AnchoredFrom
<1> QED BY <1>1, <1>2, <1>4, <1>5

LEMMA InsideSecure ==
  ASSUME HeapInv, Scheduled = {}, NEW v, v \in Blocks => Anchored(v), NEW l \in Inside(v)
  PROVE  l \in Elems /\ l \in Locs /\ Secure(l) /\ mem[l] \in Blocks \cup {Void}
<1> DEFINE ElementsOf(u) == IF IsCounted(u) THEN {u} \X (1 .. N) ELSE {}
<1>1. ASSUME NEW u, u \in Blocks => Anchored(u), NEW e \in ElementsOf(u)
      PROVE  /\ e \in Elems /\ e \in Locs /\ Secure(e) /\ mem[e] \in Blocks \cup {Void}
             /\ mem[e] \in Blocks => Anchored(mem[e])
  <2>1. IsCounted(u) /\ \E k \in 1 .. N : e = <<u, k>>
    BY <1>1
  <2> QED BY <1>1, <2>1, ElementSecure DEF IsCounted
<1>2. l \in ElementsOf(v) \cup UNION {ElementsOf(mem[e]) : e \in ElementsOf(v)}
  BY DEF Inside
<1> HIDE DEF ElementsOf
<1>3. CASE l \in ElementsOf(v)
  BY <1>1, <1>3
<1>4. ASSUME NEW e \in ElementsOf(v), l \in ElementsOf(mem[e])
      PROVE  l \in Elems /\ l \in Locs /\ Secure(l) /\ mem[l] \in Blocks \cup {Void}
  <2>1. mem[e] \in Blocks => Anchored(mem[e])
    BY <1>1
  <2> QED BY <1>1, <1>4, <2>1
<1> QED BY <1>2, <1>3, <1>4

LEMMA IndexInv == HeapInv /\ Index => HeapInv'
<1> SUFFICES ASSUME HeapInv, Index PROVE HeapInv'
  OBVIOUS
<1>1. PICK t \in Results, s \in Sources : \E l \in Inside(mem[s]) :
        /\ Ready /\ todo' = <<Copy(t, l)>> /\ pending' = None
        /\ mem' = mem /\ kind' = kind /\ cnt' = cnt /\ rets' = rets /\ lost' = lost
  BY DEF Index, Settled
<1>2. PICK l \in Inside(mem[s]) : Ready /\ todo' = <<Copy(t, l)>>
  BY <1>1
<1>3. t \in Slots /\ s \in Slots /\ t \in Locs /\ s \in Locs /\ Scheduled = {}
  BY <1>1, ReadySets
<1>4. mem[s] \in Blocks => Anchored(mem[s])
  BY <1>3, AnchoredFrom
<1>5. l \in Locs /\ Secure(l) /\ mem[l] \in Blocks \cup {Void}
  BY <1>3, <1>4, InsideSecure
<1>6. /\ Copy(t, l) \in Task /\ Copy(t, l).do = "copy" /\ Copy(t, l).to = t
      /\ Copy(t, l).from = l
  BY <1>3, <1>5, MakesTask
<1>7. Secure(Copy(t, l).to) /\ Secure(Copy(t, l).from)
  BY <1>3, <1>5, <1>6 DEF Secure
<1> QED BY <1>1, <1>2, <1>5, <1>6, <1>7, BeginOne

(* An assignment drops what is there, and copies.                          *)
LEMMA AssignmentTasks ==
  ASSUME NEW l \in Locs, NEW s \in Locs
  PROVE  /\ Assignment(l, s) \in Seq(Task)
         /\ l = s => Assignment(l, s) = <<>>
         /\ l # s => /\ Assignment(l, s) = <<Drop(l), Copy(l, s)>>
                     /\ Len(Assignment(l, s)) = 2
                     /\ Assignment(l, s)[1] = Drop(l) /\ Assignment(l, s)[2] = Copy(l, s)
<1>1. Drop(l) \in Task /\ Copy(l, s) \in Task
  BY MakesTask
<1> QED BY <1>1 DEF Assignment

LEMMA BeginAssignment ==
  ASSUME HeapInv, Ready, mem' = mem, kind' = kind, cnt' = cnt, lost' = lost, rets' = rets,
         pending' \in {pending, None}, RefsAnchored',
         NEW l \in Locs, NEW s \in Sources, todo' = <<Drop(l), Copy(l, s)>>, Secure(l)'
  PROVE  HeapInv'
<1>1. s \in Slots /\ s \in Locs /\ mem[s] \in Blocks \cup {Void}
  BY ReadySets
<1>2. /\ Drop(l) \in Task /\ Drop(l).do = "drop" /\ Drop(l).to = l
      /\ Copy(l, s) \in Task /\ Copy(l, s).do = "copy" /\ Copy(l, s).to = l /\ Copy(l, s).from = s
  BY <1>1, MakesTask
<1>3. /\ todo' \in Seq(Task) /\ DOMAIN todo' = {1, 2}
      /\ todo'[1] = Drop(l) /\ todo'[2] = Copy(l, s)
  BY <1>2
<1>4. Begins
  BY <1>2, <1>3 DEF Begins
<1>5. ~Drops(2)'
  BY <1>2, <1>3 DEF Drops
<1>6. DropsOnce'
  BY <1>3, <1>5 DEF DropsOnce
<1>7. Secure(todo[1].to)' /\ Secure(todo[2].to)' /\ Secure(todo[2].from)'
  <2>1. todo'[1].to = l /\ todo'[2].to = l /\ todo'[2].from = s
    BY <1>2, <1>3
  <2> QED BY <1>1, <2>1 DEF Secure, Anchored
<1>8. ASSUME NEW i \in DOMAIN todo'
      PROVE  /\ Drops(i)' => DropFits(i)'
             /\ todo'[i].do \in {"drop", "copy"} /\ Secure(todo[i].to)'
             /\ todo'[i].do = "copy" => Secure(todo[i].from)' /\ mem'[todo'[i].from] \in Blocks \cup {Void}
  <2>1. CASE i = 1
    BY <1>2, <1>3, <1>7, <2>1 DEF DropFits
  <2>2. CASE i = 2
    BY <1>1, <1>2, <1>3, <1>5, <1>7, <2>2
  <2> QED BY <1>3, <2>1, <2>2
<1>9. TasksFit'
  BY <1>8 DEF TasksFit
<1>10. pending' \in RefSlots \cup {None} /\ rets' \in Seq(NamesOf(Tmps)) /\ depth' <= MaxDepth
  BY DEF HeapInv, TypeOK, depth
<1> QED BY <1>4, <1>6, <1>9, <1>10, BeginStatement

LEMMA AssignInv == HeapInv /\ Assign => HeapInv'
<1> SUFFICES ASSUME HeapInv, Assign PROVE HeapInv'
  OBVIOUS
<1>1. PICK l \in Places, s \in Sources :
        /\ Ready /\ todo' = Assignment(l, s) /\ pending' = None
        /\ mem' = mem /\ kind' = kind /\ cnt' = cnt /\ rets' = rets /\ lost' = lost
  BY DEF Assign, Settled
<1>2. l \in Slots /\ l \in Locs /\ s \in Locs /\ todo = <<>> /\ Leaving = {} /\ Scheduled = {}
  BY <1>1, ReadySets
<1>3. RefsAnchored'
  BY <1>1 DEF RefsAnchored
<1>4. CASE l = s
  <2>1. todo' = todo
    BY <1>1, <1>2, <1>4, AssignmentTasks
  <2>2. Leaving' = {} /\ Scheduled' \subseteq Scheduled
    BY <1>1, <2>1, ReadyWrites
  <2>3. Written
    BY <1>1, <1>2, <2>2, SameMemory
  <2> QED BY <1>1, <1>3, <2>1, <2>3, WriteStatement
<1>5. CASE l # s
  <2>1. todo' = <<Drop(l), Copy(l, s)>>
    BY <1>1, <1>2, <1>5, AssignmentTasks
  <2>2. Secure(l)'
    BY <1>2 DEF Secure
  <2> QED BY <1>1, <1>2, <1>3, <2>1, <2>2, BeginAssignment
<1> QED BY <1>4, <1>5

(* What a reference that is being made is taken from.                      *)
LEMMA ReferredSecure ==
  ASSUME HeapInv, Ready, NEW r, NEW s \in Bases(r)
  PROVE  /\ Referred(s) \in Value
         /\ Referred(s) \in Blocks => Anchored(Referred(s))
<1>1. Scheduled = {} /\ mem \in [Locs -> Value]
  BY ReadySets DEF HeapInv, TypeOK
<1>2. CASE s \in Sources
  <2>1. s \in Slots /\ s \in Locs /\ mem[s] \in Blocks \cup {Void}
    BY <1>2, ReadySets
  <2>2. Referred(s) = mem[s]
    BY <1>1, <2>1, ValueCases DEF Referred
  <2> QED BY <1>1, <2>1, <2>2, AnchoredFrom
<1>3. CASE s = pending /\ pending # None
  <2>1. s \in RefSlots /\ s \in Slots /\ s \in Locs
    BY <1>3, RefSlot DEF HeapInv, TypeOK
  <2>2. CASE IsRef(mem[s])
    <3> PICK l : l = mem[s].ref
      OBVIOUS
    <3>1. l \in Locs /\ l \notin Slots
      BY <1>1, <2>1, <2>2, ValueCases
    <3>2. Secure(l)
      BY <1>3, <2>2 DEF HeapInv, RefsAnchored
    <3>3. Anchored(l[1]) /\ l[1] \in Blocks
      BY <3>1, <3>2, LocIsElem DEF Secure
    <3>4. mem[l] \in Blocks => Anchored(mem[l])
      BY <1>1, <3>1, <3>3, AnchoredFrom
    <3> QED BY <1>1, <2>2, <3>1, <3>4 DEF Referred
  <2>3. CASE ~IsRef(mem[s])
    BY <1>1, <2>1, <2>3, AnchoredFrom DEF Referred
  <2> QED BY <2>2, <2>3
<1> QED BY <1>2, <1>3 DEF Bases

LEMMA IndexRefInv == HeapInv /\ IndexRef => HeapInv'
<1> SUFFICES ASSUME HeapInv, IndexRef PROVE HeapInv'
  OBVIOUS
<1>1. PICK r \in SlotsOf(Refs) : \E s \in Bases(r) :
        /\ Ready
        /\ \/ /\ \E l \in Inside(Referred(s)) : Put(r, [ref |-> l])
              /\ kind' = kind /\ cnt' = cnt
           \/ /\ IsOwned(Referred(s)) /\ Put(r, [str |-> Referred(s)])
              /\ kind' = kind /\ cnt' = cnt
           \/ \E b \in Blocks : Alloc(b, "owned", r)
        /\ pending' = r /\ todo' = todo /\ rets' = rets
  BY DEF IndexRef
<1>2. PICK s \in Bases(r) :
        /\ Ready
        /\ \/ /\ \E l \in Inside(Referred(s)) : Put(r, [ref |-> l])
              /\ kind' = kind /\ cnt' = cnt
           \/ /\ IsOwned(Referred(s)) /\ Put(r, [str |-> Referred(s)])
              /\ kind' = kind /\ cnt' = cnt
           \/ \E b \in Blocks : Alloc(b, "owned", r)
        /\ pending' = r /\ todo' = todo /\ rets' = rets
  BY <1>1
<1> PICK v : v = Referred(s)
  OBVIOUS
<1>3. v \in Value /\ (v \in Blocks => Anchored(v))
  BY <1>2, ReferredSecure
<1>4. r \in RefSlots /\ r \in Slots /\ r \in Locs
  <2>1. r \in RefSlots
    BY DepthNat DEF SlotsOf, Slot, RefSlots
  <2> QED BY <2>1, RefSlot
<1>5. Leaving = {} /\ Leaving' = {} /\ Scheduled' \subseteq Scheduled /\ Scheduled = {}
  BY <1>2, ReadyWrites, ReadySets
<1>6. mem \in [Locs -> Value]
  BY DEF HeapInv, TypeOK
<1>7. ASSUME NEW l \in Inside(v), Put(r, [ref |-> l]), kind' = kind, cnt' = cnt
      PROVE  HeapInv'
  <2>1. l \in Elems /\ l \in Locs /\ Secure(l)
    BY <1>3, <1>5, InsideSecure
  <2> PICK w : w = [ref |-> l]
    OBVIOUS
  <2>2. w \in Value /\ w.ref = l /\ IsRef(w) /\ ~IsStr(w) /\ w \notin Blocks
    BY <2>1, MakesValue, ValueCases
  <2>3. Written
    BY <1>4, <1>5, <1>7, <2>2, PutStep
  <2>4. Secure(l)'
    BY <2>1, <2>3, SecureKept DEF Written
  <2>5. mem'[pending'] = w
    BY <1>2, <1>4, <1>6, <1>7 DEF Put
  <2>6. mem'[pending'].ref = l /\ ~IsStr(mem'[pending'])
    BY <2>2, <2>5
  <2>7. RefsAnchored'
    BY <2>4, <2>6 DEF RefsAnchored, IsStr, Secure, Anchored
  <2> QED BY <1>2, <1>4, <2>3, <2>7, WriteStatement
<1>8. ASSUME IsOwned(v), Put(r, [str |-> v]), kind' = kind, cnt' = cnt
      PROVE  HeapInv'
  <2>1. v \in Blocks /\ kind[v] = "owned" /\ Anchored(v)
    BY <1>3, <1>8 DEF IsOwned
  <2> PICK w : w = [str |-> v]
    OBVIOUS
  <2>2. w \in Value /\ w.str = v /\ IsStr(w) /\ ~IsRef(w) /\ w \notin Blocks
    BY <2>1, MakesValue, ValueCases
  <2>3. Written
    BY <1>4, <1>5, <1>8, <2>2, PutStep
  <2>4. Anchored(v)' /\ kind'[v] = "owned"
    BY <1>8, <2>1, <2>3 DEF Written, Stay
  <2>5. mem'[pending'] = w
    BY <1>2, <1>4, <1>6, <1>8 DEF Put
  <2>6. mem'[pending'].str = v /\ ~IsRef(mem'[pending'])
    BY <2>2, <2>5
  <2>7. RefsAnchored'
    BY <2>4, <2>6 DEF RefsAnchored, IsRef, Anchored
  <2> QED BY <1>2, <1>4, <2>3, <2>7, WriteStatement
<1>9. ASSUME NEW b \in Blocks, Alloc(b, "owned", r)
      PROVE  HeapInv'
  <2>1. Written /\ mem' = [mem EXCEPT ![r] = b]
    BY <1>4, <1>5, <1>9, AllocStep
  <2>2. mem'[pending'] = b /\ b \in Value
    BY <1>2, <1>4, <1>6, <2>1, MakesValue
  <2>3. ~IsRef(mem'[pending']) /\ ~IsStr(mem'[pending'])
    BY <2>2, ValueCases
  <2>4. RefsAnchored'
    BY <2>3 DEF RefsAnchored, IsRef, IsStr
  <2> QED BY <1>2, <1>4, <2>1, <2>4, WriteStatement
<1> QED BY <1>2, <1>7, <1>8, <1>9

(* The location of the reference stays until what it holds is replaced:    *)
(* the block is held from outside, and not by the element that is dropped. *)
LEMMA RefTargetInv ==
  ASSUME HeapInv, Ready, pending # None, IsRef(mem[pending]), NEW s \in Sources,
         todo' = <<Drop(mem[pending].ref), Copy(mem[pending].ref, s)>>,
         mem' = mem, kind' = kind, cnt' = cnt, lost' = lost, rets' = rets, pending' = pending
  PROVE  HeapInv'
<1> PICK l : l = mem[pending].ref
  OBVIOUS
<1>1. pending \in Locs /\ mem[pending] \in Value
  BY RefSlot DEF HeapInv, TypeOK
<1>2. l \in Locs /\ l \notin Slots /\ ~IsStr(mem[pending])
  BY <1>1, ValueCases
<1>3. Secure(l) /\ l[1] \in Blocks
  BY <1>2, LocIsElem DEF HeapInv, RefsAnchored
<1>4. kind[l[1]] = "counted" /\ Anchored(l[1])
  BY <1>2, <1>3 DEF Secure
<1>5. Drop(l).to = l /\ Drop(l).do = "drop" /\ Copy(l, s).do = "copy"
  BY <1>2, MakesTask, ReadySets
<1>6. todo' = <<Drop(l), Copy(l, s)>> /\ DOMAIN todo' = {1, 2}
  OBVIOUS
<1>7. Scheduled' \subseteq {l} /\ Scheduled = {}
  <2>1. \A i \in DOMAIN todo' : Drops(i)' => todo'[i].to = l
    BY <1>5, <1>6 DEF Drops
  <2> QED BY <2>1, ReadySets DEF Scheduled
<1>8. Anchored(l[1])'
  <2> SUFFICES ASSUME NEW U \in SUBSET Blocks, l[1] \in U
               PROVE  Entered(U)'
    BY DEF Anchored
  <2>1. PICK b \in U : lost[b] > 0 \/ \E h \in Locs \ Scheduled :
                                        mem[h] = b /\ (h \in Slots \/ h[1] \notin U)
    BY <1>4 DEF Anchored, Entered
  <2>2. CASE lost[b] > 0
    BY <2>2 DEF Entered
  <2>3. ASSUME NEW h \in Locs, mem[h] = b, h \in Slots \/ h[1] \notin U
        PROVE  Entered(U)'
    <3>1. h # l
      BY <1>2, <2>3
    <3>2. h \in Locs \ Scheduled' /\ mem'[h] = b
      BY <1>7, <2>3, <3>1
    <3> QED BY <2>3, <3>2 DEF Entered
  <2> QED BY <2>1, <2>2, <2>3
<1>9. Secure(l)'
  BY <1>4, <1>8 DEF Secure
<1>10. RefsAnchored'
  <2>1. mem'[pending'].ref = l /\ ~IsStr(mem'[pending'])
    BY <1>2
  <2> QED BY <1>9, <2>1 DEF RefsAnchored, IsStr, Secure, Anchored
<1> QED BY <1>2, <1>6, <1>9, <1>10, BeginAssignment

LEMMA RefAssignInv == HeapInv /\ RefAssign => HeapInv'
<1> SUFFICES ASSUME HeapInv, RefAssign PROVE HeapInv'
  OBVIOUS
<1>1. PICK s \in Sources :
        /\ Ready /\ pending # None
        /\ \/ /\ IsRef(mem[pending])
              /\ todo' = <<Drop(mem[pending].ref), Copy(mem[pending].ref, s)>>
              /\ mem' = mem /\ kind' = kind /\ cnt' = cnt /\ lost' = lost
           \/ mem' = mem /\ kind' = kind /\ cnt' = cnt /\ lost' = lost /\ todo' = todo
           \/ /\ \E b \in Blocks : Alloc(b, "owned", pending)
              /\ todo' = todo
           \/ /\ ~IsRef(mem[pending]) /\ ~IsStr(mem[pending])
              /\ todo' = Assignment(pending, s)
              /\ mem' = mem /\ kind' = kind /\ cnt' = cnt /\ lost' = lost
        /\ pending' = pending /\ rets' = rets
  BY DEF RefAssign, Using
<1>2. /\ pending \in RefSlots /\ pending \in Slots /\ pending \in Locs
      /\ s \in Locs /\ s \notin RefSlots /\ mem \in [Locs -> Value]
  BY <1>1, ReadySets, RefSlot DEF HeapInv, TypeOK
<1>3. CASE IsRef(mem[pending]) /\ todo' = <<Drop(mem[pending].ref), Copy(mem[pending].ref, s)>>
           /\ mem' = mem /\ kind' = kind /\ cnt' = cnt /\ lost' = lost
  BY <1>1, <1>3, RefTargetInv
<1>4. CASE mem' = mem /\ kind' = kind /\ cnt' = cnt /\ lost' = lost /\ todo' = todo
  <2>1. Leaving = {} /\ Leaving' = {} /\ Scheduled' \subseteq Scheduled
    BY <1>1, <1>4, ReadyWrites
  <2>2. Written
    BY <1>4, <2>1, SameMemory
  <2>3. RefsAnchored'
    BY <1>1, <1>2, <1>4, <2>2, RefsKept DEF HeapInv, Written
  <2> QED BY <1>1, <1>2, <1>4, <2>2, <2>3, WriteStatement
<1>5. ASSUME NEW b \in Blocks, Alloc(b, "owned", pending), todo' = todo
      PROVE  HeapInv'
  <2>1. Leaving = {} /\ Leaving' = {} /\ Scheduled' \subseteq Scheduled
    BY <1>1, <1>5, ReadyWrites
  <2> PICK p : p = pending
    OBVIOUS
  <2>2. Written /\ mem' = [mem EXCEPT ![p] = b]
    BY <1>2, <1>5, <2>1, AllocStep
  <2>3. \A x \in Locs : mem'[x] = mem[x] \/ mem'[x] \in Blocks \cup {Void}
    BY <1>2, <2>2
  <2>4. RefsAnchored'
    BY <1>1, <1>2, <2>2, <2>3, RefsKept DEF HeapInv, Written
  <2> QED BY <1>1, <1>2, <1>5, <2>2, <2>4, WriteStatement
<1>6. CASE /\ ~IsRef(mem[pending]) /\ ~IsStr(mem[pending]) /\ todo' = Assignment(pending, s)
           /\ mem' = mem /\ kind' = kind /\ cnt' = cnt /\ lost' = lost
  <2> PICK p : p = pending
    OBVIOUS
  <2>1. todo' = <<Drop(p), Copy(p, s)>>
    BY <1>2, <1>6, AssignmentTasks
  <2>2. ~IsRef(mem'[pending']) /\ ~IsStr(mem'[pending'])
    BY <1>1, <1>6
  <2>3. RefsAnchored'
    BY <2>2 DEF RefsAnchored, IsRef, IsStr
  <2>4. Secure(p)'
    BY <1>2 DEF Secure
  <2> QED BY <1>1, <1>2, <1>6, <2>1, <2>3, <2>4, BeginAssignment
<1> QED BY <1>1, <1>3, <1>4, <1>5, <1>6

LEMMA DerefInv == HeapInv /\ Deref => HeapInv'
<1> SUFFICES ASSUME HeapInv, Deref PROVE HeapInv'
  OBVIOUS
<1> PICK p : p = pending
  OBVIOUS
<1> PICK l : l = IF IsRef(mem[p]) THEN mem[p].ref ELSE p
  OBVIOUS
<1>1. PICK t \in Results :
        /\ Ready /\ p # None /\ (IsRef(mem[p]) \/ IsOwned(mem[p])) /\ todo' = <<Copy(t, l)>>
        /\ pending' = pending
        /\ mem' = mem /\ kind' = kind /\ cnt' = cnt /\ rets' = rets /\ lost' = lost
  BY DEF Deref, Using
<1>2. /\ p \in RefSlots /\ p \in Slots /\ p \in Locs /\ mem[p] \in Value
      /\ t \in Slots /\ t \in Locs
  BY <1>1, ReadySets, RefSlot DEF HeapInv, TypeOK
<1>3. l \in Locs /\ Secure(l) /\ mem[l] \in Blocks \cup {Void}
  <2>1. CASE IsRef(mem[p])
    <3>1. l \in Locs /\ l \notin Slots
      BY <1>2, <2>1, ValueCases
    <3>2. Secure(l)
      BY <1>1, <2>1 DEF HeapInv, RefsAnchored
    <3>3. l \notin RefSlots
      BY <3>1, RefSlot
    <3> QED BY <3>1, <3>2, <3>3 DEF HeapInv, RefsInSlots
  <2>2. CASE ~IsRef(mem[p])
    BY <1>1, <1>2, <2>2 DEF Secure, IsOwned
  <2> QED BY <2>1, <2>2
<1>4. /\ Copy(t, l) \in Task /\ Copy(t, l).do = "copy" /\ Copy(t, l).to = t
      /\ Copy(t, l).from = l
  BY <1>2, <1>3, MakesTask
<1>5. Secure(Copy(t, l).to) /\ Secure(Copy(t, l).from)
  BY <1>2, <1>3, <1>4 DEF Secure
<1> QED BY <1>1, <1>3, <1>4, <1>5, BeginOne

(* A call copies the arguments into the frame above.                       *)
LEMMA CallInv == HeapInv /\ Call => HeapInv'
<1> SUFFICES ASSUME HeapInv, Call PROVE HeapInv'
  OBVIOUS
<1>1. PICK t \in Results, args \in [DOMAIN Params -> Sources] :
        /\ Ready /\ depth < MaxDepth
        /\ rets' = Append(rets, t[2])
        /\ todo' = [i \in DOMAIN Params |-> Copy(<<depth + 1, Params[i]>>, args[i])]
        /\ pending' = None
        /\ mem' = mem /\ kind' = kind /\ cnt' = cnt /\ lost' = lost
  BY DEF Call, Settled
<1>2. /\ depth \in Nat /\ MaxDepth \in Nat /\ t[2] \in NamesOf(Tmps)
  <2>1. t \in SlotsOf(Tmps)
    BY DEF Results
  <2> QED BY <1>1, <2>1, ReadySets DEF SlotsOf, Slot
<1>3. rets' \in Seq(NamesOf(Tmps)) /\ depth' = depth + 1 /\ depth' <= MaxDepth
  <2>1. rets \in Seq(NamesOf(Tmps))
    BY DEF HeapInv, TypeOK
  <2>2. rets' \in Seq(NamesOf(Tmps)) /\ Len(rets') = Len(rets) + 1
    BY <1>1, <1>2, <2>1
  <2> QED BY <1>1, <1>2, <2>2 DEF depth
<1>4. Params \in Seq(Names) /\ DOMAIN Params = 1 .. Len(Params) /\ Len(Params) \in Nat
  BY NamesApart, LenProperties
<1>5. ASSUME NEW i \in DOMAIN Params
      PROVE  /\ <<depth + 1, Params[i]>> \in Slots /\ <<depth + 1, Params[i]>> \in Locs
             /\ args[i] \in Slots /\ args[i] \in Locs /\ mem[args[i]] \in Blocks \cup {Void}
  <2>1. Params[i] \in Names
    BY NamesAreNames DEF NamesOf
  <2>2. depth + 1 \in 0 .. MaxDepth
    BY <1>1, <1>2
  <2>3. args[i] \in Sources
    BY <1>1
  <2> QED BY <1>1, <2>1, <2>2, <2>3, SlotLoc, ReadySets
<1> DEFINE task(i) == Copy(<<depth + 1, Params[i]>>, args[i])
<1>6. ASSUME NEW i \in DOMAIN Params
      PROVE  /\ task(i) \in Task /\ task(i).do = "copy"
             /\ task(i).to \in Slots /\ task(i).from \in Slots
             /\ mem[task(i).from] \in Blocks \cup {Void}
  BY <1>5, MakesTask
<1>7. todo' \in Seq(Task) /\ DOMAIN todo' = DOMAIN Params
  <2>1. todo' = [i \in 1 .. Len(Params) |-> task(i)]
    BY <1>1, <1>4
  <2>2. \A i \in 1 .. Len(Params) : task(i) \in Task
    BY <1>4, <1>6
  <2> HIDE DEF task
  <2> QED BY <1>4, <2>1, <2>2
<1>8. ASSUME NEW i \in DOMAIN todo'
      PROVE  /\ todo'[i].do = "copy" /\ todo'[i].to \in Slots /\ todo'[i].from \in Slots
             /\ mem[todo'[i].from] \in Blocks \cup {Void}
  <2>1. todo'[i] = task(i)
    BY <1>1, <1>7
  <2> HIDE DEF task
  <2> QED BY <1>6, <1>7, <2>1
<1>9. Begins
  BY <1>1, <1>7, <1>8 DEF Begins
<1>10. DropsOnce'
  BY <1>8, <1>9, BeginNoDrop
<1>11. ASSUME NEW i \in DOMAIN todo'
       PROVE  /\ ~Drops(i)' /\ todo'[i].do = "copy" /\ Secure(todo[i].to)' /\ Secure(todo[i].from)'
              /\ mem'[todo'[i].from] \in Blocks \cup {Void}
  BY <1>1, <1>8 DEF Drops, Secure
<1>12. TasksFit'
  BY <1>11 DEF TasksFit
<1>13. RefsAnchored' /\ pending' \in RefSlots \cup {None}
  BY <1>1 DEF RefsAnchored
<1> QED BY <1>3, <1>9, <1>10, <1>12, <1>13, BeginStatement

(* The end of a subroutine drops every local once, and leaves.             *)
LEMMA DeinitTasks ==
  ASSUME HeapInv
  PROVE  /\ Deinit \in Seq(Task) /\ Len(Locals) \in Nat /\ Len(Deinit) = Len(Locals) + 1
         /\ \A i \in 1 .. Len(Locals) : /\ Deinit[i] = Drop(Slot(Locals[i]))
                                        /\ Slot(Locals[i]) \in Slots /\ Slot(Locals[i]) \in Locs
         /\ Deinit[Len(Locals) + 1] = Leave
         /\ \A i, j \in 1 .. Len(Locals) : Slot(Locals[i]) = Slot(Locals[j]) => i = j
<1> DEFINE drops == DropAll(Locals)
           last == <<Leave>>
<1>1. Locals \in Seq(Names) /\ Len(Locals) \in Nat /\ DOMAIN Locals = 1 .. Len(Locals)
  BY NamesApart, LenProperties
<1>2. \A i \in 1 .. Len(Locals) : Locals[i] \in Names
  BY <1>1, ElementOfSeq
<1>3. ASSUME NEW i \in 1 .. Len(Locals)
      PROVE  Slot(Locals[i]) \in Slots /\ Slot(Locals[i]) \in Locs /\ Drop(Slot(Locals[i])) \in Task
  <2>1. Slot(Locals[i]) \in Slots /\ Slot(Locals[i]) \in Locs
    BY <1>2, DepthNat, SlotLoc DEF Slot
  <2> QED BY <2>1, MakesTask
<1>4. /\ drops \in Seq(Task) /\ Len(drops) = Len(Locals)
      /\ \A i \in 1 .. Len(Locals) : drops[i] = Drop(Slot(Locals[i]))
  BY <1>1, <1>3 DEF DropAll
<1>5. last \in Seq(Task) /\ Len(last) = 1 /\ last[1] = Leave
  <2>1. Leave \in Task
    BY DEF Leave, Task
  <2> QED BY <2>1
<1> HIDE DEF drops, last
<1>6. /\ drops \o last \in Seq(Task) /\ Len(drops \o last) = Len(drops) + Len(last)
      /\ \A i \in 1 .. Len(drops) + Len(last) :
           (drops \o last)[i] = IF i <= Len(drops) THEN drops[i] ELSE last[i - Len(drops)]
  BY <1>4, <1>5, ConcatProperties
<1>7. Deinit = drops \o last
  BY DEF Deinit, drops, last
<1>8. \A i \in 1 .. Len(Locals) : Deinit[i] = drops[i]
  BY <1>1, <1>4, <1>5, <1>6, <1>7
<1>9. Deinit[Len(Locals) + 1] = Leave
  <2>1. /\ Len(Locals) + 1 \in 1 .. Len(Locals) + 1 /\ ~(Len(Locals) + 1 <= Len(Locals))
        /\ (Len(Locals) + 1) - Len(Locals) = 1
    BY <1>1
  <2> QED BY <1>4, <1>5, <1>6, <1>7, <2>1
<1>10. \A i, j \in 1 .. Len(Locals) : Slot(Locals[i]) = Slot(Locals[j]) => i = j
  BY <1>1, HeapAssumption DEF Slot
<1> QED BY <1>1, <1>3, <1>4, <1>5, <1>6, <1>7, <1>8, <1>9, <1>10

(* The tasks before the locals are dropped: none, or an assignment to a    *)
(* slot of another frame.                                                  *)
BeforeDeinit(before) ==
  \/ before = <<>>
  \/ \E r, s \in Slots : /\ before = <<Drop(r), Copy(r, s)>>
                         /\ r[1] # depth /\ mem[s] \in Blocks \cup {Void}

LEMMA LeavingTasks ==
  ASSUME HeapInv, Ready, mem' = mem, kind' = kind, cnt' = cnt, lost' = lost, rets' = rets,
         pending' = None, NEW before \in Seq(Task), BeforeDeinit(before), todo' = before \o Deinit
  PROVE  HeapInv'
<1> DEFINE k == Len(before)
           n == Len(Locals)
<1>1. /\ Deinit \in Seq(Task) /\ n \in Nat /\ Len(Deinit) = n + 1
      /\ \A i \in 1 .. n : /\ Deinit[i] = Drop(Slot(Locals[i]))
                           /\ Slot(Locals[i]) \in Slots /\ Slot(Locals[i]) \in Locs
      /\ Deinit[n + 1] = Leave
      /\ \A i, j \in 1 .. n : Slot(Locals[i]) = Slot(Locals[j]) => i = j
  BY DeinitTasks
<1>2. k \in Nat /\ DOMAIN before = 1 .. k
  BY LenProperties
<1> HIDE DEF k, n
<1>3. /\ todo' \in Seq(Task) /\ Len(todo') = k + n + 1 /\ DOMAIN todo' = 1 .. k + n + 1
      /\ \A i \in 1 .. k + n + 1 : todo'[i] = IF i <= k THEN before[i] ELSE Deinit[i - k]
  <2>1. /\ before \o Deinit \in Seq(Task) /\ Len(before \o Deinit) = Len(before) + Len(Deinit)
        /\ \A i \in 1 .. Len(before) + Len(Deinit) :
             (before \o Deinit)[i] = IF i <= Len(before) THEN before[i] ELSE Deinit[i - Len(before)]
    BY <1>1, ConcatProperties
  <2>2. Len(before) + Len(Deinit) = k + n + 1
    BY <1>1, <1>2 DEF k
  <2>3. todo' \in Seq(Task) /\ Len(todo') = k + n + 1
    BY <2>1, <2>2
  <2>4. DOMAIN todo' = 1 .. k + n + 1
    BY <2>3, LenProperties
  <2> QED BY <2>1, <2>2, <2>3, <2>4 DEF k
<1>4. ASSUME NEW i \in DOMAIN todo', i > k
      PROVE  \/ /\ i - k \in 1 .. n /\ i # Len(todo')
                /\ todo'[i].do = "drop" /\ todo'[i].to = Slot(Locals[i - k])
                /\ todo'[i].to \in Slots /\ todo'[i].to[1] = depth
             \/ i = Len(todo') /\ todo'[i].do = "leave"
  <2>1. todo'[i] = Deinit[i - k] /\ i - k \in 1 .. n + 1
    BY <1>1, <1>2, <1>3, <1>4
  <2>2. CASE i - k = n + 1
    <3>1. i = Len(todo')
      <4>1. i \in Int /\ k \in Int /\ n \in Int
        BY <1>1, <1>2, <1>3
      <4>2. i = k + n + 1
        BY <2>2, <4>1
      <4> QED BY <1>3, <4>2
    <3>2. Leave.do = "leave"
      BY DEF Leave
    <3> QED BY <1>1, <2>1, <2>2, <3>1, <3>2
  <2>3. CASE i - k # n + 1
    <3>1. i - k \in 1 .. n /\ i # Len(todo')
      BY <1>1, <1>2, <1>3, <2>1, <2>3
    <3>2. todo'[i] = Drop(Slot(Locals[i - k])) /\ Slot(Locals[i - k]) \in Slots
      BY <1>1, <2>1, <3>1
    <3>3. Slot(Locals[i - k])[1] = depth
      BY DEF Slot
    <3>4. todo'[i].do = "drop" /\ todo'[i].to = Slot(Locals[i - k])
      BY <3>2 DEF Drop
    <3> QED BY <3>1, <3>2, <3>3, <3>4
  <2> QED BY <2>2, <2>3
<1>5. ASSUME NEW i \in DOMAIN todo', i <= k
      PROVE  /\ \/ i = 1 /\ todo'[i].do = "drop" /\ todo'[i].to[1] # depth
                \/ i = 2 /\ todo'[i].do = "copy" /\ todo'[i].from \in Slots
                         /\ mem[todo'[i].from] \in Blocks \cup {Void}
             /\ todo'[i].to \in Slots
  <2>1. todo'[i] = before[i] /\ i \in 1 .. k
    BY <1>2, <1>3, <1>5
  <2>2. CASE before = <<>>
    BY <2>1, <2>2 DEF k
  <2>3. ASSUME NEW r \in Slots, NEW s \in Slots, before = <<Drop(r), Copy(r, s)>>,
               r[1] # depth, mem[s] \in Blocks \cup {Void}
        PROVE  /\ \/ i = 1 /\ todo'[i].do = "drop" /\ todo'[i].to[1] # depth
                  \/ i = 2 /\ todo'[i].do = "copy" /\ todo'[i].from \in Slots
                           /\ mem[todo'[i].from] \in Blocks \cup {Void}
               /\ todo'[i].to \in Slots
    <3>1. k = 2 /\ before[1] = Drop(r) /\ before[2] = Copy(r, s)
      BY <2>3 DEF k
    <3>2. /\ Drop(r).do = "drop" /\ Drop(r).to = r
          /\ Copy(r, s).do = "copy" /\ Copy(r, s).to = r /\ Copy(r, s).from = s
      BY DEF Drop, Copy
    <3>3. i = 1 \/ i = 2
      BY <2>1, <3>1
    <3> QED BY <2>1, <2>3, <3>1, <3>2, <3>3
  <2> QED BY <2>2, <2>3 DEF BeforeDeinit
<1>6. ASSUME NEW i \in DOMAIN todo'
      PROVE  /\ todo'[i].do \in {"drop", "copy", "leave"}
             /\ todo'[i].do # "leave" => todo'[i].to \in Slots
             /\ todo'[i].do = "copy" => /\ todo'[i].from \in Slots
                                        /\ mem[todo'[i].from] \in Blocks \cup {Void}
             /\ todo'[i].do = "leave" => i = Len(todo')
  <2>1. i <= k \/ i > k
    BY <1>2, <1>3
  <2> QED BY <1>4, <1>5, <2>1
<1>7. Begins
  BY <1>3, <1>6 DEF Begins
<1>8. DropsOnce'
  <2> SUFFICES ASSUME NEW i \in DOMAIN todo', NEW j \in DOMAIN todo', todo'[i].do = "drop",
                      todo'[j].do = "drop", todo'[i].to = todo'[j].to
               PROVE  i = j
    <3>1. \A i \in DOMAIN todo' : Drops(i)' => todo'[i].do = "drop"
      BY <1>6 DEF Drops
    <3> QED BY <3>1 DEF DropsOnce
  <2>1. i \in Int /\ j \in Int /\ k \in Int
    BY <1>2, <1>3
  <2>2. CASE i <= k /\ j <= k
    BY <1>5, <2>2
  <2>3. CASE i > k /\ j > k
    <3>1. i - k \in 1 .. n /\ j - k \in 1 .. n /\ Slot(Locals[i - k]) = Slot(Locals[j - k])
      BY <1>4, <2>3
    <3>2. i - k = j - k
      BY <1>1, <3>1
    <3> QED BY <2>1, <3>2
  <2>4. CASE (i <= k /\ j > k) \/ (i > k /\ j <= k)
    <3>1. \A m \in DOMAIN todo' : m <= k /\ todo'[m].do = "drop" => todo'[m].to[1] # depth
      BY <1>5
    <3>2. \A m \in DOMAIN todo' : m > k /\ todo'[m].do = "drop" => todo'[m].to[1] = depth
      BY <1>4
    <3> QED BY <2>4, <3>1, <3>2
  <2> QED BY <2>1, <2>2, <2>3, <2>4
<1>9. depth' = depth /\ depth > 0
  BY DEF depth, Ready
<1>10. ASSUME NEW i \in DOMAIN todo'
       PROVE  /\ Drops(i)' => DropFits(i)'
              /\ todo'[i].do # "release" /\ todo'[i].do # "make"
              /\ todo'[i].do \in {"copy", "make"} => Secure(todo[i].to)'
              /\ todo'[i].do = "copy" => Secure(todo[i].from)' /\ mem'[todo'[i].from] \in Blocks \cup {Void}
              /\ todo'[i].do = "leave" => i = Len(todo') /\ depth' > 0 /\ pending' = None
  <2>1. todo'[i].do # "leave" => Secure(todo[i].to)'
    BY <1>6 DEF Secure
  <2>2. todo'[i].do = "copy" => Secure(todo[i].from)' /\ mem'[todo'[i].from] \in Blocks \cup {Void}
    BY <1>6 DEF Secure
  <2>3. Drops(i)' => todo'[i].do = "drop"
    BY <1>6 DEF Drops
  <2>4. Drops(i)' => DropFits(i)'
    BY <2>1, <2>3 DEF DropFits
  <2> QED BY <1>6, <1>9, <2>1, <2>2, <2>4
<1>11. TasksFit'
  BY <1>10 DEF TasksFit
<1>12. /\ RefsAnchored' /\ pending' \in RefSlots \cup {None}
       /\ rets' \in Seq(NamesOf(Tmps)) /\ depth' <= MaxDepth
  BY <1>9 DEF RefsAnchored, HeapInv, TypeOK
<1> QED BY <1>7, <1>8, <1>11, <1>12, BeginStatement

LEMMA ReturnInv == HeapInv /\ Return => HeapInv'
<1> SUFFICES ASSUME HeapInv, Return PROVE HeapInv'
  OBVIOUS
<1> PICK r : r = <<depth - 1, rets[depth]>>
  OBVIOUS
<1>1. PICK s \in Sources :
        /\ Ready /\ todo' = Assignment(r, s) \o Deinit /\ pending' = None
        /\ mem' = mem /\ kind' = kind /\ cnt' = cnt /\ rets' = rets /\ lost' = lost
  BY DEF Return, Settled
<1>2. s \in Slots /\ s \in Locs /\ mem[s] \in Blocks \cup {Void}
  BY <1>1, ReadySets
<1>3. r \in Slots /\ r \in Locs /\ r[1] # depth
  <2>1. depth \in 1 .. MaxDepth /\ depth \in Nat /\ MaxDepth \in Nat
    BY <1>1, ReadySets
  <2>2. rets[depth] \in NamesOf(Tmps)
    BY <2>1, ElementOfSeq DEF HeapInv, TypeOK, depth
  <2>3. rets[depth] \in Names /\ depth - 1 \in 0 .. MaxDepth /\ depth - 1 # depth
    BY <2>1, <2>2 DEF Names
  <2> QED BY <2>3, SlotLoc
<1>4. Assignment(r, s) \in Seq(Task) /\ BeforeDeinit(Assignment(r, s))
  BY <1>2, <1>3, AssignmentTasks DEF BeforeDeinit
<1> QED BY <1>1, <1>4, LeavingTasks

LEMMA EndInv == HeapInv /\ End => HeapInv'
<1> SUFFICES ASSUME HeapInv, End PROVE HeapInv'
  OBVIOUS
<1>1. /\ Ready /\ todo' = Deinit /\ pending' = None
      /\ mem' = mem /\ kind' = kind /\ cnt' = cnt /\ rets' = rets /\ lost' = lost
  BY DEF End, Settled
<1> DEFINE none == <<>>
<1>2. none \in Seq(Task) /\ BeforeDeinit(none)
  BY DEF BeforeDeinit
<1>3. todo' = none \o Deinit
  <2>1. Deinit \in Seq(Task)
    BY DeinitTasks
  <2> QED BY <1>1, <2>1, ConcatEmptySeq
<1> HIDE DEF none
<1> QED BY <1>1, <1>2, <1>3, LeavingTasks

LEMMA StatementInv == HeapInv /\ Statement => HeapInv'
BY PlainInv, NewOwnedInv, MismatchInv, GreaterInv, MakeValueInv, IndexInv, AssignInv,
   IndexRefInv, RefAssignInv, DerefInv, CallInv, ReturnInv, EndInv DEF Statement

-------------------------------------------------------------------------------
(* The theorems.                                                           *)

LEMMA InitInv == Init => HeapInv
<1> SUFFICES ASSUME Init PROVE HeapInv
  OBVIOUS
<1>1. PICK t \in NamesOf(Tmps) : rets = <<t>>
  BY DEF Init
<1>2. TypeOK
  <2>1. rets \in Seq(NamesOf(Tmps)) /\ depth = 1
    BY <1>1 DEF depth
  <2>2. depth <= MaxDepth
    BY <2>1, HeapAssumption
  <2>3. todo \in Seq(Task)
    BY DEF Init
  <2> QED BY <2>1, <2>2, <2>3, MakesValue DEF Init, TypeOK
<1>3. todo = <<>> /\ Leaving = {} /\ DOMAIN todo = {}
  BY DEF Init, Leaving
<1>4. CountExact
  <2> SUFFICES ASSUME NEW b \in Blocks
               PROVE  cnt[b] = Cardinality(Holders(b)) + lost[b]
    BY DEF CountExact
  <2>1. Holders(b) = {}
    BY HeapAssumption DEF Holders, Init
  <2> QED BY <2>1, FS_EmptySet DEF Init
<1>5. RefsInSlots /\ KindFits
  BY ElemLoc DEF Init, RefsInSlots, KindFits
<1>6. TasksFit /\ DropsOnce
  BY <1>3 DEF TasksFit, DropsOnce
<1>7. RefsAnchored
  BY DEF Init, RefsAnchored
<1> QED BY <1>2, <1>4, <1>5, <1>6, <1>7 DEF HeapInv

LEMMA NextInv == HeapInv /\ [Next]_vars => HeapInv'
<1> SUFFICES ASSUME HeapInv, [Next]_vars PROVE HeapInv'
  OBVIOUS
<1>1. CASE Work
  BY <1>1, WorkInv
<1>2. CASE Statement
  BY <1>2, StatementInv
<1>3. CASE UNCHANGED vars
  <2>1. /\ mem' = mem /\ kind' = kind /\ cnt' = cnt /\ todo' = todo
        /\ rets' = rets /\ pending' = pending /\ lost' = lost
    BY <1>3 DEF vars
  <2>2. TypeOK'
    BY <2>1 DEF HeapInv, TypeOK, depth
  <2>3. RefsInSlots' /\ CountExact' /\ KindFits'
    BY <2>1 DEF HeapInv, RefsInSlots, CountExact, Holders, KindFits, Leaving
  <2>4. TasksFit' /\ DropsOnce'
    <3>1. /\ \A i : (Drops(i)' <=> Drops(i)) /\ (ReleaseFits(i)' <=> ReleaseFits(i))
          /\ Scheduled' = Scheduled /\ depth' = depth
      BY <2>1 DEF Drops, ReleaseFits, IsCounted, Scheduled, depth
    <3>2. \A i : /\ DropFits(i)' <=> DropFits(i)
                 /\ Secure(todo[i].to)' <=> Secure(todo[i].to)
                 /\ Secure(todo[i].from)' <=> Secure(todo[i].from)
      BY <2>1, <3>1 DEF DropFits, Secure, Anchored, Entered
    <3>3. TasksFit' <=> TasksFit
      BY <2>1, <3>1, <3>2 DEF TasksFit
    <3>4. DropsOnce' <=> DropsOnce
      BY <2>1, <3>1 DEF DropsOnce
    <3> QED BY <3>3, <3>4 DEF HeapInv
  <2>5. RefsAnchored'
    BY <2>1 DEF HeapInv, RefsAnchored, IsRef, IsStr, Scheduled, Drops, Secure, Anchored, Entered
  <2> QED BY <2>2, <2>3, <2>4, <2>5 DEF HeapInv
<1> QED BY <1>1, <1>2, <1>3 DEF Next, Exited

(* In every state of a compiled program the counts, the kinds of the       *)
(* blocks, the tasks of the operation that runs and the reference that is  *)
(* being used fit together.                                                *)
THEOREM HeapInvariant == Spec => []HeapInv
<1>1. Init => HeapInv
  BY InitInv
<1>2. HeapInv /\ [Next]_vars => HeapInv'
  BY NextInv
<1> QED BY <1>1, <1>2, PTL DEF Spec

(* The counts of array.c and object.c are exact: the count of *)
(* a block is the number of its copies that were not dropped.              *)
THEOREM CountsExact == Spec => []CountExact
<1>1. HeapInv => CountExact
  BY DEF HeapInv
<1> QED BY <1>1, HeapInvariant, PTL

(* Nothing that is secure is free.                                         *)
LEMMA SecureLive ==
  ASSUME NEW l, Secure(l)
  PROVE  Live(l)
BY DEF Secure, Live

(* No block is freed while a value of it is left, and what the operation   *)
(* that runs has still to drop, to copy from and to write is there.        *)
THEOREM NothingDangles == Spec => []NoDangling
<1>1. ASSUME HeapInv
      PROVE  NoDangling
  <2> USE DEF HeapInv, TypeOK
  <2>1. ASSUME NEW l \in Locs \ Leaving, mem[l] \in Blocks
        PROVE  kind[mem[l]] # "free"
    <3>1. l \in Holders(mem[l])
      BY <1>1, <2>1 DEF Holders
    <3>2. cnt[mem[l]] >= 1
      BY <1>1, <2>1, <3>1, HeldCounts
    <3> QED BY <1>1, <2>1, <3>2 DEF KindFits
  <2>2. DOMAIN todo = 1 .. Len(todo) /\ \A i \in DOMAIN todo : todo[i] \in Task
    BY <1>1, Tasks
  <2>3. ASSUME NEW i \in DOMAIN todo, todo[i].do # "leave"
        PROVE  Live(todo[i].to)
    <3>1. Drops(i) \/ todo[i].do \in {"copy", "make"}
      BY <2>2, <2>3, TaskCases DEF Drops
    <3>2. CASE Secure(todo[i].to)
      BY <3>2, SecureLive
    <3>3. ASSUME NEW j \in i + 1 .. Len(todo), todo[j].do = "release",
                 mem[todo[j].to] = todo[i].to[1]
          PROVE  Live(todo[i].to)
      <4>1. j \in DOMAIN todo
        BY <2>2
      <4>2. kind[mem[todo[j].to]] = "counted"
        BY <1>1, <3>3, <4>1, LeavingFits DEF Leaving, IsCounted
      <4> QED BY <3>3, <4>2 DEF Live
    <3> QED BY <1>1, <3>1, <3>2, <3>3 DEF TasksFit, DropFits
  <2>4. ASSUME NEW i \in DOMAIN todo, todo[i].do = "copy"
        PROVE  Live(todo[i].from)
    BY <1>1, <2>4, SecureLive DEF TasksFit
  <2> QED BY <2>1, <2>3, <2>4 DEF NoDangling
<1> QED BY <1>1, HeapInvariant, PTL

(* A reference that a statement has still to use leads into a block that   *)
(* is there, whatever the statements between have dropped.                 *)
THEOREM ReferencesValid == Spec => []ReferenceValid
<1>1. HeapInv => ReferenceValid
  BY SecureLive DEF HeapInv, RefsAnchored, ReferenceValid
<1> QED BY <1>1, HeapInvariant, PTL

(* A block that is not held from where it can be dropped has been freed,   *)
(* or its count was lost.                                                  *)
THEOREM NothingIsForgotten == Spec => []NothingForgotten
<1>1. ASSUME HeapInv
      PROVE  NothingForgotten
  <2> USE DEF HeapInv, TypeOK
  <2> SUFFICES ASSUME NEW b \in Blocks, kind[b] # "free", ~(lost[b] > 0)
               PROVE  \E l \in Locs : mem[l] = b /\ Live(l)
    BY DEF NothingForgotten
  <2>1. ASSUME NEW l \in Locs, mem[l] = b
        PROVE  Live(l)
    <3>1. CASE l \in Slots
      BY <3>1 DEF Live
    <3>2. CASE l \notin Slots
      <4>1. PICK k \in 1 .. N : l[1] \in Blocks /\ l = <<l[1], k>>
        BY <3>2, LocIsElem
      <4>2. mem[<<l[1], k>>] # Void
        BY <2>1, <4>1, HeapAssumption
      <4> QED BY <1>1, <4>1, <4>2 DEF KindFits, Live
    <3> QED BY <3>1, <3>2
  <2>2. \E l \in Locs : mem[l] = b
    <3>1. cnt[b] > 0 \/ \E l \in Leaving : mem[l] = b
      <4>1. kind[b] \in {"free", "counted", "owned"} /\ (kind[b] = "owned" => cnt[b] = 1)
            /\ (kind[b] = "counted" => cnt[b] > 0 \/ \E l \in Leaving : mem[l] = b)
        BY <1>1 DEF KindFits
      <4>2. cnt[b] = 1 => cnt[b] > 0
        OBVIOUS
      <4> QED BY <4>1, <4>2
    <3>2. CASE cnt[b] > 0
      <4>1. Holders(b) = {} => Cardinality(Holders(b)) = 0
        BY FS_EmptySet
      <4>2. cnt[b] = Cardinality(Holders(b)) + lost[b] /\ lost[b] \in Nat
        BY <1>1 DEF CountExact
      <4>3. Holders(b) # {}
        BY <3>2, <4>1, <4>2
      <4> QED BY <4>3 DEF Holders
    <3>3. CASE \E l \in Leaving : mem[l] = b
      BY <1>1, <3>3, LeavingFits
    <3> QED BY <3>1, <3>2, <3>3
  <2> QED BY <2>1, <2>2
<1> QED BY <1>1, HeapInvariant, PTL
=============================================================================
