---------------------------- MODULE HeapProperties ----------------------------
(***************************************************************************)
(* What the runtime and the code that the compiler emits promise about     *)
(* memory.                                                                 *)
(***************************************************************************)
EXTENDS Heap

Live(l) == l \in Slots \/ kind[l[1]] # "free"

\* Locations whose block is being given up: the count is already taken back.
Leaving == {todo[i].to : i \in {j \in DOMAIN todo : todo[j].do = "release"}}

Holders(b) == {l \in Locs : mem[l] = b} \ Leaving

\* The count of a block is the number of values that were copied from it and
\* not dropped: those in the frames and in other blocks, and those that were
\* overwritten.  So a string or an error has never a second holder, and the
\* count of an array that is dropped is never zero.
CountExact ==
  \A b \in Blocks : cnt[b] = Cardinality(Holders(b)) + lost[b]

\* Nothing is freed that is still held, and what the running operation has
\* still to drop, to copy and to write is there.
NoDangling ==
  /\ \A l \in Locs \ Leaving : mem[l] \in Blocks => kind[mem[l]] # "free"
  /\ \A i \in DOMAIN todo : /\ todo[i].do # "leave" => Live(todo[i].to)
                            /\ todo[i].do = "copy" => Live(todo[i].from)

\* A reference that is still used is to an element of a block that is there:
\* no statement between the one that makes it and the one that uses it frees
\* the block (lower_hir.c evaluates the assigned value and the indexes first).
ReferenceValid ==
  pending # None =>
    /\ IsRef(mem[pending]) => Live(mem[pending].ref)
    /\ IsStr(mem[pending]) => kind[mem[pending].str] = "owned"

\* A block that is not held from a frame or from a block that is there, and was
\* not lost by overwriting, is freed: only blocks that hold each other remain.
NothingForgotten ==
  \A b \in Blocks :
    kind[b] = "free" \/ lost[b] > 0
    \/ \E l \in Locs : mem[l] = b /\ Live(l)

\* Dropping and copying come to an end, also on blocks that hold each other.
OperationsEnd == (todo # <<>>) ~> (todo = <<>>)

-------------------------------------------------------------------------------
\* The inductive invariant.

RefSlots == (0 .. MaxDepth) \X NamesOf(Refs)
Task == [do : {"drop", "release"}, to : Locs] \cup [do : {"copy"}, to : Locs, from : Locs]
        \cup [do : {"make"}, to : Locs, dims : Nat] \cup [do : {"leave"}]

TypeOK ==
  /\ mem \in [Locs -> Value]
  /\ kind \in [Blocks -> {"free", "counted", "owned"}]
  /\ cnt \in [Blocks -> Nat]
  /\ todo \in Seq(Task)
  /\ rets \in Seq(NamesOf(Tmps)) /\ depth <= MaxDepth
  /\ pending \in RefSlots \cup {None}
  /\ lost \in [Blocks -> Nat]

Drops(i) == todo[i].do \in {"drop", "release"}
Scheduled == {todo[i].to : i \in {j \in DOMAIN todo : Drops(j)}}

\* References are in their slots only, and only of statements.
RefsInSlots == \A l \in Locs \ RefSlots : mem[l] \in Blocks \cup {Void}

\* A set of blocks is held from outside of it, by a location that is not to be
\* dropped or by a lost value.
Entered(U) ==
  \E b \in U : lost[b] > 0 \/ \E h \in Locs \ Scheduled :
                                mem[h] = b /\ (h \in Slots \/ h[1] \notin U)

\* The block stays: every set of blocks that it is in is held from outside.
Anchored(b) == \A U \in SUBSET Blocks : b \in U => Entered(U)
Secure(l) == l \in Slots \/ (kind[l[1]] = "counted" /\ Anchored(l[1]))

\* Counts and kinds.
KindFits ==
  \A b \in Blocks :
    /\ kind[b] = "free" => cnt[b] = 0
    /\ kind[b] = "owned" => cnt[b] = 1
    /\ kind[b] = "counted" => cnt[b] > 0 \/ \E l \in Leaving : mem[l] = b
    /\ kind[b] # "counted" => \A k \in 1 .. N : mem[<<b, k>>] = Void

\* A block is released when its elements are dropped; nothing holds it any more.
ReleaseFits(i) ==
  LET b == mem[todo[i].to]
  IN  /\ IsCounted(b) /\ cnt[b] = 0
      /\ \A k \in 1 .. N : \/ mem[<<b, k>>] = Void
                           \/ \E j \in 1 .. i - 1 : Drops(j) /\ todo[j].to = <<b, k>>

\* What is dropped is in a frame, in a block that stays or in one released later.
DropFits(i) ==
  LET l == todo[i].to
  IN  \/ Secure(l)
      \/ \E j \in i + 1 .. Len(todo) : todo[j].do = "release" /\ mem[todo[j].to] = l[1]

TasksFit ==
  \A i \in DOMAIN todo :
    /\ Drops(i) => DropFits(i)
    /\ todo[i].do = "release" =>
         /\ ReleaseFits(i)
         /\ \A j \in 1 .. i - 1 : Drops(j)
         /\ \A j \in 1 .. i - 1 : todo[j].do = "release" => mem[todo[j].to] # mem[todo[i].to]
    /\ todo[i].do \in {"copy", "make"} => Secure(todo[i].to)
    /\ todo[i].do = "copy" => Secure(todo[i].from) /\ mem[todo[i].from] \in Blocks \cup {Void}
    /\ todo[i].do = "make" => Scheduled = {}
    /\ todo[i].do = "leave" => i = Len(todo) /\ depth > 0 /\ pending = None

DropsOnce == \A i, j \in DOMAIN todo : Drops(i) /\ Drops(j) /\ todo[i].to = todo[j].to => i = j

\* The block that a reference points into stays.
RefsAnchored ==
  pending # None =>
    /\ IsRef(mem[pending]) => Secure(mem[pending].ref)
    /\ IsStr(mem[pending]) => Anchored(mem[pending].str) /\ kind[mem[pending].str] = "owned"

\* All of it.  Every statement and every step of a drop, a copy or a make keeps
\* it, and it has what the properties above say.
HeapInv ==
  /\ TypeOK
  /\ RefsInSlots
  /\ CountExact
  /\ KindFits
  /\ TasksFit
  /\ DropsOnce
  /\ RefsAnchored
=============================================================================
