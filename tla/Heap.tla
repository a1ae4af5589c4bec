--------------------------------- MODULE Heap ---------------------------------
(***************************************************************************)
(* The memory of a compiled program: what the statements that lower_hir.c  *)
(* emits do, through the operations of x86_64_core/proxy, to the values in *)
(* the frames and in the heap, and to the counts of the heap's blocks.     *)
(*                                                                         *)
(* A location is a slot of a frame or an element of a block, mem says what *)
(* it holds.  A value is a block, a reference to an element (value_ref), a *)
(* reference into a string (string_elem_ref) or Void, which stands for all *)
(* types that own nothing.  Blocks are shared and counted ("counted":      *)
(* arrays and objects) or have one holder and are copied ("owned": strings *)
(* and errors, an error together with the message inside it).              *)
(*                                                                         *)
(* An operation that calls others for each element, or one after another,  *)
(* is a list of tasks; the C stack is what is left of it (todo).           *)
(***************************************************************************)
EXTENDS Integers, Sequences, FiniteSets

CONSTANTS Blocks,      \* addresses of the heap's blocks
          N,           \* elements of an array, members of an object
          Vars,        \* sequences of names: the variables,
          Tmps,        \*   the temporaries,
          Refs,        \*   those that are written by INDEX_REF and MEMBER_REF,
          Params,      \*   and the parameters of a subroutine
          MaxDepth,    \* bound on the calls that are active
          MaxCount,    \* bound on the count of a block
          Void, None

NamesOf(s) == {s[i] : i \in DOMAIN s}
Names == NamesOf(Vars) \cup NamesOf(Tmps) \cup NamesOf(Refs) \cup NamesOf(Params)
Slots == (0 .. MaxDepth) \X Names       \* frame 0 has the result of main
Elems == Blocks \X (1 .. N)
Locs  == Slots \cup Elems
Value == Blocks \cup {Void} \cup [ref : Elems] \cup [str : Blocks]

\* The names of a subroutine are distinct, and there is a frame for main.
Locals == Vars \o Tmps \o Refs

ASSUME HeapAssumption ==
  /\ IsFiniteSet(Blocks)
  /\ N \in Nat /\ MaxDepth \in Nat \ {0} /\ MaxCount \in Nat
  /\ \A s \in {Vars, Tmps, Refs, Params} : s \in Seq(NamesOf(s))
  /\ \A i, j \in DOMAIN Locals : Locals[i] = Locals[j] => i = j
  /\ NamesOf(Locals) \cap NamesOf(Params) = {}
  /\ Slots \cap Elems = {}
  /\ Void \notin Blocks \cup [ref : Elems] \cup [str : Blocks]
  /\ Blocks \cap ([ref : Elems] \cup [str : Blocks]) = {}
  /\ [ref : Elems] \cap [str : Blocks] = {}
  /\ None \notin Slots

VARIABLES mem,      \* what each location holds
          kind,     \* of each block: "free", "counted" or "owned"
          cnt,      \* ref_cnt of each block
          todo,     \* what the running operation has still to do
          rets,     \* for each active call the temporary it returns to
          pending,  \* the slot with the reference that is being used, or None
          lost      \* ghost: how often a value of the block was overwritten undropped

vars == <<mem, kind, cnt, todo, rets, pending, lost>>
depth == Len(rets)

Free == {b \in Blocks : kind[b] = "free"}
IsCounted(v) == v \in Blocks /\ kind[v] = "counted"
IsOwned(v) == v \in Blocks /\ kind[v] = "owned"
IsRef(v) == v \in [ref : Elems]
IsStr(v) == v \in [str : Blocks]

Slot(name) == <<depth, name>>
SlotsOf(s) == {Slot(n) : n \in NamesOf(s)}
Places  == SlotsOf(Vars) \cup SlotsOf(Params)      \* what can be assigned to
Results == SlotsOf(Tmps)                           \* what statements write to
Sources == Places \cup Results                     \* what statements read

-------------------------------------------------------------------------------
\* Tasks.

Drop(l) == [do |-> "drop", to |-> l]
Copy(l, from) == [do |-> "copy", to |-> l, from |-> from]
Make(l, dims) == [do |-> "make", to |-> l, dims |-> dims]
Release(l) == [do |-> "release", to |-> l]
Leave == [do |-> "leave"]

DropAll(names) == [i \in DOMAIN names |-> Drop(Slot(names[i]))]
DropNoElements(b) == <<>>
DropElements(b) == [i \in 1 .. N |-> Drop(<<b, i>>)]
MakeElementsAlike(b, dims) == [i \in 1 .. N |-> Make(<<b, i>>, dims + 1)]
MakeElements(b, dims) == [i \in 1 .. N |-> Make(<<b, i>>, dims)]

\* A location is written as it is: what it held is not dropped.
Lost(ls) == [b \in Blocks |-> lost[b] + Cardinality({l \in ls : mem[l] = b})]
Put(l, v) == mem' = [mem EXCEPT ![l] = v] /\ lost' = Lost({l})

\* A fresh block; its elements are void.
Alloc(b, k, l) ==
  /\ b \in Free
  /\ kind' = [kind EXCEPT ![b] = k]
  /\ cnt' = [cnt EXCEPT ![b] = 1]
  /\ mem' = [x \in Locs |-> IF x = l THEN b ELSE IF x \in {b} \X (1 .. N) THEN Void ELSE mem[x]]
  /\ lost' = Lost({l})

Head1 == Head(todo)
Running(do) == todo # <<>> /\ Head1.do = do

\* op_drop of what owns nothing: void_init.
DropPlain ==
  /\ Running("drop") /\ mem[Head1.to] \notin Blocks
  /\ mem' = [mem EXCEPT ![Head1.to] = Void]
  /\ todo' = Tail(todo)
  /\ UNCHANGED <<kind, cnt, rets, pending, lost>>

\* op_drop of a string or an error.
DropOwned ==
  /\ Running("drop") /\ IsOwned(mem[Head1.to])
  /\ kind' = [kind EXCEPT ![mem[Head1.to]] = "free"]
  /\ cnt' = [cnt EXCEPT ![mem[Head1.to]] = 0]
  /\ mem' = [mem EXCEPT ![Head1.to] = Void]
  /\ todo' = Tail(todo)
  /\ UNCHANGED <<rets, pending, lost>>

\* op_drop of an array or an object: the count reaches zero, or it does not.
IsLastEarly(b) == cnt[b] - 1 <= 1
IsLast(b) == cnt[b] - 1 = 0

DropShared ==
  /\ Running("drop") /\ IsCounted(mem[Head1.to]) /\ ~IsLast(mem[Head1.to])
  /\ cnt' = [cnt EXCEPT ![mem[Head1.to]] = @ - 1]
  /\ mem' = [mem EXCEPT ![Head1.to] = Void]
  /\ todo' = Tail(todo)
  /\ UNCHANGED <<kind, rets, pending, lost>>

DropLastFreesFirst ==
  /\ Running("drop") /\ IsCounted(mem[Head1.to]) /\ IsLast(mem[Head1.to])
  /\ cnt' = [cnt EXCEPT ![mem[Head1.to]] = @ - 1]
  /\ todo' = <<Release(Head1.to)>> \o DropElements(mem[Head1.to]) \o Tail(todo)
  /\ UNCHANGED <<mem, kind, rets, pending, lost>>

DropLast ==
  /\ Running("drop") /\ IsCounted(mem[Head1.to]) /\ IsLast(mem[Head1.to])
  /\ cnt' = [cnt EXCEPT ![mem[Head1.to]] = @ - 1]
  /\ todo' = DropElements(mem[Head1.to]) \o <<Release(Head1.to)>> \o Tail(todo)
  /\ UNCHANGED <<mem, kind, rets, pending, lost>>

\* free(data), void_init(self).
ReleaseBlock ==
  /\ Running("release")
  /\ kind' = [kind EXCEPT ![mem[Head1.to]] = "free"]
  /\ mem' = [mem EXCEPT ![Head1.to] = Void]
  /\ todo' = Tail(todo)
  /\ UNCHANGED <<cnt, rets, pending, lost>>

\* op_copy: arrays and objects count, strings and errors duplicate.
CopyUncounted(l, v) == IsCounted(v) /\ Put(l, v) /\ UNCHANGED <<cnt, kind>>

CopyShared(l, v) ==
  /\ IsCounted(v)
  /\ cnt' = [cnt EXCEPT ![v] = @ + 1]
  /\ Put(l, v)
  /\ UNCHANGED kind

CopyOwned(l, v) == IsOwned(v) /\ \E b \in Blocks : Alloc(b, "owned", l)

CopyPlain(l, v) == v \notin Blocks /\ Put(l, v) /\ UNCHANGED <<kind, cnt>>

CopyValue ==
  /\ Running("copy")
  /\ \/ CopyShared(Head1.to, mem[Head1.from])
     \/ CopyOwned(Head1.to, mem[Head1.from])
     \/ CopyPlain(Head1.to, mem[Head1.from])
  /\ todo' = Tail(todo)
  /\ UNCHANGED <<rets, pending>>

\* make_array_recursive: a length of zero leaves out as it is.
MakeNothing ==
  /\ Running("make") /\ Head1.dims = 0
  /\ todo' = Tail(todo)
  /\ UNCHANGED <<mem, kind, cnt, rets, pending, lost>>

MakeBlock ==
  /\ Running("make") /\ Head1.dims > 0
  /\ \E b \in Blocks :
       /\ Alloc(b, "counted", Head1.to)
       /\ todo' = MakeElements(b, Head1.dims - 1) \o Tail(todo)
  /\ UNCHANGED <<rets, pending>>

\* The epilogue: the frame is given up, the copies of the arguments undropped.
LeaveFrame ==
  /\ Running("leave")
  /\ lost' = Lost(SlotsOf(Params))
  /\ mem' = [l \in Locs |-> IF l \in SlotsOf(Params) THEN Void ELSE mem[l]]
  /\ rets' = SubSeq(rets, 1, depth - 1)
  /\ todo' = Tail(todo)
  /\ UNCHANGED <<kind, cnt, pending>>

Work == \/ DropPlain \/ DropOwned \/ DropShared \/ DropLast \/ ReleaseBlock
        \/ CopyValue \/ MakeNothing \/ MakeBlock \/ LeaveFrame

-------------------------------------------------------------------------------
\* Statements: each runs when the one before is done.

Ready == depth > 0 /\ todo = <<>>

SettledNever == pending' = pending

\* A reference that INDEX_REF or MEMBER_REF makes is used by the statements
\* that follow; after any other statement it is not used again.
Settled == pending' = None
Using == pending' = pending

CanCopy(v) == /\ IsCounted(v) => cnt[v] < MaxCount
              /\ IsOwned(v) => Free # {}

\* Literals of plain types, results of operations, functions, print, and what
\* an external subroutine returns.  ++ and -- use a reference before and after.
Plain == \E t \in Results :
  /\ Ready /\ Put(t, Void)
  /\ Using
  /\ UNCHANGED <<kind, cnt, todo, rets>>

\* String literals, + on strings, operations that fail with an error.
NewOwned == \E t \in Results, b \in Blocks :
  /\ Ready /\ Alloc(b, "owned", t)
  /\ Using
  /\ UNCHANGED <<todo, rets>>

\* Binary operations on different types: the error is made, then forgotten.
Mismatch == \E t \in Results, b \in Free :
  /\ Ready
  /\ kind' = [kind EXCEPT ![b] = "owned"]
  /\ cnt' = [cnt EXCEPT ![b] = 1]
  /\ mem' = [mem EXCEPT ![t] = Void]
  /\ lost' = [Lost({t}) EXCEPT ![b] = @ + 1]
  /\ Settled
  /\ UNCHANGED <<todo, rets>>

\* > and >= call the less of the left operand with the operands swapped: if the
\* left one is an error, its less copies the right one.
Greater == \E t \in Results : \E e, s \in Sources \ {t} :
  /\ Ready /\ IsOwned(mem[e]) /\ CanCopy(mem[s])
  /\ todo' = <<Copy(t, s)>>
  /\ Settled
  /\ UNCHANGED <<mem, kind, cnt, rets, lost>>

\* make: an object, or an array with lengths, of which the first dims are not 0.
MakeValue == \E t \in Results, dims \in 0 .. 2 :
  /\ Ready
  /\ Cardinality(Free) >= (IF dims = 2 THEN 1 + N ELSE dims)
  /\ todo' = <<Make(t, dims)>>
  /\ Settled
  /\ UNCHANGED <<mem, kind, cnt, rets, lost>>

\* The elements that one or two indexes lead to.
Inside(v) ==
  LET ElementsOf(u) == IF IsCounted(u) THEN {u} \X (1 .. N) ELSE {}
  IN  ElementsOf(v) \cup UNION {ElementsOf(mem[l]) : l \in ElementsOf(v)}

\* op_index, op_member.
Index == \E t \in Results : \E s \in Sources \ {t} : \E l \in Inside(mem[s]) :
  /\ Ready /\ CanCopy(mem[l])
  /\ todo' = <<Copy(t, l)>>
  /\ Settled
  /\ UNCHANGED <<mem, kind, cnt, rets, lost>>

\* op_assign of every type: the value that is there is dropped first.
Assignment(l, s) == IF l = s THEN <<>> ELSE <<Drop(l), Copy(l, s)>>

Assign == \E l \in Places, s \in Sources :
  /\ Ready /\ CanCopy(mem[s])
  /\ todo' = Assignment(l, s)
  /\ Settled
  /\ UNCHANGED <<mem, kind, cnt, rets, lost>>

\* op_index_ref, op_member_ref of a value, or of what the last reference is to.
Referred(s) == IF IsRef(mem[s]) THEN mem[mem[s].ref] ELSE mem[s]

Bases(r) == Sources \cup ({pending} \ {r, None})

IndexRef == \E r \in SlotsOf(Refs) : \E s \in Bases(r) :
  /\ Ready
  /\ \/ /\ \E l \in Inside(Referred(s)) : Put(r, [ref |-> l])
        /\ UNCHANGED <<kind, cnt>>
     \/ /\ IsOwned(Referred(s)) /\ Put(r, [str |-> Referred(s)])
        /\ UNCHANGED <<kind, cnt>>
     \/ \E b \in Blocks : Alloc(b, "owned", r)              \* an error
  /\ pending' = r
  /\ UNCHANGED <<todo, rets>>

\* op_assign of value_ref, of string_elem_ref and of an error in its place.
RefAssign == \E s \in Sources :
  /\ Ready /\ pending # None /\ CanCopy(mem[s])
  /\ \/ /\ IsRef(mem[pending])
        /\ todo' = <<Drop(mem[pending].ref), Copy(mem[pending].ref, s)>>
        /\ UNCHANGED <<mem, kind, cnt, lost>>
     \/ /\ IsStr(mem[pending]) /\ mem[s] = Void
        /\ UNCHANGED <<mem, kind, cnt, lost, todo>>
     \/ /\ IsStr(mem[pending])
        /\ \E b \in Blocks : Alloc(b, "owned", pending)
        /\ UNCHANGED todo
     \/ /\ ~IsRef(mem[pending]) /\ ~IsStr(mem[pending])
        /\ todo' = Assignment(pending, s)
        /\ UNCHANGED <<mem, kind, cnt, lost>>
  /\ Using
  /\ UNCHANGED rets

\* op_deref.  NewOwned stands for what has no deref, Plain for a character.
Deref == \E t \in Results :
  /\ Ready /\ pending # None /\ ~IsStr(mem[pending])
  /\ LET l == IF IsRef(mem[pending]) THEN mem[pending].ref ELSE pending
     IN  /\ IsRef(mem[pending]) \/ IsOwned(mem[pending])
         /\ CanCopy(mem[l])
         /\ todo' = <<Copy(t, l)>>
  /\ Using
  /\ UNCHANGED <<mem, kind, cnt, rets, lost>>

\* A call: the callee copies the arguments into its frame.
Call == \E t \in Results : \E args \in [DOMAIN Params -> Sources \ {t}] :
  /\ Ready /\ depth < MaxDepth
  /\ \A i \in DOMAIN args : IsCounted(mem[args[i]]) => cnt[mem[args[i]]] + Len(Params) <= MaxCount
  /\ Cardinality({i \in DOMAIN args : IsOwned(mem[args[i]])}) <= Cardinality(Free)
  /\ rets' = Append(rets, t[2])
  /\ todo' = [i \in DOMAIN Params |-> Copy(<<depth + 1, Params[i]>>, args[i])]
  /\ Settled
  /\ UNCHANGED <<mem, kind, cnt, lost>>

\* The end of a subroutine: variables and temporaries are dropped.
Deinit == DropAll(Locals) \o <<Leave>>

\* return with a value assigns it to the temporary of the caller.
Return == \E s \in Sources :
  /\ Ready /\ CanCopy(mem[s])
  /\ todo' = Assignment(<<depth - 1, rets[depth]>>, s) \o Deinit
  /\ Settled
  /\ UNCHANGED <<mem, kind, cnt, rets, lost>>

End ==
  /\ Ready
  /\ todo' = Deinit
  /\ Settled
  /\ UNCHANGED <<mem, kind, cnt, rets, lost>>

\* main has returned: the process exits.
Exited == depth = 0 /\ todo = <<>> /\ UNCHANGED vars

\* locals_init: variables and temporaries are void.
Init ==
  /\ mem = [l \in Locs |-> Void]
  /\ kind = [b \in Blocks |-> "free"]
  /\ cnt = [b \in Blocks |-> 0]
  /\ todo = <<>>
  /\ \E t \in NamesOf(Tmps) : rets = <<t>>
  /\ pending = None
  /\ lost = [b \in Blocks |-> 0]

Statement == \/ Plain \/ NewOwned \/ Mismatch \/ Greater \/ MakeValue \/ Index
             \/ Assign \/ IndexRef \/ RefAssign \/ Deref \/ Call \/ Return \/ End

Next == Work \/ Statement \/ Exited

\* The processor goes on with an operation that has begun.
Spec == Init /\ [][Next]_vars /\ WF_vars(Work)
=============================================================================
