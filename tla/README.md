# natrix in TLA+

Specifications, model-checking instances and proofs for natrix: a compiler
for a small typed language (`src/src/compiler`), the runtime its programs are
linked with (`src/src/x86_64_core`, `src/src/x86_64_std`), a ptrace debugger
for them (`src/src/debugger`) and the containers they share (`src/src/util`).

## Inventory

| Component | State | Operations | What is hard | What makes it correct |
|---|---|---|---|---|
| debugger (`debugger/ctx`, `debugger/cmd`) | `ctx`: state of debugger and target, pid, file, breakpoints with ids, current line | the commands; `ctx_tg_*`, `ctx_bp_*` | the process runs and dies concurrently; a breakpoint is lifted and put back around a step; every ptrace call may fail | the program is not changed by being debugged; no breakpoint is lost; the debugger's view of the process is right; commands return |
| debug information (`debugger/ctx/ctx_debug.c`, `codegen/x86_64_build/debug*`) | tables of lines, subroutines, strings | emit, read, look up | two programs agree on a layout; `print` and `where` call subroutines in the stopped process | the debugger shows where the process is and what its values are, and does not disturb it |
| driver (`compiler/main.c`, `exception`) | stage, list of exceptions | stages in order | an error stops later stages | nothing is emitted after an error |
| lexer, parser, ast | syntax tree | generated by ANTLR | - | - |
| HIR construction (`hir_build`) | worklists of templates, scopes | lower the tree, bind types, expand templates, bind symbols | expansion creates new work; recursion; shadowing | expansion ends or is refused, each instance once, each name bound to its declaration |
| type table (`type_table`) | interned types | insert, compare, monomorphise | recursive types, equality of unknown types | equal types have one entry |
| lowering (`mir_build`) | basic blocks, scopes of break and return | lower each statement, merge blocks | break, return, loops; merging while iterating | every path of the source is a path of the blocks, and no other |
| code generation (`codegen/x86_64_build`) | the frame's size, the place of each value, the text | statements, blocks, subroutines, classes to instructions | the stack pointer is counted by hand; arguments, copies and results share the stack; registers do not survive calls | the code does what the MIR says; the stack is aligned; each value is dropped once |
| assembly output, dot, spans | - | formatting | - | - |
| runtime values (`x86_64_core/proxy`) | heap of proxies and values with reference counts | create, copy, reference, delete, arithmetic, casts | shared ownership, references into containers, widths | nothing is used after it is freed or freed twice; results have their width |
| builtins, standard library | - | make, unwrap, print, read; libc wrappers | - | - |
| util | hash sets, lists, string tables | insert, find, erase, iterate | growth and erasing while iterating | a set holds what was inserted and not erased |

The compiler passes hand one data structure on to the next; the compiled
program calls the runtime at fixed entry points (`dispatch` functions of
`proxy/registry.c`); the debugger reads the sections that the compiler emits
and drives the program through `ptrace(2)`, `waitpid(2)` and `kill(2)`. Only
the debugger has concurrency, and only it talks to something that can fail at
any time; the other parts are sequential, and what is hard in them are long
sequences of legal calls.

## Plan

1. Debugger: `Machine`, `Tracee`, `Program`, `Debugger` and its properties,
   invariant and proofs (done).
2. Lowering and merging of basic blocks: `Statements`, `Expressions`,
   `LowerHir`, `MirBuild`, the invariant of merging and its proof (done).
3. The runtime's heap: values, references, counts, and what the statements of
   the MIR do to them: `Heap` (done); then the generated code: slots,
   alignment, registers across calls: `Codegen`, `Processor` (done).
4. The numbers of the runtime at their widths (done).
5. Hash set: `KeyMap`, `HashSet` and its proofs (done).
6. The compiler's front end: type table, binding of types, expansion of
   templates, binding of symbols, layout of classes, and the driver that runs
   the stages (done).
7. Debug information: what the generator notes of labels and offsets, its
   sections, the debugger's reading of them, `print` and `where` (done).
   What is left is `print` at the level of ptrace, with breakpoints met and
   the process killed inside the calls it makes.
8. More proofs: the heap's counts, the numbers, the stack in the generated code
   and in every execution of it (done).

## The debugger

| Module | Models |
|---|---|
| `Machine` | instructions and what they do to the instruction pointer and the return addresses (external) |
| `Tracee` | the debugged process and the kernel's side of ptrace (external) |
| `Program` | a program that nobody debugs: the abstract specification |
| `Debugger` | `ctx`, `ctx_tg_*`, `ctx_bp_*` and the commands |
| `DebuggerProperties` | what it promises, and the inductive invariant |
| `DebuggerProofs` | its proof and the theorems |
| `MCDebugger` | small programs |

`Debugger` has the fields of `ctx` under their names. The debugger is one
sequential process; `at` is its program counter and `cmd` the arguments and
locals of the running command. One action is the code from one system call
that can race with the process or with its killer to the next: `ctx_tg_wait`
is `Wait` (waitpid) and `SigInfo` (PTRACE_GETSIGINFO and `ctx_tg_brkpt_fix`),
`ctx_tg_stepi` is `Stepi`, `SingleStep`, (`Wait`, `SigInfo`) and `Replace`,
`ctx_tg_continue` adds `Cont`, and `cmd.then` says where `ctx_tg_wait` returns
to. Each command has an action for its start (`Cmd...`) and one for the code
behind each `ctx_tg_*` call it makes. `DebuggeeStep` is one instruction of the
process while it is resumed, `DebuggeeKilled` a SIGKILL from anyone, at any
time.

What is abstracted:

- An instruction has one address and stands for its first byte, the one an
  int3 replaces (the NOTE of `ctx_target.c:143`).
- Placing and removing a breakpoint (peek, then poke) is one step. A kill in
  between differs only in a saved byte of a dead process, which is read by
  nobody before the next run overwrites it.
- When registers cannot be read the code goes on with uninitialised ones:
  the address is then any.
- `is_enabled` is always 1; file and line of a breakpoint are only printed.
- Commands that only read are not actions. `n` is at least 1. The repeat of
  the last command on an empty line is the command typed again.
- A signal other than SIGKILL never reaches a process that is stopped.
- `hist` is not in the code: it records what the running command has executed.

### Runs

| Run | Question | Result |
|---|---|---|
| `debugger` | safety and refinement with every command, two files, n up to 2, two breakpoint ids, kills from outside | holds (about 1.3 million states) |
| `debugger_returns` | liveness for a program that ends | holds |
| `stepi_breakpoint` | does `stepi` step an instruction? | not from a plain stop at a breakpoint |

Bounds: five addresses hold a call, its return point, a subroutine, a loop and
an exit; one return address is a subroutine call, three are a recursion;
`MaxBreaks` bounds ids (nexti may take one more); `MaxCounted` caps counters
of `hist`, one above the largest n is enough to see n exceeded. A stack
overflow is a fault, as on the machine. Two addresses may be unmapped in one
file and mapped in the other, so that placing fails.

Three more such cases were met and are seen with the same modules. With `n` =
2, `nexti` reads the registers before its loop and takes every turn's
instruction from them, so it may run past any number of instructions
(`NextiBounded` is checked with `Counts` {1}). `kill` with a signal that a
stopped process does not see waits for a stop that never comes
(`CommandReturns` is checked with `Signals` {"KILL"}). And `continue` does not
get past a breakpoint on an instruction that faults: the step of
`ctx_tg_stepi` ends with SIGSEGV, the int3 is put back, and the process that
`ctx_tg_continue` resumes stops at it again; the signal is lost
(`BreakpointNeverSticks` says when it holds, and the shorter program of
`MCDebugger` ends in such an instruction).

Fairness (`FairSpec`): the debugger takes its next step when it can, and the
kernel schedules the resumed process. Nothing is assumed of the user and of
whoever kills the process. Liveness is checked on a program without loops:
`step` runs until the line changes, so a program that loops in one line keeps
it from returning, by design.

### Proofs

`DebuggerProofs` proves, for every set of files, every program, every bound
and with or without kills from outside: `IInv` is an invariant (`Invariance`),
hence `TypeOK` (`TypeCorrect`), `Transparent`, `NoLostBreakpoint`, `NeverOwnGroup`,
`TargetStateHonest` (a live process is known between commands) and `IdsUnique`; and `Spec` implements `Program`
(`DebuggingIsTransparent`). The assumptions are those named in `Machine`,
`Tracee` and `Debugger`: types of the constants, a call has an instruction
behind it, `NoLine` and `NoFile` are no lines and files.

None of the safety properties is inductive. `ProcessKnown` and `WaitsFor` say
in which state the process can be while the debugger is at each point;
`Lifted` says that a breakpoint that is in the table and not in the text is
the one in the hands of `ctx_tg_stepi` (`b`) or one that `cmd_run` has still
to place (`todo`); `TempIsLast` says that nexti's own breakpoint has the last
id, which makes giving it back safe. The refinement maps the instruction
pointer back over an int3 that `ctx_tg_brkpt_fix` has not yet undone; a step
of the process is a step of the file because `Transparent` says that what it
fetches is the file's instruction or a debugger's int3, which does nothing but
stop.

Three properties of whole commands need more than where the debugger is: each
has an invariant of its own that is inductive together with `IInv` (TLC holds
them on the programs of the runs).

- `TableRestored` (`TableIsRestored`) from `TableKept`: while `nexti` or `next`
  runs and the process lives, the table is the one of before and, in
  `cmd.temp`, their own breakpoint; a `ctx_tg_*` call fails only when the
  process is dead, so the early exit that leaves the breakpoint behind is not
  taken before.
- `BreakpointNeverSticks` (`BreakpointsAreLeft`) from `PastBreakpoint`: as long
  as a command that began at a breakpoint has executed nothing, the debugger
  still knows that the process is at one, lifts it before it steps
  (`PastStepi`), and once it has stepped it is the instruction of the file
  that does not complete. The property excuses just that (`Completes`).
- `NextiBounded` (`NextiStaysOut`) from `NextiInv`, for `Counts` {1}: once the
  call is executed its return address stays in its place on the stack
  (`StackKept`) until the `ret` that goes there, and there is a breakpoint
  there, nexti's or the user's, armed because the process runs freely. For
  larger `n` the property is false, as said above.

`CommandReturns` (liveness) and `StepiExact` (false) are TLC's.

## Statements to basic blocks

| Module | Models |
|---|---|
| `Statements` | the statements of the HIR, and the machine that executes them: the reference |
| `Expressions` | the expressions of the HIR, and what they mean: the reference |
| `LowerHir` | `mir_build/lower_hir.c`: control flow, expressions, and what the statements made of them do |
| `MirBuild` | `mir_build/mir_build.c`: lowering, then merging (`merge_bb.c`, for one subroutine) unless there was an error |
| `MergeInvariant` | the inductive invariant |
| `MergeProofs` | its proof and the theorems |
| `MirProperties` | the promises that need the statements |
| `MCMirBuild` | all small subroutines |

A subroutine goes through the compiler alone: nothing in `mir_build` is shared
between subroutines but counters. `LowerHir` is a translation of the recursive
functions; `mir_ctx` is a record that they pass on, and the C stack is the
recursion. `MirBuild` keeps the loop of `mir_ctx_bb_merge_subroutine` as steps:
`Keep` or `Merge` one block in front of the list. A block has the fields
`je_ref` and `next_ref` (one field with `jz_ref`) of `mir_bb`; its contents
(`stmts`, `hir_exprs`, always moved together) are the source blocks they come
from. `pos` is not in the code: it says where each source block has got to, so
that a state can be compared with the graph before merging.

`Expressions` gives an expression its meaning with variables, shared arrays and
objects, and places that can be assigned to; `LowerHir` gives it the statements
of `lower_hir.c` with their temporaries and references, and executes them with
the runtime's operations. Operands are evaluated from left to right, the right
side of an assignment before the left, arguments before what is called or
indexed; `&&` and `||` evaluate both sides. Neither order nor evaluating both
sides is documented: they are taken from the code, and what is checked is that
all of an expression keeps to them and that references lead where the
expression says. `UsedAtOnce` is what `Heap` relies on (`ReferenceValid`): a
reference is used by the statements right behind the one that makes it.

What is abstracted: the results of operations other than `++` and `--` (a value
made of the operation and its operands; `Numbers` is about them); what `f` does
(it notes its arguments, changes what it is given first, and returns the last);
`make` gives two elements; debug lines; block ids; the value of a condition,
which may be either. Where the code has no definite meaning it is not compared:
an operand that is a variable and is changed by a later operand is read late
(`ReadsLate`), a string is not indexed past its end, a void value is not
assigned. An index without arguments, which the grammar does not have, and
objects indexed by number are left out. So is `mir_build` with `ignore_errors`
(a driver option), which merges blocks of a program that was refused.

| Run | Question | Result |
|---|---|---|
| `mir_build` | do the blocks do what the statements say, before, during and after merging? are exactly the stray breaks and the meaningless expressions refused? do the statements that an expression becomes do what it means? | yes (about 73 000 states; some 4 500 expressions from two states of the heap) |
| `mir_entry` | is a subroutine entered where its body begins? | not when it begins with a repeat that is left before anything is evaluated |

Bounds: `Depth` is how deep one statement nests (all statements of depth 2,
which holds every loop in every other, with breaks and returns in all places);
`Width` how deep two statements in a row nest, alone and in loops. Expressions
are elements of elements of every kind of base, with indexes that change what is
indexed, and these as operands of `++`, assignments, operators, calls and
methods. Two traces are compared up to `MaxTrace` expressions and outcomes of
conditions: every block of the largest subroutine is reached and every loop
repeated within eight. There is no liveness to check: the loop takes a block off a list in
every step.

`MergeProofs` proves, for every graph of blocks, that `MergeInv` is an
invariant (`MergingIsFaithful`), hence `NoDangling` (`JumpsHaveLabels`) and
`FreedUntouched` (`FreedIsUntouched`). The one assumption, `SubsAssumption`,
says what a graph is: jumps lead to blocks of the subroutine, the list has no
block twice, and blocks without conditions form no loop (`rank`), which TLC
checks of every graph that `LowerHir` makes. The last is needed: a block that
is its own next would be merged into itself and freed. The heart of the
invariant is `Faithful`: each source block sits somewhere in a block that
still exists, and what follows it in the source follows it there, either right
behind it in the same block (`Inside`) or through the same jump (`Outside`).
`PredsComplete` makes it inductive: whoever jumps to a block is known to it,
so no jump is missed when the block goes. That the blocks evaluate what the
statements do (`SameTraces`) and that the body is still in front (`EntryKept`)
are model-checked: they are about recursive definitions.

## The compiler's front end

| Module | Models |
|---|---|
| `TypeTable` | `type_table`: types, equality and hash, what is left to expand |
| `Binding` | `hir_build/bind_types.c`; `hir_build/bind_symbols.c` and the symbol table |
| `ExpandTemplates` | `hir_build/expand_templates.c` |
| `ClassLayout` | the classes in `mir_build/lower_hir.c` |
| `Compiler` | `main.c` and `hir_build.c`: the stages, the exit code, the output file; `hir_build/lower_ast*.c`: the trees of the files become one program |
| `Meaning` | what a program means: the reference, without tables |
| `CompilerProperties` | what each stage promises, in terms of `Meaning` |
| `MCCompiler` | small programs |

The stages are functions from one structure to the next, so each of them is an
operator on a record (`ctx`, which is `hir_ctx` of the file) and the state
machine is the driver: an action is a stage, or one turn of the two worklists
(`hir_expand_templates_all`, `mir_lower_classes`). A type is named by its place
in the table, as the code names it by a pointer: two entries may be equal
without being the same, and what is equal changes when a type is changed in
place. The hashed indices of `expand_templates.c` keep an element where its hash
was when it was entered; whether a changed type is still found then depends on
the buckets, so both are possible (`lucky`). Stages can crash as well as report:
a literal that fits no type, a method of a class that repeats a typename before
the last one (`class B<T, T, U>`: `U` is not declared then, and the type of `this`
is taken for found, `bind_types.c:864`), a message about a name that is nowhere in
a file (`this`), a class that is its own ancestor, whose hash does not end.

What is abstracted: how expressions nest (an expression is an identifier, a
literal or a type that is made; all three are bound by what they are and not by
what is around them); imports, whose types are builtin; the text of a name; the
order in which methods of one class are found in a hash table. Whether a body can
be lowered and code generated is a choice in `Compiler`: `MirBuild` and the
modules on generated code are about that. `--ignore-errors` and the options that
only print are left out.

| Run | Question | Result |
|---|---|---|
| `front_end` | does each stage do to a program what the language says, and is it reported exactly when it means nothing? | yes, under the conditions below (about 22 000 states of 1 800 programs) |
| `template_references` | do references to a class stay valid when its instance gets its own class? | no |

The programs are families, each of all programs of one shape: two classes with
types that are declared or not (`Binding`), names that meet (`Scoping`), three
classes with fields and methods that meet (`Layout`), files that are not found
or do not parse (`Lines`), chains of templates, some without an end
(`Templates`), generic classes with generic parents (`Inheriting`), those
that name themselves (`Recursive`), and those that repeat a typename (`Repeating`). `Limit` is 9 where the code has 100: long
enough for all finite chains of these programs, and reached by the others.
Literals are small against `MaxLong` and `MaxUlong`.

Two conditions say where the code does not do what the text means. `NoCapture`:
a class without typenames is not named like a typename of another, which would be
taken for it or not depending on what was resolved before. `Plain`: a class whose
parents depend on its typenames is only written with types that have none. When
such a type is written in a template, expansion makes a second type for one class,
or refuses a valid program, because the class of an instance was changed in place
after the instance was hashed (`ReferencesStayValid`). A program that takes `Limit`
types off the worklist is compiled without the rest.

`VerdictRight` has an exception too: a file of the command line that is not found is
printed as an error and left out, but the rest is compiled, the assembly file
written, and the exit code is 0 (`main.c:197`). So an exit with 0 says that what was
found is right, not that all that was named was found; the usage text keeps going on
after an error for `--ignore-errors`.

Fairness: weak fairness of `Next`, as a process that runs. No liveness is checked:
the one loop that may not end is bounded by `Limit`.

## Hash set

| Module | Models |
|---|---|
| `KeyMap` | a map from keys to elements: the abstract specification |
| `HashSet` | `util/hashset.c` |
| `HashSetInvariant` | what it promises and the inductive invariant |
| `HashSetProofs` | its proof and the theorems |
| `MCHashSet` | four keys |

A bucket is the sequence of its nodes from `head` on. A node is named by the
key of its element: a set has one node for a key, and replacing the element
keeps both. Every call is an action, but `hashset_insert` is `Insert`, then
`GrowNode`, `GrowBucket` and `GrowDone` for the loops of `hashset_grow`, then
`InsertOver` or `InsertNew`. `it` is the iterator in the caller's hands; the
callers use one at a time, and none after an insertion or an erasure.
`owned` is what the set has taken over and not deleted (`f_new` of every set
is `container_new_move`); `scan` and `seen` are not in the code, they record
where a loop has been.

| Run | Question | Result |
|---|---|---|
| `hashset` | is the set a map, through growing and erasing, are elements deleted once and in time, do loops come to every node once? | yes (about 18 000 states) |

Bounds: with an initial capacity of 2 the four keys share buckets and part
when the set grows; `MaxSize` 8 lets it grow three times (`size` counts
insertions, so erasing and inserting again makes it grow with four keys). No
liveness: every loop of the code goes along a list once.

`HashSetProofs` proves for all keys, elements, hash functions and initial
capacities that `HashInv` is an invariant (`HashSetIsSound`), and from it
`FindSound`, `OwnedIsStored`, `IterationComplete`, `IterationOnce` and that
`HashSet` implements `KeyMap`. The assumptions are `KeysAssumption` (an
element has a key, a key a hash) and `CapacityAssumption`. `InPlace` says that
a node is in the bucket of its hash, once; `Moved` that growing holds a node
in one array only and has emptied the buckets behind it, without which
`GrowDone` would lose nodes; `IteratorFits` that `prev` is the node before,
which `Unlink` relies on. `LoadBounded`
(`BucketsAreNotFull`) needs `LoadInv` besides: `size`, which forgets erasures, is
at least the number of nodes, and at each point of an insertion at most what the
load factor allows there.

## The runtime's heap

| Module | Models |
|---|---|
| `Heap` | the values of a program: `x86_64_core/proxy`, `builtin/make.c`, and the statements of the MIR as `codegen/x86_64_build/inst` emits them |
| `HeapProperties` | what they promise, and the inductive invariant |
| `HeapProofs` | its proof and the theorems |
| `MCHeap` | few names and blocks |

A program is any sequence of the statements that `lower_hir.c` can emit; each
statement is an action, calls and returns included. What such a statement does
beyond its first step is a list of tasks (`todo`), one `op_drop`, `op_copy` or
allocation each, in the order of the code: dropping the last value of an array
puts the drops of its elements in front, as the recursion of
`array_op_drop` does, and then `Release`, which is `free` and `void_init`. So
the state between any two of them can be looked at, with a block whose count is
zero and whose elements are partly gone.

`mem` maps slots of frames and elements of blocks to values. Arrays and objects
are "counted" blocks (`ref_cnt` is `cnt`). Strings and errors are "owned": they
have no count in the code, are duplicated by `op_copy` and freed by `op_drop`,
and `cnt` is 1 while they live; an error is one block with its message. All
types that own nothing are `Void`. The names in `Refs` are the temporaries that
`INDEX_REF` and `MEMBER_REF` write; `pending` is the one that the next
statements may use, because `lower_hir.c` evaluates the assigned value and all
indexes before it makes a reference, and nothing but reads and writes through
it (and the operation of `++` and `--`) comes after. `lost` is not in the code:
it counts values that were overwritten and not dropped, which happens to a
temporary written a second time (in a loop), to the copies of the arguments
when a subroutine returns, and to the error that a binary operation makes
before it returns void. Frame 0 holds the result of `main`.

What is abstracted: what operations compute, so a statement with two outcomes
(a value or an error) may have either; lengths (every block has `N` elements,
an index out of bounds is an error); conversions to text, whose strings live
only inside one operation; the members of a new object, which are void or
methods and own nothing.

| Run | Question | Result |
|---|---|---|
| `heap` | is nothing freed that is held or referred to, is everything freed that is not held, in one subroutine with references? is `HeapInv` an invariant? | yes (about 480 000 states) |
| `heap_calls` | are counts exact, with calls, arguments and results; does every operation end? | yes (about 530 000 states) |

Bounds: in `heap` three blocks of two elements allow a cycle with a tail, an
array that holds another twice, a reference through a reference, a string in an
array. `heap_calls` has two blocks and two active calls, a caller and its
callee. `MaxCount` is how often a statement may come to share a block; only
dropping from a count of two and of one differ. Blocks are symmetric in `heap`;
`heap_calls`, with a liveness property, has no symmetry. Statements that need a
block are not taken when there is none, as the code does not handle a failed
`malloc`.

Fairness: `WF(Work)`, the processor goes on with an operation that has begun.
Nothing is assumed of which statements follow.

`HeapProofs` proves, for any number of blocks, elements, names, references and
active calls, that `HeapInv` is an invariant (`HeapInvariant`), hence
`CountExact` (`CountsExact`), `NoDangling` (`NothingDangles`), `ReferenceValid`
(`ReferencesValid`) and `NothingForgotten` (`NothingIsForgotten`). The one
assumption, `HeapAssumption`, says that blocks are finitely many, that the names
of a subroutine are distinct (each has a place of its own in the frame) and that
there is a frame for `main`. None of the four is inductive. Exact counts do not
say which block a drop in the middle of an operation frees, and a reference is
not counted at all, so the invariant relates three things:

- The list of tasks (`TasksFit`, `DropsOnce`): what is to be dropped, copied or
  written is in a frame, in a block that stays, or in a block that a release
  further down gives up; nothing is dropped twice; a release comes after the drops
  of all its elements, of a block whose count is zero, and no other release is of
  the same block.
- What stays (`Anchored`): a count above zero is not enough, because the blocks
  that hold it may be dropped with it. A block stays when every set of blocks it
  is in is held from outside of the set, by a location that no task is to drop
  (or by a lost value). Dropping leaves such sets as they are: the location that
  is dropped is not one of those that hold from outside (`Scheduled`).
- References (`RefsAnchored`): the block a reference points into stays in this
  sense until the reference is used. At the beginning of a statement nothing is
  scheduled, and the holder by which the base was found, a frame or an element of
  a block that stays, anchors it.

The main part of the proof is that each task keeps the three; a drop that takes
the last count turns one task into `N` + 1 more, which schedules the elements of
the block that is given up. What is anchored stays anchored without them: only
the dropped location holds that block, so a set of blocks that nothing but its
elements held from outside would, together with it, be held by nothing. That every
operation ends (`OperationsEnd`) is model-checked only: it is liveness.

What the model shows and no document denies: values are lost as said above; `>`
and `>=` with an error on the left return a copy of the right operand, because
they swap the operands of the left one's `less` (`Greater`); and blocks that
hold each other are never freed (`NothingForgotten` says that nothing else is).

## The runtime's numbers

| Module | Models |
|---|---|
| `Numbers` | `x86_64_core/proxy/value/*.c` and the tables of `proxy/registry.c`, called as `inst_bb.c` calls them |
| `NumbersProperties` | what the operations promise, and the inductive invariant |
| `NumbersProofs` | its proof and the theorems |

`Heap` says what becomes of the blocks a value owns; `Numbers` says which value
an operation makes. The state is two operands and the result. A statement finds
its operation in the table of its left operand (`op_tbl`), so each file of
`proxy/value` has its operators (`IntUnary`, `IntLogic`, `IntArith`,
`IntCast`, ...): they read the operands at the width of the type, compute in
the type C promotes to and cut the result back. The result may be an operand of
the next operation (`GoOn`). Bitwise operations are computed bit by bit on two's
complement patterns; shifts take the count modulo the width of the register, as
x86 does where C leaves it open; a division without a quotient traps and the
process is dead (`Trap`), and so it is of an array that memory does not hold
(`MakeFails`): `array.c` writes to what `malloc` returns without looking at it.

What is abstracted: a string is its length (over one letter, so that order and
equality are those of lengths), an array or an object is its number of elements,
an element is its index; what a string has at an index, the members of objects
other than `length`, and conversions to text are left out.

| Run | Question | Result |
|---|---|---|
| `numbers` | is arithmetic that of the integers modulo a power of two, do quotient and remainder fit, do casts compose, are indexes and lengths exact, do shifts scale? | yes (about 320 000 states) |

Bounds: a byte has 3 bits, an int 4 and a long 5, so that all pairs of all
values are met and each type is narrower than the next, as 8, 32 and 64 are;
`MaxLength` 2 gives indexes inside, at and past the end, and lengths that memory
holds and that it does not. The state graph is
wide and not deep: every value is an operand to begin with, so the results that
are used again (`GoOn`) lead to states that are there already.

`NumbersProofs` proves the five properties for all widths with byte < int < long,
so for the 8, 32 and 64 bits of the code, which TLC cannot enumerate:
`NumbersAreModular` (`Modular`), `DivisionIsRight` (`DivisionLaw`),
`CastsAreRight` (`CastsCompose`), `IndexIsExact` (`IndexExact`) and
`ShiftsAreRight` (`ShiftsScale`). The invariant (`Computed`) says that the result
is that of the operation on the operands that are still there, that both are
values of their types, and that only a division or a length that memory does not
hold kills the process. The rest is arithmetic:

- `Convert` gives the one number of the type that differs by a multiple of its
  power of two (`ConvertIn`, `ConvertIs`). A narrower power of two divides a wider
  one (`PowerDivides`), so a detour through a wider type, C's promotion or a cast,
  is not seen (`ConvertThrough`).
- Quotient and remainder have the type of the operands (`QuotientFits`) but in
  the case that traps.
- The bits of a number are a sum of powers of two, and a sum of two numbers is
  the bits that differ and twice the bits that both have (`XorIsSum`). `Low` is
  the recursive function of `Bitwise`; the lemmas about it, and `PowerDivides`,
  are inductions by the least counterexample, because the induction theorems of
  the library cannot be instantiated.

Assumed are `PowerAssumption`, what the definition of `^` says of the powers that
are used, since the provers do not know it, and `WidthAssumption`, whose last part
is needed for `IndexExact`: memory holds less than 2^63 elements, of which each
takes more than two bytes. A longer array would have elements at negative indexes,
because an index is compared with the length as an unsigned number.

What the model shows and no document denies: of the negative numbers `make!()`
refuses only -1 of an int or long, which reads as `UINT64_MAX` (`make.c:93`); any other
is taken for a length near 2^64, and the process dies (`MakeFails`) where an error
would do. `IndexExact` says that no array comes of it. A shift by a negative count
or by one not less than the width takes the count modulo the width of the promoted
type (`ShiftsScale`): an int shifted by 32 is unchanged, a byte shifted by 8 is 0.

`cast!<bool>` of a wider number looks at its low byte (`bool.c:16` takes a
`uint8_t`; `BoolOf`): 256 becomes false.

## Generated code

| Module | Models |
|---|---|
| `Codegen` | `codegen/x86_64_build/inst`: the instructions for a program in MIR |
| `Values` | what the runtime makes and finds, as terms |
| `Processor` | the instructions executed, with the runtime's calls |
| `MirMachine` | what a program in MIR does: the abstract specification |
| `DebugInfo` | `debug_emit.c`, which writes the debug information into sections, and `ctx_debug.c`, which reads them |
| `Inspection` | the debugger's `print` and `where` on the program while it runs |
| `CodegenProperties` | what the generated code and its debug information promise |
| `MCCodegen` | 21 programs |
| `CodegenProofs` | the state of the stack at each place of the code, for every program |
| `ProcessorProofs` | the stack pointer and the words of the stack while the code runs, and that debug information is read as it was noted, for every program |
| `Folding` | what is kept by the steps of a fold is kept by the fold |

`Codegen` is the generator: each `cg_inst_...` function is an operator from one
`ctx` to the next, which has `cg_ctx`'s `text`, `frame_size` and
`map_value_meta` (`meta`). Sizes and offsets of the code are all multiples of 8
and are counted in words. `Processor` is the program it makes, run: an action is
an instruction, or a call of the runtime, which leaves nothing in the registers
that a caller may not keep and nothing below the stack pointer. A value is three
words on the stack; one that has been written over in part, or is looked for
where it is not, is `Junk`, and a call through such a word cannot go on. What
operations compute is not told (`Heap` and `Numbers` are about that): a result
is a term of its operation, the table it was found in and its arguments, so two
programs that compute the same terms compute the same values.

The generator runs with debug information enabled. It puts a label in front of
each statement, and of each jump that has a place in the source, and notes the
label with file and line (`lines`), and for each subroutine its labels of start
and end and the offsets of parameters and variables from `rbp` (`subs`).
`DebugEmit` turns these into three sections of words, with labels resolved to
addresses (`AddressOf`; an address is a position in the text); `CtxDbgInit` reads
the sections with a cursor, as the debugger does when it loads the executable.
In `Inspection` the debugger has stopped the process at any instruction and the
user may `print` a parameter or variable or ask `where`. What is shown is read
from memory through the debug information (`Printed`, `Where`); to show a value
the debugger calls `op_repr`, `op_type` and `op_drop` in the process with the
result below the stack pointer, so what lies there is lost (`CallInside`). Each
command is one step: how it drives the process to the end of these calls is not
modelled. `where` ends at the frame whose saved `rbp` is 1, which is what the C
library calls `main` with.

`MirMachine` runs the statements themselves, with named values in frames and
arguments passed by value, the result in a place of the caller. The refinement
mapping is `seen`: at the label in front of each statement (`cg_inst_stmt` puts
one there for the debugger), of each block and of the parts of a subroutine, the
values of all active subroutines are read from the slots that `meta` gives them,
along the chain of `rbp`. Between two labels the program stutters. So
`RefinesMir` says that a statement changes the value it should and no other, in
no frame, and that control and output are those of the MIR.

| Run | Question | Result |
|---|---|---|
| `frames` | does the code do what the MIR says, is the stack pointer where the generator believes, is the stack aligned at calls, does a program come to its exit? Does the debugger show file and line, values and active subroutines at every statement, and is the program unharmed when values are looked at, at any instruction? | yes, but for calls of external functions with 1, 3 or 5 arguments, where the stack is not aligned (about 5 400 states, paths of up to 320 instructions) |

Bounds: a call has 0 to 7 arguments; with the result that is one register up to
six and two words on the stack, with and without padding. The callee hands the
place of its result on to another one, which gets the arguments in the opposite
order and assigns to a parameter. Called values have 0, 5, 6 and 7 arguments,
external functions 0, 1, 5, 6 and 7, of all types, with a branch on the result.
Objects have 0 to 2 fields and two methods that are called as values. One more
program has the rest of the statements, with operands in registers and on the
stack and a frame of every parity. External functions return true or false. Code
for a block does not depend on how often it is executed, so the programs have no
loops, and `ProgramsEnd` can be asked. `main` is in a file of its own, two
statements share a line, so a line has several addresses and one of them is
the one that a breakpoint gets. No two variables of a subroutine have the same
name.

Fairness: `WF(Next)`, the processor goes on; nothing is assumed of the
debugger's user. Assumed of the environment: the
runtime and external functions return and keep to the calling convention, those
that the debugger calls included. A value is printed where there is one: in a
prologue, before a parameter is copied and a variable is initialised, the
debugger would call what happens to lie there, and the program is right to
promise nothing (`IsValue`).

What the model shows and no document denies: `cg_inst_stmt_call_extern` aligns
the stack with the unwrapped arguments on it and then pops up to six of them
into registers, so an odd number of them leaves it misaligned for the call and
the one that makes the result (`OddForeignAt`). A call of a subroutine passes the
arguments it is given, whatever the number of parameters; programs here pass as
many as there are. `main` has a frame without parameters.

What is abstracted: the data section (a label is what it names), widths of moves
(`movb`, `movl`), warnings, imported subroutines, which are always an error, the
text of source lines and of printed values.

### Proofs

`CodegenProofs` is about the text, whatever executes it, and about every program
that `IsProgram`: any number of subroutines, classes, blocks, statements,
arguments, parameters and locals. `IsProgram` says what a program is when
`mir_build` has made it: lists are sequences, statements and jumps are of the
kinds there are, a value that is called is the first of its arguments, what a
statement writes is a value of its subroutine (`mir_subroutine`'s `ret`,
`params`, `vars`, `tmps`), `main` has no parameters, and a method of a class is
not the subroutine `main`. That a call passes the right number of arguments is
not needed. TLC evaluates it for the 21 programs (`ProgramsAssumption`).

`StackIsBalanced` says that there is a state `h[i]` for each place of the code
(`Flows`): whose code it is, how many words there are from the return address to
the stack pointer, whether `rbp` is that of the frame, and whether `rdi` or `rax`
holds what the next call needs. Each instruction may be executed in the state in
front of it (`InstrFits`) and leads to the one behind it (`Follows`). The labels
of a body and all jumps have the one depth of the body (`FrameOf`, computed from
the numbers of parameters and locals and not from the generator's counting);
calls are at an even depth, but those that `OddForeignAt` is about; a return
finds the return address on top; each `sub` and `add` of `rsp` is of a positive
amount; the depth that the generator notes with a label is the depth there; and
what is stored, or handed to a callee to be written to, lies below the words that
control depends on. `JumpsKeepTheDepth` follows: a jump and its label agree, so
the depth does not depend on how control comes to a place. What is proved along
the way is that each piece of the generator leads from one depth to another and
that its `frame_size` and `meta` are then those of a frame that has grown or
shrunk by as much; pieces are put together by `Appended`-lemmas. The generator
works in folds over arguments, statements, blocks and subroutines. The provers
cannot apply a theorem to an operator, so `Folding` proves once, for a constant
operator `op` and a constant predicate `Good`, that what each step keeps the
fold keeps, and is instantiated for each operator that is folded.

`ProcessorProofs` is about every execution of that text. `FrameSizeTrue` and
`CallsAligned` are not inductive: `rsp` is right after a return only if the
return address and the saved `rbp` that were found on the stack are those that
were put there, by a caller that may wait below any number of others. The
inductive invariant `Execution` therefore describes the whole stack
(`StackHoldsActivations`): the process is a sequence of activations `st`, one for
each call that has not returned (`Stacked`); at the return address of each lies
the place where its caller goes on, below it the caller's `rbp` and, but in
`main`, the place of the result (in the initialisation of a class, the place of
the object), which is apart from the words that control depends on in all
activations above (`Linked`, `Free`);
an activation that waits has its callee directly below its own stack pointer
(`Waits`), and the top one is where `rip`, `rsp` and `rbp` are, with what `h`
says that `rdi` and `rax` hold (`Knowing`). Each instruction is one lemma, each of
which needs `Fits` at its place: a `mov` or `push` writes below the words of its
own activation, a call puts an activation on the stack and a return takes one
off, a call of the runtime writes its result to the place in `rdi`, which is
free, and loses what is below the stack pointer. `print` and `where` make their
calls below the stack pointer, too, whatever instruction the program is stopped
at (`CmdPrint`, `CmdWhere`), so the theorems are about `InspectSpec`. From
`Execution` follow `FrameSizeIsTrue` and `AlignedAtCalls`.

The last part of `ProcessorProofs` is about the debug information, which is what
the two programs of this repository share: the compiler writes sections of plain
words, the debugger reads them with a cursor that moves by the counts it finds.
`WhatIsWrittenIsRead` says that, for any number of lines, subroutines,
parameters and variables, the debugger has as many of each as were noted, in
their order, and that each line has its address, number and file, each subroutine
its addresses and name, and each parameter and variable its offset in the frame
and its name (`InfoRead`). Two inductions along the folds of the writer lead
there: what is written is only added to (`OnlyAdds`), so an index that is written
names the same string ever after, and each subroutine begins where the one
before ends (`Laid`), which is where the reader's cursor is (`CursorIs`). The
index of a file among the files is its index among the strings because all lines
are written before the first name (`LinesGood`: `files` and `strs` agree).
`DebuggerReadsNotes` says so of the program that is stopped at any instruction,
for every program: the lists that the generator notes are lists (`AreNotes`, a
part of what `CodegenProofs` shows of every piece of the generator).

Assumed, besides `ProgramsAssumption`: the assembler finds each label that is
jumped to and the linker finds `main` (`Assembled`, a conjunct of `Init`; without
it there is no executable), and a call that reaches code reaches the beginning
of a subroutine or of the initialisation of a class (`HasCode`; only these labels
are names of values). Runtime and external functions return and keep to the
calling convention. Nothing is assumed of results: any word may be in a register
that a callee need not keep.

Model-checked only: that the values are right and not only where they are
(`RefinesMir`, `ValuesShown`), for which every place of every value would have to
be followed through runtime calls; `LineShown`, which adds to
`DebuggerReadsNotes` that the first line with the address is that of the
statement: it is not for every program, as `print!()` without arguments has no
instructions and shares its address with the statement behind it (none of the 21
programs has one); and `ProgramsEnd`, which is liveness.

## What is proved and what is only model-checked

Proved for all values of the constants: the debugger's breakpoints and its table
of them, `nexti`; merging of blocks; the hash set and its refinement of a map;
the heap's counts and references; the arithmetic of the runtime; the stack of
generated code, as a property of the text (`CodegenProofs`) and of every
execution of it, with the debugger looking on (`ProcessorProofs`: `FrameSizeTrue`,
`CallsAligned`); debug information, which is read as it was noted
(`DebuggerReadsNotes`). Each section names its theorems and assumptions.

Only model-checked, on the instances above:

- Liveness (`CommandReturns`, `OperationsEnd`, `ProgramsEnd`): it rests on
  fairness, which is beyond the prover.
- `SameTraces`, `ExpressionsRight`, `EntryKept` and the compiler's front end
  (`TypesResolved`, `InstancesExact`, `SymbolsResolved`, `LayoutInherited`,
  `VerdictRight`): what a function that recurs over statements, expressions or
  types computes for every input is an induction over data.
- `LineShown`, `ValuesShown` and `RefinesMir`: what generated code computes and
  what the debugger shows of it, as said above.
- What the code does not do (`StepiExact`, `ReferencesStayValid`, the entry of a
  subroutine that begins with a repeat): TLC finds the counterexample.

## Not modelled

Generated code (the ANTLR parser), formatting (assembly, dot, trees,
messages), pure input and output, commands of the debugger that show what they
read (`info`, `examine`, `disassemble`, `help`, `echo`, `config`), `print` at the
level of ptrace, and the parts the plan has not reached; see `PROJECT.json`,
`components`.
