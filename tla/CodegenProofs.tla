---------------------------- MODULE CodegenProofs ----------------------------
(***************************************************************************)
(* The stack in the generated code, for every program that IsProgram: at   *)
(* each place of the code the stack has one depth, however control comes   *)
(* there, and it is the depth that the generator counts (frame_size).      *)
(* What is more, every instruction leaves alone the words that control     *)
(* depends on, and every call that writes to a place is given a free one.  *)
(*                                                                         *)
(* Each piece of the generator leads from one state to another, and the    *)
(* code is put together of pieces whose states meet.  The generator works  *)
(* in folds (Through); what is kept by each step is kept by the fold, see  *)
(* Folding.                                                                *)
(***************************************************************************)
EXTENDS Codegen, SequenceTheorems, TLAPS

-----------------------------------------------------------------------------
(* What is known at a place of the code: the depth of the stack in words,  *)
(* the return address included, whose code it is, whether rbp is that of   *)
(* this activation, and what registers hold: rdi the address of a free     *)
(* place for a value, or rax the code that was found for op_call.          *)
State(d, in, own, knows) == [depth |-> d, in |-> in, own |-> own, knows |-> knows]
TheBody(f) == <<"sub", f>>
Nobody     == <<"nobody">>    \* behind a subroutine: control never comes there

(* The words at the top of an activation that control depends on: the      *)
(* return address, then rbp of the caller and the place of the result.     *)
(* main has no place of a result; the initialisation of a class keeps that *)
(* of its object, and not rbp.                                             *)
Links(in) == IF in[1] = "sub" /\ in[2] # "main" THEN 3 ELSE 2

(* What is reserved in the body of f: the return address, rbp, the place   *)
(* of the result, copies of the parameters and the locals.                 *)
FrameOf(p, f) ==
  LET sub    == p.subs[f]
      locals == SizeOfValue * (Len(sub.vars) + Len(sub.tmps))
  IN  IF f = "main" THEN Aligned(2 + SizeOfValue + locals)
                    ELSE Aligned(Aligned(3 + SizeOfValue * Len(sub.params)) + locals)

IsStart(label) == label[1] \in {"sub", "init"}
InBody(label)  == \/ label[1] \in {"bb", "line", "jmp"}
                  \/ label[1] = "at" /\ label[3] \in {"deinit", "epilogue"}

-----------------------------------------------------------------------------
(* What an instruction makes of a state.                                   *)

GoesOn(instr) == instr[1] \notin {"jmp", "ret", "syscall"}

SetsBase     == <<"mov", Reg("rsp"), Reg("rbp")>>
GivesBack    == <<"mov", Reg("rbp"), Reg("rsp")>>
RestoresBase == <<"pop", Reg("rbp")>>
AsksCode     == <<"mov", Entry("op_call"), Reg("rax")>>

Behind(instr, d) ==
  IF instr[1] = "push" THEN d + 1
  ELSE IF instr[1] = "pop" THEN d - 1
  ELSE IF instr[1] = "sub" THEN d + instr[2]
  ELSE IF instr[1] = "add" THEN d - instr[2]
  ELSE IF instr = GivesBack THEN 2
  ELSE d
OwnBehind(instr, own) == (own \/ instr = SetsBase) /\ instr # RestoresBase

(* A place in the frame below the links, one on the top of the stack, and  *)
(* the place of the result that the caller has given.                      *)
OfFrame(m, s) == m[3] = "rbp" /\ s.own /\ 2 - s.depth <= m[2] /\ m[2] + Links(s.in) < 0
OfTop(m, s)   == m[3] = "rsp" /\ 0 <= m[2] /\ m[2] + SizeOfValue + Links(s.in) <= s.depth
OfCaller(m, s) ==
  \/ m = Mem(-1, "rbp") /\ s.own /\ Links(s.in) = 3 /\ s.depth >= 3
  \/ m = Mem(s.depth - 2, "rsp") /\ s.in[1] = "init" /\ s.depth >= 2
FindsPlace(instr, s) ==
  /\ instr[1] \in {"lea", "mov"} /\ instr[3] = Reg("rdi")
  /\ instr[2][1] = "mem" /\ instr[2][2] \in Int
  /\ IF instr[1] = "lea" THEN OfFrame(instr[2], s) \/ OfTop(instr[2], s) ELSE OfCaller(instr[2], s)
KeepsRdi(instr) ==
  \/ instr[1] \in {"mov", "lea"} /\ ~(instr[3][1] = "reg" /\ instr[3][2] \in {"rdi", "rsp"})
  \/ instr[1] \in {"push", "label", "sub"}
KnowsBehind(instr, s, knows) ==
  \/ knows = "nothing"
  \/ knows = "place" /\ (FindsPlace(instr, s) \/ (s.knows = "place" /\ KeepsRdi(instr)))
  \/ knows = "code" /\ instr = AsksCode

Follows(instr, s, t) ==
  /\ t.depth = Behind(instr, s.depth)
  /\ t.in = s.in
  /\ t.own = OwnBehind(instr, s.own)
  /\ KnowsBehind(instr, s, t.knows)

-----------------------------------------------------------------------------
(* What an instruction needs of a state.                                   *)

Sensible(s) ==
  /\ s.in[1] \in {"sub", "init"}
  /\ s.depth \in Nat \ {0}
  /\ s.own \in BOOLEAN
  /\ s.own => s.in[1] = "sub" /\ s.depth >= 2

(* Only the prologue and the epilogue change rbp and rsp; what is stored   *)
(* goes to the stack, below the links.                                     *)
SetsReg(operand) == operand[1] = "reg" /\ operand[2] \notin {"rbp", "rsp"}
MoveFits(instr, s) ==
  \/ SetsReg(instr[3])
  \/ instr = SetsBase /\ ~s.own /\ s.in[1] = "sub" /\ s.depth = 2
  \/ instr = GivesBack /\ s.own
  \/ /\ instr[3][1] = "mem" /\ instr[3][3] = "rsp" /\ instr[3][2] \in Nat
     /\ instr[3][2] + 1 + Links(s.in) <= s.depth
PushFits(instr, s) ==
  /\ s.depth = 1 /\ s.in[1] = "sub" => instr[2] = Reg("rbp")
  /\ s.depth = 1 /\ s.in[1] = "init" => instr[2] = Reg("rdi") /\ s.knows = "place"
  /\ s.depth = 2 /\ Links(s.in) = 3 => instr[2] = Reg("rdi") /\ s.knows = "place"
PopFits(instr, s) ==
  /\ s.depth >= 2
  /\ instr[2][2] = "rbp" => instr = RestoresBase /\ s.own /\ s.depth = 2
  /\ instr[2][2] # "rbp" => (s.own => s.depth >= 3)
MoveStackFits(instr, s) ==
  /\ instr[2] \in Nat \ {0}
  /\ instr[1] = "sub" => Links(s.in) <= s.depth
  /\ instr[1] = "add" => instr[2] < s.depth /\ (s.own => instr[2] + 2 <= s.depth)
JumpFits(p, instr, s) ==
  InBody(instr[2]) /\ s.in = TheBody(instr[2][2]) /\ s.own /\ s.depth = FrameOf(p, instr[2][2])

(* A call is aligned, and has a place for its result if it writes one.     *)
Quiet == {"unwrap", "flush", "print"}
MayCall(to, s) ==
  \/ to[1] = "sym" /\ to[2][1] = "extern"
  \/ to[1] = "sym" /\ to[2][1] = "runtime" /\ to[2][2][1] \in Quiet
  \/ to[1] = "sym" /\ s.knows = "place"
  \/ to = Reg("rax") /\ s.knows \in {"place", "code"}
CallFits(instr, s, odd) ==
  /\ Links(s.in) <= s.depth
  /\ s.depth % 2 = 0 \/ odd
  /\ MayCall(instr[2], s)

(* A label is noted with its depth (but the one behind a subroutine), and  *)
(* the labels of a body have the depth of the body.                        *)
LabelFits(p, instr, s) ==
  LET label == instr[2]
  IN  /\ label[1] # "E" /\ instr[3] = s.depth
      /\ IsStart(label) => /\ s.depth = 1 /\ s.in = label /\ ~s.own /\ s.knows \in {"nothing", "place"}
                           /\ label = TheBody("main") => s.knows = "nothing"
      /\ InBody(label) => /\ s.depth = FrameOf(p, label[2]) /\ s.in = TheBody(label[2])
                          /\ s.own /\ s.knows = "nothing"
      /\ label[1] = "at" => s.own

InstrFits(p, instr, s, odd) ==
  /\ Sensible(s)
  /\ instr[1] \in {"mov", "lea", "push", "pop", "sub", "add", "jmp", "jnz", "test", "call", "ret",
                   "syscall", "label"}
  /\ instr[1] = "mov"            => MoveFits(instr, s)
  /\ instr[1] = "lea"            => SetsReg(instr[3])
  /\ instr[1] = "push"           => PushFits(instr, s)
  /\ instr[1] = "pop"            => PopFits(instr, s)
  /\ instr[1] \in {"sub", "add"} => MoveStackFits(instr, s)
  /\ instr[1] \in {"jmp", "jnz"} => JumpFits(p, instr, s)
  /\ instr[1] = "call"           => CallFits(instr, s, odd)
  /\ instr[1] = "ret"            => s.depth = 1
  /\ instr[1] = "label"          => LabelFits(p, instr, s)

(* An instruction with the states before and behind it.                    *)
Fits(p, instr, s, t, odd) ==
  IF s.in = Nobody THEN instr[1] = "label" /\ instr[2][1] = "E"
  ELSE InstrFits(p, instr, s, odd) /\ (GoesOn(instr) => Follows(instr, s, t))

Flows(p, text, h) ==
  \A i \in 1..Len(text) : Fits(p, text[i], h[i], h[i + 1], OddForeignAt(p, text, i))

Balanced(p, text) == \E h : Flows(p, text, h) /\ h[Len(text) + 1].in = Nobody

-----------------------------------------------------------------------------
(* Sequences.                                                              *)

LEMMA SeqIs ==
  ASSUME NEW S, NEW s \in Seq(S)
  PROVE  IsSeq(s)
<1>1. DOMAIN s = 1..Len(s) /\ Len(s) \in Nat OBVIOUS
<1>2. s \in [1..Len(s) -> ToSet(s)] BY <1>1 DEF ToSet
<1> QED BY <1>1, <1>2 DEF IsSeq

LEMMA SeqHas ==
  ASSUME NEW s, IsSeq(s)
  PROVE  /\ Len(s) \in Nat
         /\ DOMAIN s = 1..Len(s)
         /\ s = [i \in 1..Len(s) |-> s[i]]
BY DEF IsSeq

LEMMA SeqBuilt ==
  ASSUME NEW n \in Nat, NEW s, s = [i \in 1..n |-> s[i]]
  PROVE  IsSeq(s) /\ Len(s) = n
<1>1. DOMAIN s = 1..n OBVIOUS
<1>2. s \in [1..n -> ToSet(s)] BY <1>1 DEF ToSet
<1>3. s \in Seq(ToSet(s)) BY <1>2
<1>4. DOMAIN s = 1..Len(s) /\ Len(s) \in Nat BY <1>3
<1> QED BY <1>1, <1>3, <1>4 DEF IsSeq

LEMMA ConcatIs ==
  ASSUME NEW s, NEW t, IsSeq(s), IsSeq(t)
  PROVE  /\ IsSeq(s \o t)
         /\ Len(s \o t) = Len(s) + Len(t)
         /\ \A i \in 1..Len(s) : (s \o t)[i] = s[i]
         /\ \A i \in 1..Len(t) : (s \o t)[Len(s) + i] = t[i]
<1> DEFINE S == ToSet(s) \cup ToSet(t)
<1>1. s \in Seq(S) /\ t \in Seq(S)
  <2>1. s \in [1..Len(s) -> S] /\ t \in [1..Len(t) -> S] BY SeqHas DEF ToSet
  <2> QED BY <2>1, SeqHas
<1>2. s \o t \in Seq(S) BY <1>1
<1> HIDE DEF S
<1>3. Len(s \o t) = Len(s) + Len(t) BY <1>1
<1>4. \A i \in 1..(Len(s) + Len(t)) : (s \o t)[i] = IF i <= Len(s) THEN s[i] ELSE t[i - Len(s)]
  BY <1>1, ConcatProperties
<1>5. Len(s) \in Nat /\ Len(t) \in Nat BY <1>1
<1>6. ASSUME NEW i \in 1..Len(t) PROVE (s \o t)[Len(s) + i] = t[i]
  <2>1. Len(s) + i \in 1..(Len(s) + Len(t)) /\ ~(Len(s) + i <= Len(s)) /\ (Len(s) + i) - Len(s) = i
    BY <1>5
  <2> QED BY <1>4, <2>1
<1>7. \A i \in 1..Len(s) : (s \o t)[i] = s[i] BY <1>4, <1>5
<1> QED BY <1>2, <1>3, <1>6, <1>7, SeqIs

LEMMA ReverseIs ==
  ASSUME NEW s, IsSeq(s)
  PROVE  /\ IsSeq(Reverse(s))
         /\ Len(Reverse(s)) = Len(s)
         /\ \A i \in 1..Len(s) : Reverse(s)[i] = s[(Len(s) - i) + 1]
<1>1. Len(s) \in Nat BY SeqHas
<1>2. Reverse(s) = [i \in 1..Len(s) |-> s[(Len(s) - i) + 1]] BY DEF Reverse
<1>3. Reverse(s) = [i \in 1..Len(s) |-> Reverse(s)[i]] BY <1>2
<1> QED BY <1>1, <1>2, <1>3, SeqBuilt

LEMMA AppendIs ==
  ASSUME NEW s, NEW x, IsSeq(s)
  PROVE  /\ IsSeq(Append(s, x)) /\ Len(Append(s, x)) = Len(s) + 1
         /\ (\A i \in 1..Len(s) : Append(s, x)[i] = s[i]) /\ Append(s, x)[Len(s) + 1] = x
<1> DEFINE S == ToSet(s) \cup {x}
<1>1. s \in Seq(S)
  <2>1. s \in [1..Len(s) -> S] BY SeqHas DEF ToSet
  <2> QED BY <2>1, SeqHas
<1>2. x \in S OBVIOUS
<1> HIDE DEF S
<1>3. Append(s, x) \in Seq(S) BY <1>1, <1>2
<1>4. Len(Append(s, x)) = Len(s) + 1 /\ Append(s, x)[Len(s) + 1] = x BY <1>1, <1>2
<1>5. \A i \in 1..Len(s) : Append(s, x)[i] = s[i] BY <1>1, <1>2
<1> QED BY <1>3, <1>4, <1>5, SeqIs

LEMMA TupleIs ==
  /\ IsSeq(<<>>) /\ Len(<<>>) = 0
  /\ \A a : IsSeq(<<a>>) /\ Len(<<a>>) = 1
  /\ \A a, b : IsSeq(<<a, b>>) /\ Len(<<a, b>>) = 2
  /\ \A a, b, c : IsSeq(<<a, b, c>>) /\ Len(<<a, b, c>>) = 3
  /\ \A a, b, c, d : IsSeq(<<a, b, c, d>>) /\ Len(<<a, b, c, d>>) = 4
  /\ \A a, b, c, d, e : IsSeq(<<a, b, c, d, e>>) /\ Len(<<a, b, c, d, e>>) = 5
<1>1. <<>> \in Seq({}) OBVIOUS
<1>2. ASSUME NEW a PROVE <<a>> \in Seq({a}) OBVIOUS
<1>3. ASSUME NEW a, NEW b PROVE <<a, b>> \in Seq({a, b}) OBVIOUS
<1>4. ASSUME NEW a, NEW b, NEW c PROVE <<a, b, c>> \in Seq({a, b, c}) OBVIOUS
<1>5. IsSeq(<<>>) /\ Len(<<>>) = 0 BY <1>1, SeqIs
<1>6. ASSUME NEW a PROVE IsSeq(<<a>>) /\ Len(<<a>>) = 1 BY <1>2, SeqIs
<1>7. ASSUME NEW a, NEW b PROVE IsSeq(<<a, b>>) /\ Len(<<a, b>>) = 2 BY <1>3, SeqIs
<1>8. ASSUME NEW a, NEW b, NEW c PROVE IsSeq(<<a, b, c>>) /\ Len(<<a, b, c>>) = 3 BY <1>4, SeqIs
<1>9. ASSUME NEW a, NEW b, NEW c, NEW d PROVE IsSeq(<<a, b, c, d>>) /\ Len(<<a, b, c, d>>) = 4
  <2>1. <<a, b, c, d>> \in Seq({a, b, c, d}) OBVIOUS
  <2> QED BY <2>1, SeqIs
<1>10. ASSUME NEW a, NEW b, NEW c, NEW d, NEW e
       PROVE  IsSeq(<<a, b, c, d, e>>) /\ Len(<<a, b, c, d, e>>) = 5
  <2>1. <<a, b, c, d, e>> \in Seq({a, b, c, d, e}) OBVIOUS
  <2> QED BY <2>1, SeqIs
<1> QED BY <1>5, <1>6, <1>7, <1>8, <1>9, <1>10

-----------------------------------------------------------------------------
-----------------------------------------------------------------------------
(* Appending to the text.                                                  *)

LEMMA ConcatNext ==
  ASSUME NEW s, NEW t, IsSeq(s), IsSeq(t), Len(t) = 1
  PROVE  (s \o t)[Len(s) + 1] = t[1]
<1>1. \A i \in 1..Len(t) : (s \o t)[Len(s) + i] = t[i] BY ConcatIs
<1>2. 1 \in 1..Len(t) OBVIOUS
<1> QED BY <1>1, <1>2

(* The text so far flows and leads to s.                                   *)
LeadsTo(p, text, s) ==
  /\ IsSeq(text)
  /\ \E h : Flows(p, text, h) /\ h[Len(text) + 1] = s

LEMMA FitsOdd ==
  ASSUME NEW p, NEW instr, NEW s, NEW t, NEW odd, Fits(p, instr, s, t, FALSE)
  PROVE  Fits(p, instr, s, t, odd)
BY DEF Fits, InstrFits, CallFits

LEMMA OddStays ==
  ASSUME NEW p, NEW text, NEW more, IsSeq(text), IsSeq(more),
         NEW i \in 1..Len(text), OddForeignAt(p, text, i)
  PROVE  OddForeignAt(p, text \o more, i)
<1>1. /\ DOMAIN text = 1..Len(text) /\ Len(text) \in Nat /\ Len(more) \in Nat
      /\ DOMAIN (text \o more) = 1..(Len(text) + Len(more))
  BY ConcatIs, SeqHas
<1>2. \A j \in 1..Len(text) : (text \o more)[j] = text[j] BY ConcatIs
<1>3. \A j \in DOMAIN text : j \in DOMAIN (text \o more) BY <1>1
<1> QED BY <1>1, <1>2, <1>3 DEF OddForeignAt

(* One instruction.                                                        *)
LEMMA Appended ==
  ASSUME NEW p, NEW text, NEW instr, NEW s, NEW t, LeadsTo(p, text, s),
         Fits(p, instr, s, t, OddForeignAt(p, text \o <<instr>>, Len(text) + 1))
  PROVE  LeadsTo(p, text \o <<instr>>, t)
<1> DEFINE N == Len(text)  more == <<instr>>  all == text \o more
<1>1. IsSeq(text) /\ N \in Nat BY SeqHas DEF LeadsTo
<1>2. IsSeq(more) /\ Len(more) = 1 /\ more[1] = instr BY TupleIs
<1>3. 1 \in 1..1 OBVIOUS
<1> HIDE DEF more
<1>4. /\ IsSeq(all) /\ Len(all) = N + 1 /\ all[N + 1] = instr
      /\ \A i \in 1..N : all[i] = text[i]
  <2>1. IsSeq(all) /\ Len(all) = N + Len(more) /\ \A i \in 1..N : all[i] = text[i]
    BY <1>1, <1>2, ConcatIs
  <2>2. all[N + 1] = more[1]
    <3>1. (text \o more)[Len(text) + 1] = more[1]
      <4> HIDE DEF N, all
      <4> QED BY <1>1, <1>2, ConcatNext
    <3> QED BY <3>1
  <2> QED BY <1>2, <2>1, <2>2
<1>5. PICK h : Flows(p, text, h) /\ h[N + 1] = s BY DEF LeadsTo
<1> DEFINE f == [i \in 1..((N + 1) + 1) |-> IF i <= N + 1 THEN h[i] ELSE t]
<1>6. /\ \A i \in 1..(N + 1) : f[i] = h[i]
      /\ f[(N + 1) + 1] = t
  BY <1>1
<1> HIDE DEF f
<1>7. ASSUME NEW i \in 1..(N + 1) PROVE Fits(p, all[i], f[i], f[i + 1], OddForeignAt(p, all, i))
  <2>1. CASE i <= N
    <3>1. i \in 1..N /\ i + 1 \in 1..(N + 1) BY <1>1, <2>1
    <3>2. Fits(p, text[i], h[i], h[i + 1], OddForeignAt(p, text, i)) BY <1>5, <3>1 DEF Flows
    <3>3. OddForeignAt(p, text, i) => OddForeignAt(p, all, i) BY <1>1, <1>2, <3>1, OddStays
    <3> DEFINE now == OddForeignAt(p, all, i)  then == OddForeignAt(p, text, i)
    <3> HIDE DEF now, then, all
    <3>4. Fits(p, text[i], h[i], h[i + 1], now) BY <3>2, <3>3 DEF Fits, InstrFits, CallFits, now, then
    <3> QED BY <1>4, <1>6, <3>1, <3>4 DEF now
  <2>2. CASE ~(i <= N)
    <3>1. i = N + 1 /\ N + 1 \in 1..(N + 1) BY <1>1, <2>2
    <3>2. f[i] = s /\ f[i + 1] = t BY <1>5, <1>6, <3>1
    <3>3. Fits(p, instr, s, t, OddForeignAt(p, all, N + 1)) BY DEF more
    <3> HIDE DEF all
    <3> QED BY <1>4, <3>1, <3>2, <3>3
  <2> QED BY <2>1, <2>2
<1>8. Flows(p, all, f) /\ f[Len(all) + 1] = t BY <1>4, <1>6, <1>7 DEF Flows
<1> QED BY <1>4, <1>8 DEF LeadsTo, more

(* What is known may be forgotten.                                         *)
LEMMA Forgotten ==
  ASSUME NEW p, NEW text, NEW d, NEW in, NEW own, NEW knows, LeadsTo(p, text, State(d, in, own, knows))
  PROVE  LeadsTo(p, text, State(d, in, own, "nothing"))
<1> DEFINE s == State(d, in, own, knows)  t == State(d, in, own, "nothing")  N == Len(text)
<1>1. N \in Nat /\ IsSeq(text) BY SeqHas DEF LeadsTo
<1>2. PICK h : Flows(p, text, h) /\ h[N + 1] = s BY DEF LeadsTo
<1>3. s.depth = t.depth /\ s.in = t.in /\ s.own = t.own /\ t.knows = "nothing" BY DEF State
<1> DEFINE f == [i \in 1..(N + 1) |-> IF i <= N THEN h[i] ELSE t]
<1>4. (\A i \in 1..N : f[i] = h[i]) /\ f[N + 1] = t BY <1>1
<1> HIDE DEF f, s, t
<1>5. ASSUME NEW i \in 1..N PROVE Fits(p, text[i], f[i], f[i + 1], OddForeignAt(p, text, i))
  <2>1. Fits(p, text[i], h[i], h[i + 1], OddForeignAt(p, text, i)) BY <1>2 DEF Flows
  <2>2. CASE i + 1 <= N
    <3>1. i + 1 \in 1..N BY <1>1, <2>2
    <3> QED BY <1>4, <2>1, <3>1
  <2>3. CASE ~(i + 1 <= N)
    <3>1. i = N BY <1>1, <2>3
    <3> DEFINE odd == OddForeignAt(p, text, i)
    <3> HIDE DEF odd
    <3>2. Fits(p, text[i], h[i], s, odd) BY <1>2, <2>1, <3>1 DEF odd
    <3>3. Fits(p, text[i], h[i], t, odd) BY <1>3, <3>2 DEF Fits, Follows, KnowsBehind
    <3> QED BY <1>4, <3>1, <3>3 DEF odd
  <2> QED BY <2>2, <2>3
<1>6. Flows(p, text, f) BY <1>5 DEF Flows
<1> QED BY <1>1, <1>4, <1>6 DEF LeadsTo, t

(* The empty text leads anywhere.                                          *)
LEMMA Begins ==
  ASSUME NEW p, NEW s
  PROVE  LeadsTo(p, <<>>, s)
<1> DEFINE h == [i \in 1..1 |-> s]
<1>1. Len(<<>>) = 0 /\ 1..0 = {} /\ 0 + 1 = 1 OBVIOUS
<1>2. h[1] = s OBVIOUS
<1> HIDE DEF h
<1>3. Flows(p, <<>>, h) BY <1>1 DEF Flows
<1> QED BY <1>1, <1>2, <1>3, TupleIs DEF LeadsTo

LEMMA ConcatAgain ==
  ASSUME NEW a, NEW b, NEW c, IsSeq(a), IsSeq(b), IsSeq(c)
  PROVE  a \o (b \o c) = (a \o b) \o c
<1> DEFINE S == ToSet(a) \cup ToSet(b) \cup ToSet(c)
<1>1. a \in [1..Len(a) -> S] /\ b \in [1..Len(b) -> S] /\ c \in [1..Len(c) -> S] BY SeqHas DEF ToSet
<1>2. a \in Seq(S) /\ b \in Seq(S) /\ c \in Seq(S) BY <1>1, SeqHas
<1> HIDE DEF S
<1> QED BY <1>2, ConcatAssociative

LEMMA ConcatTuples ==
  /\ \A a : <<a>> \o <<>> = <<a>>
  /\ \A a, b : <<a>> \o <<b>> = <<a, b>>
  /\ \A a, b, c : <<a, b>> \o <<c>> = <<a, b, c>>
  /\ \A a, b, c, d : <<a, b, c>> \o <<d>> = <<a, b, c, d>>
  /\ \A a, b, c, d, e : <<a, b, c, d>> \o <<e>> = <<a, b, c, d, e>>
<1>1. ASSUME NEW a PROVE <<a>> \o <<>> = <<a>> OBVIOUS
<1>2. ASSUME NEW t, NEW last, NEW s, IsSeq(t), IsSeq(s), Len(s) = Len(t) + 1, s[Len(t) + 1] = last,
             \A i \in 1..Len(t) : s[i] = t[i]
      PROVE  t \o <<last>> = s
  <2> DEFINE all == t \o <<last>>  n == Len(t)
  <2>1. 1 \in 1..1 /\ IsSeq(<<last>>) /\ Len(<<last>>) = 1 /\ <<last>>[1] = last BY TupleIs
  <2>2. IsSeq(all) /\ Len(all) = n + 1 /\ all[n + 1] = last /\ \A i \in 1..n : all[i] = t[i]
    BY <1>2, <2>1, ConcatIs
  <2> HIDE DEF all
  <2>3. n \in Nat BY <1>2, SeqHas
  <2>4. \A i \in 1..(n + 1) : i \in 1..n \/ i = n + 1 BY <2>3
  <2>5. \A i \in 1..(n + 1) : all[i] = s[i] BY <1>2, <2>2, <2>4
  <2>6. all = [i \in 1..(n + 1) |-> all[i]] /\ s = [i \in 1..(n + 1) |-> s[i]] BY <1>2, <2>2, SeqHas
  <2> HIDE DEF n
  <2>7. all = s BY <2>5, <2>6
  <2> QED BY <2>7 DEF all
<1>3. /\ \A i \in 1..1 : i = 1
      /\ \A i \in 1..2 : i = 1 \/ i = 2
      /\ \A i \in 1..3 : i = 1 \/ i = 2 \/ i = 3
      /\ \A i \in 1..4 : i = 1 \/ i = 2 \/ i = 3 \/ i = 4
      /\ 1 + 1 = 2 /\ 2 + 1 = 3 /\ 3 + 1 = 4 /\ 4 + 1 = 5
  OBVIOUS
<1>4. ASSUME NEW a, NEW b PROVE <<a>> \o <<b>> = <<a, b>>
  <2> DEFINE t == <<a>>  s == <<a, b>>
  <2>1. IsSeq(t) /\ IsSeq(s) /\ Len(t) = 1 /\ Len(s) = 2 BY TupleIs
  <2>2. s[1] = a /\ s[2] = b OBVIOUS
  <2>3. t[1] = a OBVIOUS
  <2> HIDE DEF t, s
  <2>4. t \o <<b>> = s BY <1>2, <1>3, <2>1, <2>2, <2>3
  <2> QED BY <2>4 DEF t, s
<1>5. ASSUME NEW a, NEW b, NEW c PROVE <<a, b>> \o <<c>> = <<a, b, c>>
  <2> DEFINE t == <<a, b>>  s == <<a, b, c>>
  <2>1. IsSeq(t) /\ IsSeq(s) /\ Len(t) = 2 /\ Len(s) = 3 BY TupleIs
  <2>2. s[1] = a /\ s[2] = b /\ s[3] = c OBVIOUS
  <2>3. t[1] = a /\ t[2] = b OBVIOUS
  <2> HIDE DEF t, s
  <2>4. t \o <<c>> = s BY <1>2, <1>3, <2>1, <2>2, <2>3
  <2> QED BY <2>4 DEF t, s
<1>6. ASSUME NEW a, NEW b, NEW c, NEW d PROVE <<a, b, c>> \o <<d>> = <<a, b, c, d>>
  <2> DEFINE t == <<a, b, c>>  s == <<a, b, c, d>>
  <2>1. IsSeq(t) /\ IsSeq(s) /\ Len(t) = 3 /\ Len(s) = 4 BY TupleIs
  <2>2. s[1] = a /\ s[2] = b /\ s[3] = c /\ s[4] = d OBVIOUS
  <2>3. t[1] = a /\ t[2] = b /\ t[3] = c OBVIOUS
  <2> HIDE DEF t, s
  <2>4. t \o <<d>> = s BY <1>2, <1>3, <2>1, <2>2, <2>3
  <2> QED BY <2>4 DEF t, s
<1>7. ASSUME NEW a, NEW b, NEW c, NEW d, NEW e PROVE <<a, b, c, d>> \o <<e>> = <<a, b, c, d, e>>
  <2> DEFINE t == <<a, b, c, d>>  s == <<a, b, c, d, e>>
  <2>1. IsSeq(t) /\ IsSeq(s) /\ Len(t) = 4 /\ Len(s) = 5 BY TupleIs
  <2>2. s[1] = a /\ s[2] = b /\ s[3] = c /\ s[4] = d /\ s[5] = e OBVIOUS
  <2>3. t[1] = a /\ t[2] = b /\ t[3] = c /\ t[4] = d OBVIOUS
  <2> HIDE DEF t, s
  <2>4. t \o <<e>> = s BY <1>2, <1>3, <2>1, <2>2, <2>3
  <2> QED BY <2>4 DEF t, s
<1> QED BY <1>1, <1>4, <1>5, <1>6, <1>7

-----------------------------------------------------------------------------
(* Contexts of the generator.                                              *)

CtxFields == {"text", "frame_size", "meta", "metas", "lines", "subs", "exceptions", "externs"}

(* What is noted for the debugger: lists, whatever is in them.             *)
AreSubs(subs) ==
  IsSeq(subs) /\ \A i \in 1..Len(subs) : IsSeq(subs[i].params) /\ IsSeq(subs[i].vars)
AreNotes(lines, subs) == IsSeq(lines) /\ AreSubs(subs)

IsCtx(ctx) == ctx = [k \in CtxFields |-> ctx[k]] /\ AreNotes(ctx.lines, ctx.subs)

(* The generator has come to s, and counts the depth that is there.        *)
Reached(p, c, s) ==
  /\ IsCtx(c) /\ c.externs = p.externs
  /\ c.frame_size = s.depth
  /\ LeadsTo(p, c.text, s)

LEMMA OneMore ==
  ASSUME NEW p, NEW c, NEW s, NEW t, NEW instr, NEW ctx, Reached(p, c, s),
         IsCtx(ctx), ctx.externs = c.externs, ctx.text = c.text \o <<instr>>, ctx.frame_size = t.depth,
         Fits(p, instr, s, t, FALSE)
  PROVE  Reached(p, ctx, t)
<1> DEFINE odd == OddForeignAt(p, c.text \o <<instr>>, Len(c.text) + 1)
<1>1. Fits(p, instr, s, t, odd)
  <2> HIDE DEF odd
  <2> QED BY FitsOdd
<1>2. LeadsTo(p, c.text \o <<instr>>, t) BY <1>1, Appended DEF Reached
<1> QED BY <1>2 DEF Reached

(* Where code is: in which program, whose code it is and whether rbp is    *)
(* that of the activation.                                                 *)
IsWhere(w)    == w.in[1] \in {"sub", "init"} /\ w.own \in BOOLEAN /\ (w.own => w.in[1] = "sub")
StateIn(w, d, k) == State(d, w.in, w.own, k)
DepthIn(w, d) == IsWhere(w) /\ d \in Nat /\ Links(w.in) <= d
Valid(w, c, k) == DepthIn(w, c.frame_size) /\ Reached(w.p, c, StateIn(w, c.frame_size, k))

Even(ctx)            == ctx.frame_size % 2 = 0
Stays(w, c, ctx, k)  == Valid(w, ctx, k) /\ ctx.frame_size = c.frame_size /\ ctx.meta = c.meta
Grows(w, c, ctx, k)  == Valid(w, ctx, k) /\ c.frame_size <= ctx.frame_size /\ ctx.meta = c.meta

Moves(w, d, k, instr, e, kk) == Fits(w.p, instr, StateIn(w, d, k), StateIn(w, e, kk), FALSE)
Steady(w, d, k, instr, kk)   == Moves(w, d, k, instr, d, kk)

LEMMA StateInIs ==
  ASSUME NEW w, NEW d, NEW k
  PROVE  /\ StateIn(w, d, k).depth = d /\ StateIn(w, d, k).in = w.in
         /\ StateIn(w, d, k).own = w.own /\ StateIn(w, d, k).knows = k
BY DEF StateIn, State

LEMMA LinksIs == \A in : Links(in) \in {2, 3}
BY DEF Links

LEMMA DepthHas ==
  ASSUME NEW w, NEW d, DepthIn(w, d)
  PROVE  /\ d \in Nat /\ d \in Int /\ 2 <= d /\ w.in # Nobody
         /\ \A k : Sensible(StateIn(w, d, k))
<1>1. Links(w.in) = 2 \/ Links(w.in) = 3 BY LinksIs
<1>2. d \in Nat /\ Links(w.in) <= d /\ IsWhere(w) BY DEF DepthIn
<1>3. 2 <= d BY <1>1, <1>2
<1>4. w.in # Nobody BY <1>2 DEF IsWhere, Nobody
<1>5. ASSUME NEW k PROVE Sensible(StateIn(w, d, k))
  BY <1>2, <1>3, StateInIs DEF IsWhere, Sensible
<1> QED BY <1>2, <1>3, <1>4, <1>5

LEMMA ValidHas ==
  ASSUME NEW w, NEW c, NEW k, Valid(w, c, k)
  PROVE  /\ c.frame_size \in Nat /\ 2 <= c.frame_size /\ IsCtx(c) /\ c.externs = w.p.externs
         /\ DepthIn(w, c.frame_size)
         /\ LeadsTo(w.p, c.text, StateIn(w, c.frame_size, k)) /\ IsSeq(c.text)
BY DepthHas DEF Valid, Reached, LeadsTo

LEMMA ForgetsAll ==
  ASSUME NEW w, NEW c, NEW k, Valid(w, c, k)
  PROVE  Valid(w, c, "nothing")
<1>1. LeadsTo(w.p, c.text, StateIn(w, c.frame_size, "nothing")) BY ValidHas, Forgotten DEF StateIn
<1> QED BY <1>1, StateInIs DEF Valid, Reached

LEMMA EmitStays ==
  ASSUME NEW w, NEW c, NEW k, NEW instr, NEW kk, Valid(w, c, k), Steady(w, c.frame_size, k, instr, kk)
  PROVE  Stays(w, c, Emit(c, instr), kk)
<1> DEFINE ctx == Emit(c, instr)
<1>1. IsCtx(c) BY ValidHas
<1>2. /\ IsCtx(ctx) /\ ctx.externs = c.externs /\ ctx.frame_size = c.frame_size
      /\ ctx.text = c.text \o <<instr>> /\ ctx.meta = c.meta
  BY <1>1 DEF IsCtx, CtxFields, EmitAll, Emit
<1> HIDE DEF ctx
<1>3. Reached(w.p, ctx, StateIn(w, c.frame_size, kk))
  <2> DEFINE s == StateIn(w, c.frame_size, k)  t == StateIn(w, c.frame_size, kk)
  <2>1. Reached(w.p, c, s) /\ Fits(w.p, instr, s, t, FALSE) BY DEF Valid, Steady, Moves
  <2>2. ctx.frame_size = t.depth BY <1>2, StateInIs
  <2> HIDE DEF s, t
  <2>3. Reached(w.p, ctx, t) BY <1>2, <2>1, <2>2, OneMore
  <2> QED BY <2>3 DEF t
<1> QED BY <1>2, <1>3 DEF Valid, Stays, ctx

LEMMA EmitAllMore ==
  ASSUME NEW c, NEW a, NEW b, IsCtx(c), IsSeq(c.text), IsSeq(a), IsSeq(b)
  PROVE  EmitAll(c, a \o b) = EmitAll(EmitAll(c, a), b)
<1> DEFINE one == EmitAll(c, a \o b)  some == EmitAll(c, a)  two == EmitAll(some, b)
<1>1. /\ some = [k \in CtxFields |-> IF k = "text" THEN c.text \o a ELSE c[k]]
      /\ one = [k \in CtxFields |-> IF k = "text" THEN c.text \o (a \o b) ELSE c[k]]
  BY DEF IsCtx, CtxFields, EmitAll
<1> HIDE DEF some, one
<1>2. two = [k \in CtxFields |-> IF k = "text" THEN (c.text \o a) \o b ELSE c[k]]
  BY <1>1 DEF CtxFields, EmitAll
<1>3. c.text \o (a \o b) = (c.text \o a) \o b
  <2> DEFINE text == c.text
  <2>1. IsSeq(text) OBVIOUS
  <2> HIDE DEF text
  <2>2. text \o (a \o b) = (text \o a) \o b BY <2>1, ConcatAgain
  <2> QED BY <2>2 DEF text
<1> QED BY <1>1, <1>2, <1>3 DEF one, some

(* Two to five instructions.                                               *)
LEMMA Emits2 ==
  ASSUME NEW w, NEW c, NEW k0, Valid(w, c, k0), NEW k1, NEW k2, NEW a, NEW b,
         Steady(w, c.frame_size, k0, a, k1), Steady(w, c.frame_size, k1, b, k2)
  PROVE  Stays(w, c, EmitAll(c, <<a, b>>), k2)
<1> DEFINE first == Emit(c, a)
<1>1. EmitAll(c, <<a>> \o <<b>>) = Emit(first, b) BY ValidHas, TupleIs, EmitAllMore DEF Emit
<1>2. Stays(w, c, first, k1) BY EmitStays
<1> HIDE DEF first
<1>3. Stays(w, first, Emit(first, b), k2) BY <1>2, EmitStays DEF Stays
<1> QED BY <1>1, <1>2, <1>3, ConcatTuples DEF Stays

LEMMA Emits3 ==
  ASSUME NEW w, NEW c, NEW k0, Valid(w, c, k0), NEW k1, NEW k2, NEW k3, NEW a, NEW b, NEW x,
         Steady(w, c.frame_size, k0, a, k1), Steady(w, c.frame_size, k1, b, k2),
         Steady(w, c.frame_size, k2, x, k3)
  PROVE  Stays(w, c, EmitAll(c, <<a, b, x>>), k3)
<1> DEFINE first == EmitAll(c, <<a, b>>)
<1>1. EmitAll(c, <<a, b>> \o <<x>>) = Emit(first, x) BY ValidHas, TupleIs, EmitAllMore DEF Emit
<1>2. Stays(w, c, first, k2) BY Emits2
<1> HIDE DEF first
<1>3. Stays(w, first, Emit(first, x), k3) BY <1>2, EmitStays DEF Stays
<1> QED BY <1>1, <1>2, <1>3, ConcatTuples DEF Stays

LEMMA Emits4 ==
  ASSUME NEW w, NEW c, NEW k0, Valid(w, c, k0), NEW k1, NEW k2, NEW k3, NEW k4,
         NEW a, NEW b, NEW x, NEW y,
         Steady(w, c.frame_size, k0, a, k1), Steady(w, c.frame_size, k1, b, k2),
         Steady(w, c.frame_size, k2, x, k3), Steady(w, c.frame_size, k3, y, k4)
  PROVE  Stays(w, c, EmitAll(c, <<a, b, x, y>>), k4)
<1> DEFINE first == EmitAll(c, <<a, b, x>>)
<1>1. EmitAll(c, <<a, b, x>> \o <<y>>) = Emit(first, y) BY ValidHas, TupleIs, EmitAllMore DEF Emit
<1>2. Stays(w, c, first, k3) BY Emits3
<1> HIDE DEF first
<1>3. Stays(w, first, Emit(first, y), k4) BY <1>2, EmitStays DEF Stays
<1> QED BY <1>1, <1>2, <1>3, ConcatTuples, ZenonT(30) DEF Stays

LEMMA Emits5 ==
  ASSUME NEW w, NEW c, NEW k0, Valid(w, c, k0), NEW k1, NEW k2, NEW k3, NEW k4, NEW k5,
         NEW a, NEW b, NEW x, NEW y, NEW z,
         Steady(w, c.frame_size, k0, a, k1), Steady(w, c.frame_size, k1, b, k2),
         Steady(w, c.frame_size, k2, x, k3), Steady(w, c.frame_size, k3, y, k4),
         Steady(w, c.frame_size, k4, z, k5)
  PROVE  Stays(w, c, EmitAll(c, <<a, b, x, y, z>>), k5)
<1> DEFINE first == EmitAll(c, <<a, b, x, y>>)
<1>1. EmitAll(c, <<a, b, x, y>> \o <<z>>) = Emit(first, z) BY ValidHas, TupleIs, EmitAllMore DEF Emit
<1>2. Stays(w, c, first, k4) BY Emits4
<1> HIDE DEF first
<1>3. Stays(w, first, Emit(first, z), k5) BY <1>2, EmitStays DEF Stays
<1>4. <<a, b, x, y>> \o <<z>> = <<a, b, x, y, z>> BY ConcatTuples
<1> QED BY <1>1, <1>2, <1>3, <1>4 DEF Stays

-----------------------------------------------------------------------------
(* Which instructions may stand where.                                     *)

LEMMA MovesIs ==
  ASSUME NEW w, NEW d, NEW k, NEW instr, NEW e, NEW kk, DepthIn(w, d),
         InstrFits(w.p, instr, StateIn(w, d, k), FALSE),
         GoesOn(instr) => /\ Behind(instr, d) = e
                          /\ OwnBehind(instr, w.own) = w.own
                          /\ KnowsBehind(instr, StateIn(w, d, k), kk)
  PROVE  Moves(w, d, k, instr, e, kk)
<1> DEFINE s == StateIn(w, d, k)  t == StateIn(w, e, kk)
<1>1. s.in # Nobody BY DepthHas, StateInIs
<1>2. GoesOn(instr) => Follows(instr, s, t) BY StateInIs DEF Follows
<1> QED BY <1>1, <1>2 DEF Moves, Fits

(* What is loaded into a register.                                         *)
LEMMA SteadyLoads ==
  ASSUME NEW w, NEW d, NEW k, DepthIn(w, d), NEW op \in {"mov", "lea"}, NEW x,
         NEW r, r \notin {"rbp", "rsp"}
  PROVE  /\ Steady(w, d, k, <<op, x, Reg(r)>>, "nothing")
         /\ k = "place" /\ r # "rdi" => Steady(w, d, k, <<op, x, Reg(r)>>, "place")
         /\ FindsPlace(<<op, x, Reg(r)>>, StateIn(w, d, k)) => Steady(w, d, k, <<op, x, Reg(r)>>, "place")
<1> DEFINE instr == <<op, x, Reg(r)>>  s == StateIn(w, d, k)
<1>1. instr[1] = op /\ instr[3] = Reg(r) OBVIOUS
<1>2. SetsReg(instr[3]) BY <1>1 DEF SetsReg, Reg
<1>3. Sensible(s) BY DepthHas
<1>4. Behind(instr, d) = d /\ OwnBehind(instr, w.own) = w.own
  <2>1. instr # GivesBack /\ instr # SetsBase /\ instr # RestoresBase
    BY DEF GivesBack, SetsBase, RestoresBase, Reg
  <2>2. w.own \in BOOLEAN BY DEF DepthIn, IsWhere
  <2> HIDE DEF instr
  <2> QED BY <1>1, <2>1, <2>2 DEF Behind, OwnBehind
<1>5. k = "place" /\ r # "rdi" => KnowsBehind(instr, s, "place")
  <2>1. r # "rdi" => KeepsRdi(instr) BY <1>1 DEF KeepsRdi, Reg
  <2>2. s.knows = k BY StateInIs
  <2> HIDE DEF s, instr
  <2> QED BY <2>1, <2>2 DEF KnowsBehind
<1>6. FindsPlace(instr, s) => KnowsBehind(instr, s, "place") BY DEF KnowsBehind
<1>7. KnowsBehind(instr, s, "nothing") BY DEF KnowsBehind
<1> HIDE DEF instr
<1>8. InstrFits(w.p, instr, s, FALSE) BY <1>1, <1>2, <1>3 DEF InstrFits, MoveFits
<1> HIDE DEF s
<1>9. ASSUME NEW kk, KnowsBehind(instr, s, kk) PROVE Steady(w, d, k, instr, kk)
  BY <1>4, <1>8, <1>9, MovesIs DEF Steady, s
<1> QED BY <1>5, <1>6, <1>7, <1>9 DEF instr, s

LEMMA SteadyAsks ==
  ASSUME NEW w, NEW d, NEW k, DepthIn(w, d)
  PROVE  Steady(w, d, k, AsksCode, "code")
<1> DEFINE instr == AsksCode  s == StateIn(w, d, k)
<1>1. instr[1] = "mov" /\ instr[3] = Reg("rax") BY DEF AsksCode
<1>2. SetsReg(instr[3]) BY <1>1 DEF SetsReg, Reg
<1>3. Sensible(s) BY DepthHas
<1>4. Behind(instr, d) = d /\ OwnBehind(instr, w.own) = w.own
  <2>1. instr # GivesBack /\ instr # SetsBase /\ instr # RestoresBase
    BY <1>1 DEF GivesBack, SetsBase, RestoresBase, Reg
  <2>2. w.own \in BOOLEAN BY DEF DepthIn, IsWhere
  <2> QED BY <1>1, <2>1, <2>2 DEF Behind, OwnBehind
<1>5. KnowsBehind(instr, s, "code") BY DEF KnowsBehind
<1>6. InstrFits(w.p, instr, s, FALSE) BY <1>1, <1>2, <1>3 DEF InstrFits, MoveFits
<1> QED BY <1>4, <1>5, <1>6, MovesIs DEF Steady

(* Calls, at an even depth.                                                *)
LEMMA SteadyCalls ==
  ASSUME NEW w, NEW d, NEW k, DepthIn(w, d), d % 2 = 0
  PROVE  /\ \A to : MayCall(to, StateIn(w, d, k)) => Steady(w, d, k, <<"call", to>>, "nothing")
         /\ \A label : k = "place" => Steady(w, d, k, <<"call", Sym(label)>>, "nothing")
         /\ k \in {"place", "code"} => Steady(w, d, k, <<"call", Reg("rax")>>, "nothing")
         /\ \A f : f[1] \in Quiet => Steady(w, d, k, <<"call", Runtime(f)>>, "nothing")
<1> DEFINE s == StateIn(w, d, k)
<1>1. ASSUME NEW to, MayCall(to, s) PROVE Steady(w, d, k, <<"call", to>>, "nothing")
  <2> DEFINE instr == <<"call", to>>
  <2>1. instr[1] = "call" /\ instr[2] = to OBVIOUS
  <2>2. Links(s.in) <= s.depth /\ s.depth % 2 = 0 BY StateInIs DEF DepthIn
  <2>3. CallFits(instr, s, FALSE) BY <1>1, <2>1, <2>2 DEF CallFits
  <2>4. Sensible(s) BY DepthHas
  <2>5. InstrFits(w.p, instr, s, FALSE) BY <2>1, <2>3, <2>4 DEF InstrFits
  <2>6. Behind(instr, d) = d /\ OwnBehind(instr, w.own) = w.own
    <3>1. instr # GivesBack /\ instr # SetsBase /\ instr # RestoresBase
      BY DEF GivesBack, SetsBase, RestoresBase
    <3>2. w.own \in BOOLEAN BY DEF DepthIn, IsWhere
    <3> HIDE DEF instr
    <3> QED BY <2>1, <3>1, <3>2 DEF Behind, OwnBehind
  <2>7. KnowsBehind(instr, s, "nothing") BY DEF KnowsBehind
  <2> QED BY <2>5, <2>6, <2>7, MovesIs DEF Steady
<1>2. s.knows = k BY StateInIs
<1>3. \A label : Sym(label)[1] = "sym" /\ Sym(label)[2] = label BY DEF Sym
<1>4. \A f : Runtime(f)[1] = "sym" /\ Runtime(f)[2][1] = "runtime" /\ Runtime(f)[2][2] = f
  BY DEF Runtime, Sym
<1> HIDE DEF s
<1>5. ASSUME NEW label, k = "place" PROVE MayCall(Sym(label), s)
  BY <1>2, <1>3, <1>5 DEF MayCall
<1>6. k \in {"place", "code"} => MayCall(Reg("rax"), s) BY <1>2 DEF MayCall
<1>7. ASSUME NEW f, f[1] \in Quiet PROVE MayCall(Runtime(f), s) BY <1>4, <1>7 DEF MayCall
<1> QED BY <1>1, <1>5, <1>6, <1>7 DEF s

LEMMA SteadyStores ==
  ASSUME NEW w, NEW d, NEW k, DepthIn(w, d), NEW n \in Nat, n + 1 + Links(w.in) <= d, NEW x
  PROVE  Steady(w, d, k, <<"mov", x, Mem(n, "rsp")>>, "nothing")
<1> DEFINE instr == <<"mov", x, Mem(n, "rsp")>>  s == StateIn(w, d, k)
<1>1. instr[1] = "mov" /\ instr[3][1] = "mem" /\ instr[3][2] = n /\ instr[3][3] = "rsp" BY DEF Mem
<1>2. Sensible(s) BY DepthHas
<1>3. instr # GivesBack /\ instr # SetsBase /\ instr # RestoresBase
  BY <1>1 DEF GivesBack, SetsBase, RestoresBase, Reg
<1>4. w.own \in BOOLEAN BY DEF DepthIn, IsWhere
<1> HIDE DEF instr
<1>5. Behind(instr, d) = d /\ OwnBehind(instr, w.own) = w.own BY <1>1, <1>3, <1>4 DEF Behind, OwnBehind
<1>6. KnowsBehind(instr, s, "nothing") BY DEF KnowsBehind
<1>7. MoveFits(instr, s) BY <1>1, StateInIs DEF MoveFits
<1>8. InstrFits(w.p, instr, s, FALSE) BY <1>1, <1>2, <1>7 DEF InstrFits
<1> QED BY <1>5, <1>6, <1>8, MovesIs DEF Steady, instr

LEMMA SteadyTest ==
  ASSUME NEW w, NEW d, NEW k, DepthIn(w, d)
  PROVE  Steady(w, d, k, <<"test">>, "nothing")
<1> DEFINE instr == <<"test">>  s == StateIn(w, d, k)
<1>1. instr[1] = "test" OBVIOUS
<1>2. Sensible(s) BY DepthHas
<1>3. instr # GivesBack /\ instr # SetsBase /\ instr # RestoresBase
  BY DEF GivesBack, SetsBase, RestoresBase
<1>4. w.own \in BOOLEAN BY DEF DepthIn, IsWhere
<1> HIDE DEF instr
<1>5. Behind(instr, d) = d /\ OwnBehind(instr, w.own) = w.own BY <1>1, <1>3, <1>4 DEF Behind, OwnBehind
<1>6. KnowsBehind(instr, s, "nothing") BY DEF KnowsBehind
<1>7. InstrFits(w.p, instr, s, FALSE) BY <1>1, <1>2 DEF InstrFits
<1> QED BY <1>5, <1>6, <1>7, MovesIs DEF Steady, instr

(* A jump within the body, and a label of it.                              *)
InFrameOf(w, d) == w.own /\ w.in[1] = "sub" /\ w.in = TheBody(w.in[2]) /\ d = FrameOf(w.p, w.in[2])

LEMMA SteadyJumps ==
  ASSUME NEW w, NEW d, NEW k, DepthIn(w, d), InFrameOf(w, d), NEW to, InBody(to), to[2] = w.in[2],
         NEW op \in {"jmp", "jnz"}
  PROVE  Steady(w, d, k, <<op, to>>, "nothing")
<1> DEFINE instr == <<op, to>>  s == StateIn(w, d, k)
<1>1. instr[1] = op /\ instr[2] = to OBVIOUS
<1>2. Sensible(s) BY DepthHas
<1>3. instr # GivesBack /\ instr # SetsBase /\ instr # RestoresBase
  BY <1>1 DEF GivesBack, SetsBase, RestoresBase
<1>4. w.own \in BOOLEAN BY DEF DepthIn, IsWhere
<1> HIDE DEF instr
<1>5. Behind(instr, d) = d /\ OwnBehind(instr, w.own) = w.own BY <1>1, <1>3, <1>4 DEF Behind, OwnBehind
<1>6. KnowsBehind(instr, s, "nothing") BY DEF KnowsBehind
<1>7. JumpFits(w.p, instr, s) BY <1>1, StateInIs DEF JumpFits, InFrameOf
<1>8. InstrFits(w.p, instr, s, FALSE) BY <1>1, <1>2, <1>7 DEF InstrFits
<1> QED BY <1>5, <1>6, <1>8, MovesIs DEF Steady, instr

LEMMA LabelStays ==
  ASSUME NEW w, NEW c, NEW label, Valid(w, c, "nothing"), ~IsStart(label), label[1] # "E",
         InBody(label) => InFrameOf(w, c.frame_size) /\ label[2] = w.in[2],
         label[1] = "at" => w.own
  PROVE  Stays(w, c, Label(c, label), "nothing")
<1> DEFINE d == c.frame_size  instr == <<"label", label, d>>  s == StateIn(w, d, "nothing")
<1>1. instr[1] = "label" /\ instr[2] = label /\ instr[3] = d OBVIOUS
<1>2. DepthIn(w, d) /\ Sensible(s) BY ValidHas, DepthHas
<1>3. instr # GivesBack /\ instr # SetsBase /\ instr # RestoresBase
  BY DEF GivesBack, SetsBase, RestoresBase
<1>4. w.own \in BOOLEAN BY <1>2 DEF DepthIn, IsWhere
<1>5. Label(c, label) = Emit(c, instr) BY DEF Label
<1>6. InBody(label) => InFrameOf(w, d) /\ label[2] = w.in[2] OBVIOUS
<1> HIDE DEF instr, d
<1>7. Behind(instr, d) = d /\ OwnBehind(instr, w.own) = w.own BY <1>1, <1>3, <1>4 DEF Behind, OwnBehind
<1>8. KnowsBehind(instr, s, "nothing") BY DEF KnowsBehind
<1>9. LabelFits(w.p, instr, s) BY <1>1, <1>6, StateInIs DEF LabelFits, InFrameOf
<1>10. InstrFits(w.p, instr, s, FALSE) BY <1>1, <1>2, <1>9 DEF InstrFits
<1>11. Steady(w, d, "nothing", instr, "nothing") BY <1>2, <1>7, <1>8, <1>10, MovesIs DEF Steady
<1> QED BY <1>5, <1>11, EmitStays DEF d

-----------------------------------------------------------------------------
(* Changes of the depth.                                                   *)

LEMMA Resized ==
  ASSUME NEW w, NEW c, NEW k, NEW instr, NEW ctx, NEW kk, Valid(w, c, k),
         IsCtx(ctx), ctx.externs = c.externs, ctx.text = c.text \o <<instr>>,
         DepthIn(w, ctx.frame_size), Moves(w, c.frame_size, k, instr, ctx.frame_size, kk)
  PROVE  Valid(w, ctx, kk)
<1> DEFINE s == StateIn(w, c.frame_size, k)  t == StateIn(w, ctx.frame_size, kk)
<1>1. Reached(w.p, c, s) /\ Fits(w.p, instr, s, t, FALSE) BY DEF Valid, Moves
<1>2. ctx.frame_size = t.depth BY StateInIs
<1> HIDE DEF s, t
<1>3. Reached(w.p, ctx, t) BY <1>1, <1>2, OneMore
<1> QED BY <1>3 DEF Valid, t

LEMMA PushqPushes ==
  ASSUME NEW w, NEW c, NEW k, NEW from, Valid(w, c, k)
  PROVE  /\ Valid(w, Pushq(c, from), "nothing") /\ Pushq(c, from).frame_size = c.frame_size + 1
         /\ Pushq(c, from).meta = c.meta
<1> DEFINE ctx == Pushq(c, from)  instr == <<"push", from>>  d == c.frame_size
<1>1. IsCtx(c) /\ d \in Nat /\ DepthIn(w, d) BY ValidHas
<1>2. /\ IsCtx(ctx) /\ ctx.externs = c.externs /\ ctx.frame_size = d + 1
      /\ ctx.text = c.text \o <<instr>> /\ ctx.meta = c.meta
  BY <1>1 DEF IsCtx, CtxFields, EmitAll, Emit, Pushq
<1>3. DepthIn(w, d + 1)
  <2>1. Links(w.in) = 2 \/ Links(w.in) = 3 BY LinksIs
  <2>2. Links(w.in) <= d + 1 BY <1>1, <2>1 DEF DepthIn
  <2> QED BY <1>1, <2>2 DEF DepthIn
<1>4. instr[1] = "push" /\ instr[2] = from OBVIOUS
<1>5. instr # GivesBack /\ instr # SetsBase /\ instr # RestoresBase
  BY DEF GivesBack, SetsBase, RestoresBase
<1> HIDE DEF instr, ctx
<1>6. Moves(w, d, k, instr, d + 1, "nothing")
  <2> DEFINE s == StateIn(w, d, k)
  <2>1. Sensible(s) BY <1>1, DepthHas
  <2>2. 2 <= d /\ d \in Nat /\ (Links(w.in) = 3 => 3 <= d) BY <1>1, DepthHas DEF DepthIn
  <2>3. PushFits(instr, s)
    <3>1. s.depth = d /\ s.in = w.in BY StateInIs
    <3> HIDE DEF s, d
    <3> QED BY <2>2, <3>1 DEF PushFits
  <2>4. InstrFits(w.p, instr, s, FALSE) BY <1>4, <2>1, <2>3 DEF InstrFits
  <2>5. w.own \in BOOLEAN BY <1>1 DEF DepthIn, IsWhere
  <2>6. Behind(instr, d) = d + 1 /\ OwnBehind(instr, w.own) = w.own
    BY <1>4, <1>5, <2>5 DEF Behind, OwnBehind
  <2>7. KnowsBehind(instr, s, "nothing") BY DEF KnowsBehind
  <2> QED BY <1>1, <2>4, <2>6, <2>7, MovesIs
<1> QED BY <1>2, <1>3, <1>6, Resized DEF ctx

LEMMA PopArgPops ==
  ASSUME NEW w, NEW c, NEW k, NEW reg, Valid(w, c, k), reg # "rbp", Links(w.in) < c.frame_size
  PROVE  /\ Valid(w, PopArg(c, reg), "nothing") /\ PopArg(c, reg).frame_size = c.frame_size - 1
         /\ PopArg(c, reg).meta = c.meta
<1> DEFINE ctx == PopArg(c, reg)  instr == <<"pop", Reg(reg)>>  d == c.frame_size
<1>1. IsCtx(c) /\ d \in Nat /\ DepthIn(w, d) BY ValidHas
<1>2. /\ IsCtx(ctx) /\ ctx.externs = c.externs /\ ctx.frame_size = d - 1
      /\ ctx.text = c.text \o <<instr>> /\ ctx.meta = c.meta
  BY <1>1 DEF IsCtx, CtxFields, EmitAll, Emit, PopArg
<1>3. DepthIn(w, d - 1) /\ 3 <= d
  <2>1. Links(w.in) = 2 \/ Links(w.in) = 3 BY LinksIs
  <2>2. Links(w.in) <= d - 1 /\ 3 <= d /\ d - 1 \in Nat BY <1>1, <2>1
  <2> QED BY <1>1, <2>2 DEF DepthIn
<1>4. instr[1] = "pop" /\ instr[2][2] = reg BY DEF Reg
<1>5. instr # GivesBack /\ instr # SetsBase /\ instr # RestoresBase
  BY <1>4 DEF GivesBack, SetsBase, RestoresBase, Reg
<1> HIDE DEF instr, ctx
<1>6. Moves(w, d, k, instr, d - 1, "nothing")
  <2> DEFINE s == StateIn(w, d, k)
  <2>1. Sensible(s) BY <1>1, DepthHas
  <2>2. PopFits(instr, s)
    <3>1. s.depth = d BY StateInIs
    <3>2. 2 <= d BY <1>1, DepthHas
    <3> HIDE DEF s, d
    <3> QED BY <1>3, <1>4, <3>1, <3>2 DEF PopFits
  <2>3. InstrFits(w.p, instr, s, FALSE) BY <1>4, <2>1, <2>2 DEF InstrFits
  <2>4. w.own \in BOOLEAN BY <1>1 DEF DepthIn, IsWhere
  <2>5. Behind(instr, d) = d - 1 /\ OwnBehind(instr, w.own) = w.own
    BY <1>4, <1>5, <2>4 DEF Behind, OwnBehind
  <2>6. KnowsBehind(instr, s, "nothing") BY DEF KnowsBehind
  <2> QED BY <1>1, <2>3, <2>5, <2>6, MovesIs
<1> QED BY <1>2, <1>3, <1>6, Resized DEF ctx

LEMMA ReserveReserves ==
  ASSUME NEW w, NEW c, NEW size \in Nat, Valid(w, c, "nothing"), c.frame_size <= size
  PROVE  /\ Valid(w, Reserve(c, size), "nothing") /\ Reserve(c, size).frame_size = size
         /\ Reserve(c, size).meta = c.meta
<1>1. CASE size = c.frame_size BY <1>1 DEF Reserve
<1>2. CASE size # c.frame_size
  <2> DEFINE d == c.frame_size  by == size - d  ctx == Lowered(c, by)  instr == <<"sub", by>>
  <2>1. IsCtx(c) /\ d \in Nat /\ DepthIn(w, d) BY ValidHas
  <2>2. by \in Nat \ {0} /\ d + by = size BY <1>2, <2>1
  <2>3. /\ IsCtx(ctx) /\ ctx.externs = c.externs /\ ctx.frame_size = d + by
        /\ ctx.text = c.text \o <<instr>> /\ ctx.meta = c.meta
    BY <2>1 DEF IsCtx, CtxFields, EmitAll, Emit, Lowered
  <2>4. Reserve(c, size) = ctx BY <1>2 DEF Reserve
  <2>5. DepthIn(w, size)
    <3>1. Links(w.in) = 2 \/ Links(w.in) = 3 BY LinksIs
    <3>2. Links(w.in) <= size BY <2>1, <3>1 DEF DepthIn
    <3> QED BY <2>1, <3>2 DEF DepthIn
  <2> HIDE DEF by
  <2>6. instr[1] = "sub" /\ instr[2] = by OBVIOUS
  <2>7. instr # GivesBack /\ instr # SetsBase /\ instr # RestoresBase
    BY DEF GivesBack, SetsBase, RestoresBase
  <2> HIDE DEF instr, ctx
  <2>8. Moves(w, d, "nothing", instr, size, "nothing")
    <3> DEFINE s == StateIn(w, d, "nothing")
    <3>1. Sensible(s) BY <2>1, DepthHas
    <3>2. MoveStackFits(instr, s)
      <4>1. s.depth = d /\ s.in = w.in BY StateInIs
      <4>2. Links(w.in) <= d BY <2>1 DEF DepthIn
      <4> HIDE DEF s, d
      <4> QED BY <2>2, <2>6, <4>1, <4>2 DEF MoveStackFits
    <3>3. InstrFits(w.p, instr, s, FALSE) BY <2>6, <3>1, <3>2 DEF InstrFits
    <3>4. w.own \in BOOLEAN BY <2>1 DEF DepthIn, IsWhere
    <3>5. Behind(instr, d) = size /\ OwnBehind(instr, w.own) = w.own
      BY <2>2, <2>6, <2>7, <3>4 DEF Behind, OwnBehind
    <3>6. KnowsBehind(instr, s, "nothing") BY DEF KnowsBehind
    <3> QED BY <2>1, <3>3, <3>5, <3>6, MovesIs
  <2>9. ctx.frame_size = size BY <2>2, <2>3
  <2>10. Valid(w, ctx, "nothing") BY <2>3, <2>5, <2>8, <2>9, Resized
  <2> QED BY <2>3, <2>4, <2>9, <2>10
<1> QED BY <1>1, <1>2

LEMMA FrameRestores ==
  ASSUME NEW w, NEW c, NEW size \in Nat, Valid(w, c, "nothing"), size <= c.frame_size, Links(w.in) <= size
  PROVE  /\ Valid(w, FrameRestore(c, size), "nothing") /\ FrameRestore(c, size).frame_size = size
         /\ FrameRestore(c, size).meta = c.meta
<1>1. CASE size = c.frame_size BY <1>1 DEF FrameRestore
<1>2. CASE size # c.frame_size
  <2> DEFINE d == c.frame_size  by == d - size  instr == <<"add", by>>  ctx == FrameRestore(c, size)
  <2>1. IsCtx(c) /\ d \in Nat /\ DepthIn(w, d) BY ValidHas
  <2>2. 2 <= size
    <3>1. Links(w.in) = 2 \/ Links(w.in) = 3 BY LinksIs
    <3> QED BY <3>1
  <2>3. by \in Nat \ {0} /\ d - by = size /\ by < d /\ by + 2 <= d BY <1>2, <2>1, <2>2
  <2>4. /\ IsCtx(ctx) /\ ctx.externs = c.externs /\ ctx.frame_size = size
        /\ ctx.text = c.text \o <<instr>> /\ ctx.meta = c.meta
    BY <1>2, <2>1 DEF IsCtx, CtxFields, EmitAll, Emit, FrameRestore
  <2>5. DepthIn(w, size) BY <2>1 DEF DepthIn
  <2> HIDE DEF by
  <2>6. instr[1] = "add" /\ instr[2] = by OBVIOUS
  <2>7. instr # GivesBack /\ instr # SetsBase /\ instr # RestoresBase
    BY DEF GivesBack, SetsBase, RestoresBase
  <2> HIDE DEF instr, ctx
  <2>8. Moves(w, d, "nothing", instr, size, "nothing")
    <3> DEFINE s == StateIn(w, d, "nothing")
    <3>1. Sensible(s) BY <2>1, DepthHas
    <3>2. MoveStackFits(instr, s)
      <4>1. s.depth = d BY StateInIs
      <4> HIDE DEF s, d
      <4> QED BY <2>3, <2>6, <4>1 DEF MoveStackFits
    <3>3. InstrFits(w.p, instr, s, FALSE) BY <2>6, <3>1, <3>2 DEF InstrFits
    <3>4. w.own \in BOOLEAN BY <2>1 DEF DepthIn, IsWhere
    <3>5. Behind(instr, d) = size /\ OwnBehind(instr, w.own) = w.own
      BY <2>3, <2>6, <2>7, <3>4 DEF Behind, OwnBehind
    <3>6. KnowsBehind(instr, s, "nothing") BY DEF KnowsBehind
    <3> QED BY <2>1, <3>3, <3>5, <3>6, MovesIs
  <2>9. Valid(w, ctx, "nothing") BY <2>4, <2>5, <2>8, Resized
  <2> QED BY <2>4, <2>9 DEF ctx
<1> QED BY <1>1, <1>2

LEMMA Restored ==
  ASSUME NEW w, NEW c, NEW k, NEW ctx, Valid(w, c, k), Grows(w, c, ctx, "nothing")
  PROVE  Stays(w, c, FrameRestore(ctx, c.frame_size), "nothing")
<1>1. c.frame_size \in Nat /\ Links(w.in) <= c.frame_size BY ValidHas DEF DepthIn
<1> QED BY <1>1, FrameRestores DEF Stays, Grows

LEMMA CgErrorStays ==
  ASSUME NEW w, NEW c, NEW k, NEW kind, Valid(w, c, k)
  PROVE  Stays(w, c, CgError(c, kind), k)
<1> DEFINE ctx == CgError(c, kind)
<1>1. IsCtx(c) BY ValidHas
<1>2. /\ IsCtx(ctx) /\ ctx.externs = c.externs /\ ctx.frame_size = c.frame_size
      /\ ctx.text = c.text /\ ctx.meta = c.meta
  BY <1>1 DEF IsCtx, CtxFields, CgError
<1> HIDE DEF ctx
<1> QED BY <1>2 DEF Valid, Reached, Stays, ctx

LEMMA AlignedIs ==
  ASSUME NEW n \in Nat
  PROVE  /\ Aligned(n) \in Nat /\ Aligned(n) % 2 = 0
         /\ n <= Aligned(n)
BY DEF Aligned

-----------------------------------------------------------------------------
(* Places for values, and arguments.                                       *)

(* A slot in the frame below the links, and the pointer to the place that  *)
(* the caller has given for the result.                                    *)
SlotAt(w, meta, d) ==
  /\ w.own /\ meta.kind = "slot" /\ meta.offset \in Int
  /\ 2 - d <= meta.offset /\ meta.offset + Links(w.in) < 0
GivenAt(w, meta, d) == w.own /\ meta = Ptr(-1) /\ Links(w.in) = 3 /\ 3 <= d
PlaceAt(w, meta, d) == SlotAt(w, meta, d) \/ GivenAt(w, meta, d)

LEMMA PlaceStays ==
  ASSUME NEW w, NEW meta, NEW d \in Nat, NEW e \in Nat, d <= e
  PROVE  /\ PlaceAt(w, meta, d) => PlaceAt(w, meta, e)
         /\ SlotAt(w, meta, d) => SlotAt(w, meta, e)
<1>1. ASSUME SlotAt(w, meta, d) PROVE SlotAt(w, meta, e)
  <2> DEFINE o == meta.offset
  <2>1. o \in Int /\ 2 - d <= o BY <1>1 DEF SlotAt
  <2> HIDE DEF o
  <2>2. 2 - e <= o BY <2>1
  <2> QED BY <1>1, <2>2 DEF SlotAt, o
<1>2. ASSUME GivenAt(w, meta, d) PROVE GivenAt(w, meta, e)
  <2>1. 3 <= d BY <1>2 DEF GivenAt
  <2>2. 3 <= e BY <2>1
  <2> QED BY <1>2, <2>2 DEF GivenAt
<1> QED BY <1>1, <1>2 DEF PlaceAt

LEMMA ValueRegSteady ==
  ASSUME NEW w, NEW d, NEW k, DepthIn(w, d), NEW meta, NEW r, r \notin {"rbp", "rsp"}
  PROVE  /\ Steady(w, d, k, ValueReg(meta, r), "nothing")
         /\ k = "place" /\ r # "rdi" => Steady(w, d, k, ValueReg(meta, r), "place")
         /\ r = "rdi" /\ PlaceAt(w, meta, d) => Steady(w, d, k, ValueReg(meta, r), "place")
<1> DEFINE op == IF meta.kind = "slot" THEN "lea" ELSE "mov"
           x == IF meta.kind = "null" THEN Imm("0") ELSE Mem(meta.offset, "rbp")
           s == StateIn(w, d, k)
<1>1. ValueReg(meta, r) = <<op, x, Reg(r)>> BY DEF ValueReg
<1>2. op \in {"mov", "lea"} OBVIOUS
<1>3. ASSUME r = "rdi", PlaceAt(w, meta, d) PROVE FindsPlace(<<op, x, Reg(r)>>, s)
  <2> DEFINE instr == <<op, x, Reg(r)>>
  <2>1. instr[1] = op /\ instr[2] = x /\ instr[3] = Reg("rdi") BY <1>3
  <2>2. s.depth = d /\ s.in = w.in /\ s.own = w.own BY StateInIs
  <2> HIDE DEF instr, s
  <2>3. CASE SlotAt(w, meta, d)
    <3>1. op = "lea" /\ x = Mem(meta.offset, "rbp") BY <2>3 DEF SlotAt
    <3>2. x[1] = "mem" /\ x[2] = meta.offset /\ x[3] = "rbp" BY <3>1 DEF Mem
    <3> HIDE DEF op, x
    <3>3. OfFrame(x, s) BY <2>2, <2>3, <3>2 DEF OfFrame, SlotAt
    <3>4. meta.offset \in Int BY <2>3 DEF SlotAt
    <3> QED BY <2>1, <3>1, <3>2, <3>3, <3>4 DEF FindsPlace, instr
  <2>4. CASE GivenAt(w, meta, d)
    <3>1. op = "mov" /\ x = Mem(-1, "rbp") BY <2>4 DEF GivenAt, Ptr
    <3>2. x[1] = "mem" /\ x[2] = -1 BY <3>1 DEF Mem
    <3> HIDE DEF op, x
    <3>3. OfCaller(x, s) BY <2>2, <2>4, <3>1 DEF OfCaller, GivenAt
    <3>4. -1 \in Int OBVIOUS
    <3> QED BY <2>1, <3>1, <3>2, <3>3, <3>4 DEF FindsPlace, instr
  <2> QED BY <1>3, <2>3, <2>4 DEF PlaceAt
<1> HIDE DEF op, x, s
<1>4. Steady(w, d, k, <<op, x, Reg(r)>>, "nothing") BY <1>2, SteadyLoads
<1>5. k = "place" /\ r # "rdi" => Steady(w, d, k, <<op, x, Reg(r)>>, "place") BY <1>2, SteadyLoads
<1>6. FindsPlace(<<op, x, Reg(r)>>, s) => Steady(w, d, k, <<op, x, Reg(r)>>, "place")
  BY <1>2, SteadyLoads DEF s
<1> QED BY <1>1, <1>3, <1>4, <1>5, <1>6

LEMMA ValuePushPushes ==
  ASSUME NEW w, NEW c, NEW k, NEW meta, Valid(w, c, k)
  PROVE  /\ Valid(w, ValuePush(c, meta), "nothing") /\ ValuePush(c, meta).frame_size = c.frame_size + 1
         /\ ValuePush(c, meta).meta = c.meta
<1>1. CASE meta.kind = "slot"
  <2> DEFINE ctx == Emit(c, ValueReg(meta, "rax"))
  <2>1. DepthIn(w, c.frame_size) BY ValidHas
  <2>2. Steady(w, c.frame_size, k, ValueReg(meta, "rax"), "nothing") BY <2>1, ValueRegSteady
  <2>3. Valid(w, ctx, "nothing") /\ ctx.frame_size = c.frame_size /\ ctx.meta = c.meta
    BY <2>2, EmitStays DEF Stays
  <2>4. ValuePush(c, meta) = Pushq(ctx, Reg("rax")) BY <1>1 DEF ValuePush
  <2> HIDE DEF ctx
  <2> QED BY <2>3, <2>4, PushqPushes
<1>2. CASE meta.kind # "slot"
  <2>1. ValuePush(c, meta) = Pushq(c, ValueReg(meta, "rax")[2]) BY <1>2 DEF ValuePush
  <2> QED BY <2>1, PushqPushes
<1> QED BY <1>1, <1>2

LEMMA Registers ==
  \A i \in 1..6 : ArgRegs[i] \notin {"rbp", "rsp"}
<1>1. 1..6 = {1, 2, 3, 4, 5, 6} OBVIOUS
<1> QED BY <1>1 DEF ArgRegs

(* n arguments are passed, the last one first; those behind the sixth are  *)
(* pushed.  If the first one is a place, then rdi holds it in the end.     *)
PassingGood(given, i, ctx) ==
  /\ Valid(given.w, ctx, IF i = given.n /\ given.found THEN "place" ELSE "nothing")
  /\ ctx.frame_size = given.size + IF i <= Pushed(given.n) THEN i ELSE Pushed(given.n)
  /\ ctx.meta = given.meta
Passing == INSTANCE Folding WITH op <- PassValue, Good <- PassingGood

LEMMA PassValuesPasses ==
  ASSUME NEW w, NEW c, NEW metas, Valid(w, c, "nothing"), IsSeq(metas)
  PROVE  LET passed == PassValues(c, metas)
         IN  /\ Grows(w, c, passed, "nothing") /\ Even(passed)
             /\ Len(metas) # 0 /\ PlaceAt(w, metas[1], c.frame_size) => Grows(w, c, passed, "place")
<1> DEFINE n == Len(metas)
           start == Padded(c, n)
           args == Args(metas)
           passed == PassValues(c, metas)
           found == n # 0 /\ PlaceAt(w, metas[1], c.frame_size)
           numbered == [i \in DOMAIN metas |-> [i |-> i, meta |-> metas[i]]]
<1>1. n \in Nat /\ DOMAIN metas = 1..n BY SeqHas
<1>2. c.frame_size \in Nat BY ValidHas
<1>3. Pushed(n) \in Nat BY <1>1 DEF Pushed
<1> DEFINE whole == Aligned(c.frame_size + Pushed(n))
<1>4. whole \in Nat /\ whole % 2 = 0 /\ c.frame_size + Pushed(n) <= whole
  <2>1. c.frame_size + Pushed(n) \in Nat BY <1>2, <1>3
  <2> QED BY <2>1, AlignedIs
<1>5. Valid(w, start, "nothing") /\ start.frame_size = whole - Pushed(n) /\ start.meta = c.meta
  <2>1. start = Reserve(c, whole - Pushed(n)) BY DEF Padded
  <2>2. whole - Pushed(n) \in Nat /\ c.frame_size <= whole - Pushed(n) BY <1>2, <1>3, <1>4
  <2> HIDE DEF start, whole
  <2> QED BY <2>1, <2>2, ReserveReserves
<1>6. IsSeq(numbered) /\ Len(numbered) = n
  <2>1. numbered = [i \in 1..n |-> numbered[i]] BY <1>1
  <2> HIDE DEF numbered
  <2> QED BY <1>1, <2>1, SeqBuilt
<1>7. /\ Len(args) = n
      /\ \A i \in 1..n : args[i].i = (n - i) + 1 /\ args[i].meta = metas[(n - i) + 1]
  <2>1. args = Reverse(numbered) BY DEF Args
  <2>2. ASSUME NEW i \in 1..n
        PROVE  /\ numbered[(n - i) + 1].i = (n - i) + 1
               /\ numbered[(n - i) + 1].meta = metas[(n - i) + 1]
    <3>1. (n - i) + 1 \in DOMAIN metas BY <1>1
    <3> QED BY <3>1, SMTT(30)
  <2> HIDE DEF numbered, n
  <2> QED BY <1>6, <2>1, <2>2, ReverseIs
<1> DEFINE given == [w |-> w, n |-> n, size |-> start.frame_size, found |-> found, meta |-> c.meta]
<1>8. found => n # 0 OBVIOUS
<1>9. found => PlaceAt(w, metas[1], c.frame_size) OBVIOUS
<1>10. start.frame_size \in Nat /\ c.frame_size <= start.frame_size BY <1>2, <1>3, <1>4, <1>5
<1> HIDE DEF start, whole, args, n, numbered, found
<1>11. PassingGood(given, 0, start)
  <2>1. 0 <= Pushed(n) BY <1>3
  <2>2. start.frame_size + 0 = start.frame_size BY <1>10
  <2>3. ~(0 = n /\ found) BY <1>8
  <2> QED BY <1>5, <2>1, <2>2, <2>3 DEF PassingGood
<1>12. ASSUME NEW i \in 1..n, NEW ctx, PassingGood(given, i - 1, ctx)
      PROVE  PassingGood(given, i, PassValue(ctx, args[i]))
  <2>1. PICK k : Valid(w, ctx, k) BY <1>12 DEF PassingGood
  <2>2. /\ ctx.frame_size = start.frame_size + IF i - 1 <= Pushed(n) THEN i - 1 ELSE Pushed(n)
        /\ ctx.meta = c.meta
    BY <1>12 DEF PassingGood
  <2> DEFINE j == (n - i) + 1
  <2>3. args[i].i = j /\ args[i].meta = metas[j] BY <1>7
  <2>4. j \in Nat \ {0} /\ (i = n => j = 1) BY <1>1
  <2> DEFINE kk == IF i = n /\ found THEN "place" ELSE "nothing"
  <2>5. DepthIn(w, ctx.frame_size) /\ ctx.frame_size \in Nat BY <2>1, ValidHas
  <2>6. CASE j <= 6
    <3> DEFINE reg == ArgRegs[j]  instr == ValueReg(metas[j], reg)
    <3>1. reg \notin {"rbp", "rsp"}
      <4>1. j \in 1..6 BY <2>4, <2>6
      <4> QED BY <4>1, Registers
    <3>2. Steady(w, ctx.frame_size, k, instr, kk)
      <4>1. CASE i = n /\ found
        <5>1. j = 1 BY <2>4, <4>1
        <5>2. reg = "rdi" BY <5>1 DEF ArgRegs
        <5>3. c.frame_size <= ctx.frame_size
          <6>1. CASE i - 1 <= Pushed(n) BY <1>2, <1>10, <2>2, <2>5, <6>1
          <6>2. CASE ~(i - 1 <= Pushed(n)) BY <1>2, <1>3, <1>10, <2>2, <2>5, <6>2
          <6> QED BY <6>1, <6>2
        <5>4. PlaceAt(w, metas[1], ctx.frame_size) BY <1>2, <1>9, <2>5, <4>1, <5>3, PlaceStays
        <5>5. Steady(w, ctx.frame_size, k, ValueReg(metas[1], "rdi"), "place")
          BY <2>5, <5>4, ValueRegSteady
        <5> QED BY <4>1, <5>1, <5>2, <5>5
      <4>2. CASE ~(i = n /\ found)
        <5>1. kk = "nothing" BY <4>2
        <5> HIDE DEF reg, j, kk
        <5> QED BY <2>5, <3>1, <5>1, ValueRegSteady
      <4> QED BY <4>1, <4>2
    <3>3. PassValue(ctx, args[i]) = Emit(ctx, instr) BY <2>3, <2>6 DEF PassValue
    <3> HIDE DEF instr, kk, j
    <3>4. Stays(w, ctx, Emit(ctx, instr), kk) BY <2>1, <3>2, EmitStays
    <3>5. Pushed(n) <= i - 1 BY <1>1, <1>3, <2>6 DEF Pushed, j
    <3>6. (IF i - 1 <= Pushed(n) THEN i - 1 ELSE Pushed(n)) = IF i <= Pushed(n) THEN i ELSE Pushed(n)
      BY <1>3, <3>5
    <3> QED BY <2>2, <3>3, <3>4, <3>6 DEF PassingGood, Stays, kk
  <2>7. CASE ~(j <= 6)
    <3> DEFINE next == ValuePush(ctx, metas[j])
    <3>1. PassValue(ctx, args[i]) = next BY <2>3, <2>7 DEF PassValue
    <3>2. Valid(w, next, "nothing") /\ next.frame_size = ctx.frame_size + 1 /\ next.meta = ctx.meta
      BY <2>1, ValuePushPushes
    <3>3. i <= Pushed(n) BY <1>1, <2>7 DEF Pushed
    <3>4. ctx.frame_size = start.frame_size + (i - 1) BY <1>3, <2>2, <3>3
    <3>5. next.frame_size = start.frame_size + i BY <1>10, <1>3, <3>2, <3>4
    <3>6. i # n BY <2>4, <2>7
    <3> HIDE DEF next
    <3> QED BY <2>2, <3>1, <3>2, <3>3, <3>5, <3>6 DEF PassingGood
  <2> QED BY <2>6, <2>7
<1>13. passed = Passing!Folded(start, args)
  BY DEF PassValues, Through, Passing!Folded, start, args, n
<1>14. PassingGood(given, n, passed)
  <2> HIDE DEF given, passed
  <2> QED BY <1>1, <1>7, <1>11, <1>12, <1>13, Passing!Folds
<1> HIDE DEF passed
<1>15. /\ Valid(w, passed, IF found THEN "place" ELSE "nothing")
       /\ passed.frame_size = whole /\ passed.meta = c.meta
  <2>1. Pushed(n) <= n BY <1>1 DEF Pushed
  <2>2. (IF n <= Pushed(n) THEN n ELSE Pushed(n)) = Pushed(n) BY <1>1, <1>3, <2>1
  <2>3. /\ Valid(w, passed, IF found THEN "place" ELSE "nothing") /\ passed.meta = c.meta
        /\ passed.frame_size = start.frame_size + Pushed(n)
    BY <1>14, <2>2 DEF PassingGood
  <2> QED BY <1>3, <1>4, <1>5, <2>3
<1>16. c.frame_size <= whole BY <1>2, <1>3, <1>4
<1>17. Valid(w, passed, "nothing") BY <1>15, ForgetsAll
<1>18. found => Valid(w, passed, "place") BY <1>15
<1> QED BY <1>4, <1>15, <1>16, <1>17, <1>18 DEF Even, Grows, passed, found, n


-----------------------------------------------------------------------------
(* Statements.                                                             *)

(* Where a statement that writes ret begins.                               *)
Ready(w, c, ret) == Valid(w, c, "nothing") /\ Even(c) /\ PlaceAt(w, c.meta[ret], c.frame_size)

LEMMA MetasIs ==
  ASSUME NEW c, NEW values, IsSeq(values)
  PROVE  IsSeq(Metas(c, values)) /\ Len(Metas(c, values)) = Len(values)
<1>1. Len(values) \in Nat /\ DOMAIN values = 1..Len(values) BY SeqHas
<1>2. Metas(c, values) = [i \in 1..Len(values) |-> Metas(c, values)[i]] BY <1>1 DEF Metas
<1> QED BY <1>1, <1>2, SeqBuilt

LEMMA ConcatFirst ==
  ASSUME NEW x, NEW rest, IsSeq(rest)
  PROVE  IsSeq(<<x>> \o rest) /\ Len(<<x>> \o rest) \in Nat \ {0} /\ (<<x>> \o rest)[1] = x
<1> DEFINE one == <<x>>
<1>1. IsSeq(one) /\ Len(one) = 1 /\ one[1] = x /\ Len(rest) \in Nat /\ 1 \in 1..1 BY TupleIs, SeqHas
<1> HIDE DEF one
<1>2. 1 \in 1..Len(one) BY <1>1
<1> DEFINE n == Len(one)
<1>3. IsSeq(one \o rest) /\ Len(one \o rest) = 1 + Len(rest) /\ (one \o rest)[1] = x
  <2>1. n = 1 /\ 1 \in 1..n BY <1>1, <1>2
  <2>2. IsSeq(one \o rest) /\ Len(one \o rest) = n + Len(rest) /\ \A i \in 1..n : (one \o rest)[i] = one[i]
    BY <1>1, ConcatIs
  <2> HIDE DEF n
  <2> QED BY <1>1, <2>1, <2>2
<1>4. 1 + Len(rest) \in Nat \ {0} BY <1>1
<1> QED BY <1>3, <1>4 DEF one

LEMMA MetasFirst ==
  ASSUME NEW c, NEW ret, NEW rest, IsSeq(rest)
  PROVE  LET metas == Metas(c, <<ret>> \o rest)
         IN  IsSeq(metas) /\ Len(metas) \in Nat \ {0} /\ metas[1] = c.meta[ret]
<1> DEFINE values == <<ret>> \o rest
<1>1. IsSeq(values) /\ Len(values) \in Nat \ {0} /\ values[1] = ret BY ConcatFirst
<1> HIDE DEF values
<1>2. 1 \in DOMAIN values
  <2>1. 1 \in 1..Len(values) BY <1>1
  <2> QED BY <1>1, <2>1, SeqHas
<1>3. Metas(c, values)[1] = c.meta[ret] BY <1>1, <1>2 DEF Metas
<1> QED BY <1>1, <1>3, MetasIs DEF values

(* An operation is called that writes to rdi, or op_call, which does not.  *)
LEMMA CallOpTblStays ==
  ASSUME NEW w, NEW c, NEW k, NEW meta, NEW o, Valid(w, c, k), Even(c), k = "place" \/ o = "op_call"
  PROVE  Stays(w, c, CallOpTbl(c, meta, o), "nothing")
<1> DEFINE d == c.frame_size
           k1 == IF k = "place" THEN "place" ELSE "nothing"
           k2 == IF k = "place" THEN "place" ELSE "code"
           asking == <<"mov", Entry(o), Reg("rax")>>
           calling == <<"call", Reg("rax")>>
           first == EmitAll(c, OpTblInstrs(meta))
<1>1. DepthIn(w, d) /\ d % 2 = 0 BY ValidHas DEF Even
<1>2. /\ \A x : Steady(w, d, k, <<"mov", x, Reg("rax")>>, k1)
      /\ \A x : Steady(w, d, k1, <<"mov", x, Reg("rax")>>, k1)
  BY <1>1, SteadyLoads
<1>3. Steady(w, d, k1, asking, k2)
  <2>1. CASE k = "place" BY <1>2, <2>1
  <2>2. CASE k # "place"
    <3>1. asking = AsksCode BY <2>2 DEF AsksCode
    <3> QED BY <1>1, <2>2, <3>1, SteadyAsks
  <2> QED BY <2>1, <2>2
<1>4. Steady(w, d, k2, calling, "nothing") BY <1>1, SteadyCalls
<1>5. Stays(w, c, first, k1)
  <2>1. CASE meta.kind = "ptr"
    <3> DEFINE a == <<"mov", Mem(meta.offset, "rbp"), Reg("rax")>>
               b == <<"mov", Mem(1, "rax"), Reg("rax")>>
    <3>1. Steady(w, d, k, a, k1) /\ Steady(w, d, k1, b, k1) BY <1>2
    <3>2. first = EmitAll(c, <<a, b>>) BY <2>1 DEF OpTblInstrs
    <3> HIDE DEF a, b, first, k1
    <3> QED BY <3>1, <3>2, Emits2
  <2>2. CASE meta.kind # "ptr"
    <3> DEFINE a == <<"mov", Mem(meta.offset + 1, "rbp"), Reg("rax")>>
    <3>1. Steady(w, d, k, a, k1) BY <1>2
    <3>2. first = Emit(c, a) BY <2>2 DEF OpTblInstrs, Emit
    <3> HIDE DEF a, first, k1
    <3> QED BY <3>1, <3>2, EmitStays
  <2> QED BY <2>1, <2>2
<1>6. CallOpTbl(c, meta, o) = EmitAll(first, <<asking, calling>>)
  <2>1. IsSeq(OpTblInstrs(meta)) BY TupleIs DEF OpTblInstrs
  <2>2. IsSeq(<<asking, calling>>) BY TupleIs
  <2> HIDE DEF asking, calling
  <2>3. EmitAll(c, OpTblInstrs(meta) \o <<asking, calling>>) = EmitAll(first, <<asking, calling>>)
    BY <2>1, <2>2, ValidHas, EmitAllMore
  <2> QED BY <2>3 DEF CallOpTbl, asking, calling
<1> HIDE DEF first, asking, calling, k1, k2
<1>7. first.frame_size = d /\ first.meta = c.meta /\ Valid(w, first, k1) BY <1>5 DEF Stays
<1>8. Stays(w, first, EmitAll(first, <<asking, calling>>), "nothing") BY <1>3, <1>4, <1>7, Emits2
<1> QED BY <1>6, <1>7, <1>8 DEF Stays

LEMMA OpValuesIs ==
  ASSUME NEW c, NEW s, IsSeq(s.args)
  PROVE  /\ IsSeq(OpValues(c, s)) /\ Len(OpValues(c, s)) \in Nat \ {0}
         /\ OpValues(c, s)[1] = c.meta[s.ret]
<1> DEFINE ret == <<c.meta[s.ret]>>
           args == IF s.op \in {"greater", "greater_eq"} THEN Reverse(Metas(c, s.args)) ELSE Metas(c, s.args)
           end == IF s.op \in IndexOps THEN <<Null>> ELSE <<>>
           some == ret \o args
<1>1. IsSeq(args) BY MetasIs, ReverseIs
<1>2. IsSeq(end) BY TupleIs
<1>3. OpValues(c, s) = some \o end BY DEF OpValues
<1> HIDE DEF args, end
<1>4. IsSeq(some) /\ Len(some) \in Nat \ {0} /\ some[1] = c.meta[s.ret] BY <1>1, ConcatFirst
<1> HIDE DEF some
<1>5. 1 \in 1..Len(some) BY <1>4
<1>6. /\ IsSeq(some \o end) /\ Len(some \o end) = Len(some) + Len(end)
      /\ (some \o end)[1] = some[1] /\ Len(end) \in Nat
  BY <1>2, <1>4, <1>5, ConcatIs, SeqHas
<1>7. Len(some) + Len(end) \in Nat \ {0} BY <1>4, <1>6
<1> QED BY <1>3, <1>4, <1>6, <1>7

(* Values are passed, the first of them the place of the result.           *)
LEMMA PassesTo ==
  ASSUME NEW w, NEW c, NEW ret, NEW metas, Ready(w, c, ret), IsSeq(metas),
         Len(metas) \in Nat \ {0}, metas[1] = c.meta[ret]
  PROVE  Grows(w, c, PassValues(c, metas), "place") /\ Even(PassValues(c, metas))
BY PassValuesPasses DEF Ready

LEMMA Regrown ==
  ASSUME NEW w, NEW c, NEW ctx, NEW next, NEW k, NEW kk,
         Grows(w, c, ctx, k), Stays(w, ctx, next, kk)
  PROVE  Grows(w, c, next, kk)
BY DEF Grows, Stays

LEMMA StmtOpStays ==
  ASSUME NEW w, NEW c, NEW s, Ready(w, c, s.ret), IsSeq(s.args)
  PROVE  Stays(w, c, StmtOp(c, s), "nothing")
<1> DEFINE passed == PassValues(c, OpValues(c, s))
           called == CallOpTbl(passed, c.meta[s.args[1]], Operation(s.op))
<1>1. Grows(w, c, passed, "place") /\ Even(passed) BY OpValuesIs, PassesTo
<1>2. StmtOp(c, s) = FrameRestore(called, c.frame_size) BY DEF StmtOp
<1> HIDE DEF passed
<1>3. Stays(w, passed, called, "nothing") BY <1>1, CallOpTblStays DEF Grows
<1> HIDE DEF called
<1>4. Grows(w, c, called, "nothing") BY <1>1, <1>3, Regrown
<1> QED BY <1>2, <1>4, Restored DEF Ready

LEMMA StmtOpCallStays ==
  ASSUME NEW w, NEW c, NEW s, Ready(w, c, s.ret), IsSeq(s.args), s.args # <<>>
  PROVE  Stays(w, c, StmtOpCall(c, s), "nothing")
<1> DEFINE meta == c.meta[s.args[1]]
           asking == PassValues(c, <<meta>>)
           asked == CallOpTbl(asking, meta, "op_call")
           found == Pushq(asked, Reg("rax"))
           metas == Metas(c, <<s.ret>> \o Tail(s.args))
           passed == PassValues(found, metas)
           depth == passed.frame_size - found.frame_size
           called == CallBelow(passed, depth)
<1>1. Grows(w, c, asking, "nothing") /\ Even(asking) BY TupleIs, PassValuesPasses DEF Ready
<1>2. CodeOf(c, meta) = found BY DEF CodeOf
<1>3. IsSeq(metas) /\ Len(metas) \in Nat \ {0} /\ metas[1] = c.meta[s.ret]
  <2>1. IsSeq(Tail(s.args))
    <3>1. Tail(s.args) \in Seq(ToSet(s.args)) BY HeadTailProperties DEF IsSeq
    <3> QED BY <3>1, SeqIs
  <2> QED BY <2>1, MetasFirst
<1>4. Metas(c, <<s.ret>> \o Tail(s.args)) = metas OBVIOUS
<1>5. StmtOpCall(c, s) = FrameRestore(called, c.frame_size) BY <1>2 DEF StmtOpCall, PassAfter
<1> HIDE DEF asking, metas, meta
<1>6. Valid(w, asked, "nothing") /\ asked.frame_size = asking.frame_size /\ asked.meta = asking.meta
  BY <1>1, CallOpTblStays DEF Grows, Stays
<1> HIDE DEF asked
<1>7. Valid(w, found, "nothing") /\ found.frame_size = asked.frame_size + 1 /\ found.meta = asked.meta
  <2>1. Valid(w, asked, "nothing") BY <1>6
  <2> HIDE DEF passed, depth, called, found
  <2> DEFINE pushed == Pushq(asked, Reg("rax"))
  <2>2. Valid(w, pushed, "nothing") /\ pushed.frame_size = asked.frame_size + 1 /\ pushed.meta = asked.meta
    BY <2>1, PushqPushes
  <2> QED BY <2>2 DEF found
<1> HIDE DEF found
<1>8. c.frame_size \in Nat /\ asking.frame_size \in Nat /\ found.frame_size \in Nat
  BY <1>1, <1>7, ValidHas DEF Ready, Grows
<1>9. c.frame_size <= found.frame_size BY <1>1, <1>6, <1>7, <1>8 DEF Grows
<1>10. Grows(w, found, passed, "place") /\ Even(passed)
  <2>1. PlaceAt(w, metas[1], found.frame_size) BY <1>3, <1>8, <1>9, PlaceStays DEF Ready
  <2> QED BY <1>3, <1>7, <2>1, PassValuesPasses
<1> HIDE DEF passed, depth
<1>11. Stays(w, passed, called, "nothing")
  <2>1. Valid(w, passed, "place") BY <1>10 DEF Grows
  <2>2. DepthIn(w, passed.frame_size) /\ passed.frame_size % 2 = 0 BY <1>10, <2>1, ValidHas DEF Even
  <2>3. Steady(w, passed.frame_size, "place", <<"mov", Mem(depth, "rsp"), Reg("rax")>>, "place")
    BY <2>2, SteadyLoads
  <2>4. Steady(w, passed.frame_size, "place", <<"call", Reg("rax")>>, "nothing")
    BY <2>2, SteadyCalls
  <2> QED BY <2>1, <2>3, <2>4, Emits2 DEF CallBelow
<1> HIDE DEF called
<1>12. Grows(w, found, called, "nothing") BY <1>10, <1>11, Regrown
<1>13. Grows(w, c, called, "nothing")
  <2>1. called.frame_size \in Nat BY <1>12, ValidHas DEF Grows
  <2>2. found.frame_size <= called.frame_size BY <1>12 DEF Grows
  <2>3. c.frame_size <= called.frame_size BY <1>8, <1>9, <2>1, <2>2
  <2>4. found.meta = c.meta BY <1>1, <1>6, <1>7 DEF Grows
  <2> QED BY <1>12, <2>3, <2>4 DEF Grows
<1> QED BY <1>5, <1>13, Restored DEF Ready

(* A call of a subroutine or of the runtime with values, the first of them *)
(* the place of the result.                                                *)
LEMMA CalledWith ==
  ASSUME NEW w, NEW c, NEW ret, NEW metas, NEW label, Ready(w, c, ret), IsSeq(metas),
         Len(metas) \in Nat \ {0}, metas[1] = c.meta[ret]
  PROVE  Stays(w, c, FrameRestore(Emit(PassValues(c, metas), <<"call", Sym(label)>>), c.frame_size),
               "nothing")
<1> DEFINE passed == PassValues(c, metas)
           called == Emit(passed, <<"call", Sym(label)>>)
<1>1. Grows(w, c, passed, "place") /\ Even(passed) BY PassesTo
<1> HIDE DEF passed
<1>2. Stays(w, passed, called, "nothing")
  <2>1. Valid(w, passed, "place") BY <1>1 DEF Grows
  <2>2. DepthIn(w, passed.frame_size) /\ passed.frame_size % 2 = 0 BY <1>1, <2>1, ValidHas DEF Even
  <2>3. Steady(w, passed.frame_size, "place", <<"call", Sym(label)>>, "nothing")
    BY <2>2, SteadyCalls
  <2> QED BY <2>1, <2>3, EmitStays
<1> HIDE DEF called
<1>3. Grows(w, c, called, "nothing") BY <1>1, <1>2, Regrown
<1> QED BY <1>3, Restored DEF Ready, called, passed

LEMMA StmtCallNativeStays ==
  ASSUME NEW w, NEW c, NEW s, Ready(w, c, s.ret), IsSeq(s.args)
  PROVE  Stays(w, c, StmtCallNative(c, s), "nothing")
<1> DEFINE metas == Metas(c, <<s.ret>> \o s.args)
<1>1. IsSeq(metas) /\ Len(metas) \in Nat \ {0} /\ metas[1] = c.meta[s.ret] BY MetasFirst
<1>2. StmtCallNative(c, s)
        = FrameRestore(Emit(PassValues(c, metas), <<"call", Sym(<<"sub", s.sub>>)>>), c.frame_size)
  BY DEF StmtCallNative, SubSym
<1> HIDE DEF metas
<1> QED BY <1>1, <1>2, CalledWith

LEMMA MakeArrayStays ==
  ASSUME NEW w, NEW c, NEW s, Ready(w, c, s.ret), IsSeq(s.args)
  PROVE  Stays(w, c, MakeArray(c, s), "nothing")
<1>1. CASE Len(s.args) # s.depth BY <1>1, CgErrorStays DEF MakeArray, Ready
<1>2. CASE Len(s.args) = s.depth
  <2> DEFINE values == Metas(c, <<s.ret>> \o s.args)  metas == Append(values, Null)
  <2>1. IsSeq(values) /\ Len(values) \in Nat \ {0} /\ values[1] = c.meta[s.ret] BY MetasFirst
  <2>2. MakeArray(c, s)
          = FrameRestore(Emit(PassValues(c, metas), <<"call", Sym(<<"runtime", <<"make_array">> >>)>>),
                         c.frame_size)
    BY <1>2 DEF MakeArray, Runtime
  <2> HIDE DEF values
  <2>3. IsSeq(metas) /\ Len(metas) \in Nat \ {0} /\ metas[1] = c.meta[s.ret]
    <3>1. values \in Seq(ToSet(values) \cup {Null})
      <4>1. values \in [1..Len(values) -> ToSet(values) \cup {Null}] BY <2>1, SeqHas DEF ToSet
      <4> QED BY <2>1, <4>1, SeqHas
    <3>2. /\ metas \in Seq(ToSet(values) \cup {Null}) /\ Len(metas) = Len(values) + 1
          /\ metas[1] = values[1]
      BY <2>1, <3>1
    <3> HIDE DEF metas
    <3>3. IsSeq(metas) BY <3>2, SeqIs
    <3>4. Len(metas) \in Nat \ {0} BY <2>1, <3>2
    <3> QED BY <2>1, <3>2, <3>3, <3>4
  <2> HIDE DEF metas
  <2> QED BY <2>2, <2>3, CalledWith
<1> QED BY <1>1, <1>2

LEMMA AssignValueStays ==
  ASSUME NEW w, NEW c, NEW s, Ready(w, c, s.ret)
  PROVE  Stays(w, c, AssignValue(c, s), "nothing")
<1> DEFINE metas == Metas(c, <<s.ret, s.from>>)
           passed == PassValues(c, metas)
           called == CallOpTbl(passed, c.meta[s.ret], "op_assign")
<1>1. IsSeq(metas) /\ Len(metas) \in Nat \ {0} /\ metas[1] = c.meta[s.ret]
  <2>1. <<s.ret>> \o <<s.from>> = <<s.ret, s.from>> BY ConcatTuples
  <2>2. IsSeq(<<s.from>>) BY TupleIs
  <2> DEFINE same == Metas(c, <<s.ret>> \o <<s.from>>)
  <2>3. IsSeq(same) /\ Len(same) \in Nat \ {0} /\ same[1] = c.meta[s.ret] BY <2>2, MetasFirst
  <2> QED BY <2>1, <2>3
<1>2. AssignValue(c, s) = FrameRestore(called, c.frame_size) BY DEF AssignValue
<1> HIDE DEF metas
<1>3. Grows(w, c, passed, "place") /\ Even(passed) BY <1>1, PassesTo
<1> HIDE DEF passed
<1>4. Stays(w, passed, called, "nothing") BY <1>3, CallOpTblStays DEF Grows
<1> HIDE DEF called
<1>5. Grows(w, c, called, "nothing") BY <1>3, <1>4, Regrown
<1> QED BY <1>2, <1>5, Restored DEF Ready

(* Where rdi is given a place, two more registers something, and then an   *)
(* operation is called.                                                    *)
LEMMA ReadyHas ==
  ASSUME NEW w, NEW c, NEW ret, Ready(w, c, ret)
  PROVE  /\ Valid(w, c, "nothing") /\ Even(c) /\ DepthIn(w, c.frame_size) /\ c.frame_size % 2 = 0
         /\ Steady(w, c.frame_size, "nothing", ValueReg(c.meta[ret], "rdi"), "place")
         /\ \A meta : Steady(w, c.frame_size, "place", ValueReg(meta, "rsi"), "place")
         /\ \A op \in {"mov", "lea"}, r \in {"rsi", "rdx"} : \A x :
              Steady(w, c.frame_size, "place", <<op, x, Reg(r)>>, "place")
         /\ \A label : Steady(w, c.frame_size, "place", <<"call", Sym(label)>>, "nothing")
<1>1. Valid(w, c, "nothing") /\ Even(c) /\ PlaceAt(w, c.meta[ret], c.frame_size) BY DEF Ready
<1>2. DepthIn(w, c.frame_size) /\ c.frame_size % 2 = 0 BY <1>1, ValidHas DEF Even
<1>3. Steady(w, c.frame_size, "nothing", ValueReg(c.meta[ret], "rdi"), "place")
  BY <1>1, <1>2, ValueRegSteady
<1>4. ASSUME NEW meta PROVE Steady(w, c.frame_size, "place", ValueReg(meta, "rsi"), "place")
  BY <1>2, ValueRegSteady
<1>5. ASSUME NEW op \in {"mov", "lea"}, NEW r \in {"rsi", "rdx"}, NEW x
      PROVE  Steady(w, c.frame_size, "place", <<op, x, Reg(r)>>, "place")
  BY <1>2, SteadyLoads
<1>6. ASSUME NEW label PROVE Steady(w, c.frame_size, "place", <<"call", Sym(label)>>, "nothing")
  BY <1>2, SteadyCalls
<1> QED BY <1>1, <1>2, <1>3, <1>4, <1>5, <1>6

LEMMA OperationStays ==
  ASSUME NEW w, NEW c, NEW meta, NEW o, NEW ctx, Stays(w, c, ctx, "place"), Even(c)
  PROVE  Stays(w, c, CallOpTbl(ctx, meta, o), "nothing")
<1>1. Valid(w, ctx, "place") /\ Even(ctx) BY DEF Stays, Even
<1>2. Stays(w, ctx, CallOpTbl(ctx, meta, o), "nothing") BY <1>1, CallOpTblStays
<1> QED BY <1>2 DEF Stays

LEMMA StmtMemberStays ==
  ASSUME NEW w, NEW c, NEW s, Ready(w, c, s.ret)
  PROVE  Stays(w, c, StmtMember(c, s), "nothing")
<1> DEFINE a == ValueReg(c.meta[s.ret], "rdi")
           b == ValueReg(c.meta[s.obj], "rsi")
           x == <<"lea", Sym(<<"name", s.member>>), Reg("rdx")>>
           ctx == EmitAll(c, <<a, b, x>>)
<1>1. /\ Steady(w, c.frame_size, "nothing", a, "place") /\ Steady(w, c.frame_size, "place", b, "place")
      /\ Steady(w, c.frame_size, "place", x, "place")
  BY ReadyHas
<1>2. StmtMember(c, s) = CallOpTbl(ctx, c.meta[s.obj], s.op) BY DEF StmtMember
<1> HIDE DEF a, b, x
<1>3. Stays(w, c, ctx, "place") BY <1>1, Emits3 DEF Ready
<1> HIDE DEF ctx
<1> QED BY <1>2, <1>3, OperationStays DEF Ready

LEMMA StmtCastStays ==
  ASSUME NEW w, NEW c, NEW s, Ready(w, c, s.ret)
  PROVE  Stays(w, c, StmtCast(c, s), "nothing")
<1>1. ASSUME NEW value, NEW type PROVE Stays(w, c, Cast(c, c.meta[s.ret], value, type), "nothing")
  <2> DEFINE a == ValueReg(c.meta[s.ret], "rdi")
             b == ValueReg(value, "rsi")
             x == <<"mov", Imm(type), Reg("rdx")>>
             ctx == EmitAll(c, <<a, b, x>>)
  <2>1. /\ Steady(w, c.frame_size, "nothing", a, "place") /\ Steady(w, c.frame_size, "place", b, "place")
        /\ Steady(w, c.frame_size, "place", x, "place")
    BY ReadyHas
  <2>2. Cast(c, c.meta[s.ret], value, type) = CallOpTbl(ctx, value, "op_cast") BY DEF Cast
  <2> HIDE DEF a, b, x
  <2>3. Stays(w, c, ctx, "place") BY <2>1, Emits3 DEF Ready
  <2> HIDE DEF ctx
  <2> QED BY <2>2, <2>3, OperationStays DEF Ready
<1> QED BY <1>1, CgErrorStays DEF StmtCast, Ready

LEMMA StmtTypeStays ==
  ASSUME NEW w, NEW c, NEW s, Ready(w, c, s.ret)
  PROVE  Stays(w, c, StmtType(c, s), "nothing")
<1>1. CASE Len(s.args) # 1 BY <1>1, CgErrorStays DEF StmtType, Ready
<1>2. CASE Len(s.args) = 1
  <2> DEFINE a == ValueReg(c.meta[s.ret], "rdi")
             b == ValueReg(c.meta[s.args[1]], "rsi")
             ctx == EmitAll(c, <<a, b>>)
  <2>1. Steady(w, c.frame_size, "nothing", a, "place") /\ Steady(w, c.frame_size, "place", b, "place")
    BY ReadyHas
  <2>2. StmtType(c, s) = CallOpTbl(ctx, c.meta[s.args[1]], "op_type") BY <1>2 DEF StmtType
  <2> HIDE DEF a, b
  <2>3. Stays(w, c, ctx, "place") BY <2>1, Emits2 DEF Ready
  <2> HIDE DEF ctx
  <2> QED BY <2>2, <2>3, OperationStays DEF Ready
<1> QED BY <1>1, <1>2

LEMMA MakeObjectStays ==
  ASSUME NEW w, NEW c, NEW s, Ready(w, c, s.ret)
  PROVE  Stays(w, c, MakeObject(c, s), "nothing")
<1> DEFINE a == ValueReg(c.meta[s.ret], "rdi")  b == <<"call", Sym(<<"init", s.class>>)>>
<1>1. Steady(w, c.frame_size, "nothing", a, "place") /\ Steady(w, c.frame_size, "place", b, "nothing")
  BY ReadyHas
<1>2. MakeObject(c, s) = EmitAll(c, <<a, b>>) BY DEF MakeObject
<1> HIDE DEF a, b
<1> QED BY <1>1, <1>2, Emits2 DEF Ready

(* A value is made by one call of the runtime.                             *)
LEMMA AssignLitStays ==
  ASSUME NEW w, NEW c, NEW s, Ready(w, c, s.ret)
  PROVE  Stays(w, c, AssignLit(c, s), "nothing")
<1> DEFINE a == ValueReg(c.meta[s.ret], "rdi")
           b == IF s.type = "string" THEN <<"lea", Sym(<<"lit", s.lit>>), Reg("rsi")>>
                                     ELSE <<"mov", Imm(s.lit), Reg("rsi")>>
           x == <<"call", Sym(<<"runtime", <<"make", s.type>> >>)>>
<1>1. /\ Steady(w, c.frame_size, "nothing", a, "place") /\ Steady(w, c.frame_size, "place", b, "place")
      /\ Steady(w, c.frame_size, "place", x, "nothing")
  BY ReadyHas
<1>2. AssignLit(c, s) = EmitAll(c, <<a, b, x>>) BY DEF AssignLit, Runtime
<1> HIDE DEF a, b, x
<1> QED BY <1>1, <1>2, Emits3 DEF Ready

LEMMA AssignSubStays ==
  ASSUME NEW w, NEW c, NEW s, Ready(w, c, s.ret)
  PROVE  Stays(w, c, AssignSub(c, s), "nothing")
<1> DEFINE a == ValueReg(c.meta[s.ret], "rdi")
           b == <<"lea", SubSym(s.sub), Reg("rsi")>>
           x == <<"call", Sym(<<"runtime", <<"make", "callable">> >>)>>
<1>1. /\ Steady(w, c.frame_size, "nothing", a, "place") /\ Steady(w, c.frame_size, "place", b, "place")
      /\ Steady(w, c.frame_size, "place", x, "nothing")
  BY ReadyHas
<1>2. AssignSub(c, s) = IF s.sub \in DOMAIN c.externs THEN CgError(c, "extern assignment")
                                                      ELSE EmitAll(c, <<a, b, x>>)
  BY DEF AssignSub, Runtime
<1> HIDE DEF a, b, x
<1>3. Stays(w, c, EmitAll(c, <<a, b, x>>), "nothing") BY <1>1, Emits3 DEF Ready
<1> QED BY <1>2, <1>3, CgErrorStays DEF Ready

StaysGood(given, i, ctx) == Stays(given.w, given.c, ctx, "nothing")
Printing == INSTANCE Folding WITH op <- PrintValue, Good <- StaysGood

LEMMA StmtPrintStays ==
  ASSUME NEW w, NEW c, NEW s, Valid(w, c, "nothing"), Even(c), IsSeq(s.args)
  PROVE  Stays(w, c, StmtPrint(c, s), "nothing")
<1> DEFINE metas == Metas(c, s.args)  given == [w |-> w, c |-> c]
<1>1. Len(metas) \in Nat BY MetasIs, SeqHas
<1>2. StaysGood(given, 0, c) BY DEF StaysGood, Stays
<1>3. ASSUME NEW i \in 1..Len(metas), NEW ctx, StaysGood(given, i - 1, ctx)
      PROVE  StaysGood(given, i, PrintValue(ctx, metas[i]))
  <2>1. Stays(w, c, ctx, "nothing") BY <1>3 DEF StaysGood
  <2>2. Valid(w, ctx, "nothing") /\ DepthIn(w, ctx.frame_size) /\ ctx.frame_size % 2 = 0
    BY <2>1, ValidHas DEF Stays, Even
  <2> DEFINE meta == metas[i]
             a == ValueReg(meta, "rdi")  b == <<"call", Runtime(<<"print">>)>>
  <2> HIDE DEF metas, meta
  <2>3. Steady(w, ctx.frame_size, "nothing", a, "nothing") BY <2>2, ValueRegSteady
  <2>4. Steady(w, ctx.frame_size, "nothing", b, "nothing")
    <3>1. <<"print">>[1] \in Quiet BY DEF Quiet
    <3> QED BY <2>2, <3>1, SteadyCalls
  <2>5. PrintValue(ctx, meta) = EmitAll(ctx, <<a, b>>) BY DEF PrintValue
  <2> HIDE DEF a, b
  <2>6. Stays(w, ctx, PrintValue(ctx, meta), "nothing") BY <2>2, <2>3, <2>4, <2>5, Emits2
  <2> QED BY <2>1, <2>6 DEF StaysGood, Stays, meta
<1>4. StmtPrint(c, s) = Printing!Folded(c, metas) BY DEF StmtPrint, Through, Printing!Folded
<1> HIDE DEF metas, given
<1>5. StaysGood(given, Len(metas), StmtPrint(c, s)) BY <1>1, <1>2, <1>3, <1>4, Printing!Folds
<1> QED BY <1>5 DEF StaysGood, given

-----------------------------------------------------------------------------
(* Calls of external functions.                                            *)

Unwrapping == INSTANCE Folding WITH op <- UnwrapArg, Good <- StaysGood

(* Unwrapped arguments are put on the stack, above the links.              *)
LEMMA UnwrapArgsStays ==
  ASSUME NEW w, NEW c, NEW metas, NEW types, Valid(w, c, "nothing"), Even(c), IsSeq(metas),
         Len(metas) + Links(w.in) <= c.frame_size
  PROVE  Stays(w, c, UnwrapArgs(c, metas, types), "nothing")
<1> DEFINE args == [i \in DOMAIN metas |-> [i |-> i, meta |-> metas[i], type |-> types[i]]]
           given == [w |-> w, c |-> c]
<1>1. Len(args) = Len(metas) /\ Len(metas) \in Nat /\ \A i \in 1..Len(metas) : args[i].i = i
  <2>1. Len(metas) \in Nat /\ DOMAIN metas = 1..Len(metas) BY SeqHas
  <2>2. args = [i \in 1..Len(metas) |-> args[i]] /\ \A i \in 1..Len(metas) : args[i].i = i BY <2>1
  <2> HIDE DEF args
  <2> QED BY <2>1, <2>2, SeqBuilt
<1>2. StaysGood(given, 0, c) BY DEF StaysGood, Stays
<1>3. ASSUME NEW i \in 1..Len(args), NEW ctx, StaysGood(given, i - 1, ctx)
      PROVE  StaysGood(given, i, UnwrapArg(ctx, args[i]))
  <2>1. Stays(w, c, ctx, "nothing") BY <1>3 DEF StaysGood
  <2>2. /\ Valid(w, ctx, "nothing") /\ DepthIn(w, ctx.frame_size) /\ ctx.frame_size % 2 = 0
        /\ ctx.frame_size = c.frame_size
    BY <2>1, ValidHas DEF Stays, Even
  <2> DEFINE arg == args[i]
             a == ValueReg(arg.meta, "rdi")
             b == <<"call", Runtime(<<"unwrap", arg.type>>)>>
             x == <<"mov", Reg("rax"), Mem(arg.i - 1, "rsp")>>
  <2>3. arg.i = i /\ i - 1 \in Nat /\ (i - 1) + 1 + Links(w.in) <= ctx.frame_size
    <3>1. arg.i = i BY <1>1
    <3>2. Links(w.in) = 2 \/ Links(w.in) = 3 BY LinksIs
    <3>3. i \in 1..Len(metas) BY <1>1
    <3>4. c.frame_size \in Nat BY ValidHas
    <3> QED BY <1>1, <2>2, <3>1, <3>2, <3>3, <3>4
  <2> HIDE DEF args, arg
  <2>4. Steady(w, ctx.frame_size, "nothing", a, "nothing") BY <2>2, ValueRegSteady
  <2>5. Steady(w, ctx.frame_size, "nothing", b, "nothing")
    <3>1. <<"unwrap", arg.type>>[1] \in Quiet BY DEF Quiet
    <3> QED BY <2>2, <3>1, SteadyCalls
  <2>6. Steady(w, ctx.frame_size, "nothing", x, "nothing") BY <2>2, <2>3, SteadyStores
  <2>7. UnwrapArg(ctx, arg) = EmitAll(ctx, <<a, b, x>>) BY DEF UnwrapArg
  <2> HIDE DEF a, b, x
  <2>8. Stays(w, ctx, UnwrapArg(ctx, arg), "nothing") BY <2>2, <2>4, <2>5, <2>6, <2>7, Emits3
  <2> QED BY <2>1, <2>8 DEF StaysGood, Stays, arg
<1>4. UnwrapArgs(c, metas, types) = Unwrapping!Folded(c, args)
  BY DEF UnwrapArgs, Through, Unwrapping!Folded
<1>5. Len(args) \in Nat BY <1>1
<1> HIDE DEF args, given
<1>6. StaysGood(given, Len(args), UnwrapArgs(c, metas, types))
  BY <1>2, <1>3, <1>4, <1>5, Unwrapping!Folds
<1> QED BY <1>6 DEF StaysGood, given

PopGood(given, i, ctx) ==
  Valid(given.w, ctx, "nothing") /\ ctx.frame_size = given.c.frame_size - i /\ ctx.meta = given.c.meta
Popping == INSTANCE Folding WITH op <- PopArg, Good <- PopGood

(* Six arguments at most are popped into registers.                        *)
InRegs(n) == IF n < 6 THEN n ELSE 6
LEMMA PopArgsPops ==
  ASSUME NEW w, NEW c, NEW n \in Nat, Valid(w, c, "nothing"), n + Links(w.in) <= c.frame_size
  PROVE  /\ Valid(w, PopArgs(c, n), "nothing") /\ PopArgs(c, n).frame_size = c.frame_size - InRegs(n)
         /\ PopArgs(c, n).meta = c.meta
<1> DEFINE m == InRegs(n)
           regs == SubSeq(ArgRegs, 1, m)
           given == [w |-> w, c |-> c]
<1>1. m \in 0..6 /\ m <= n BY DEF InRegs
<1>2. c.frame_size \in Nat BY ValidHas
<1>3. Len(regs) = m /\ \A i \in 1..m : regs[i] # "rbp"
  <2> DEFINE S == {"rdi", "rsi", "rdx", "rcx", "r8", "r9"}
  <2>1. ArgRegs \in Seq(S) /\ Len(ArgRegs) = 6 BY DEF ArgRegs
  <2>2. "rbp" \notin S OBVIOUS
  <2> HIDE DEF S, m
  <2>3. \A i \in 1..6 : ArgRegs[i] \in S
    <3>1. \A t \in Seq(S) : \A i \in 1..Len(t) : t[i] \in S OBVIOUS
    <3> QED BY <2>1, <3>1
  <2>4. Len(SubSeq(ArgRegs, 1, m)) = m /\ \A i \in 1..m : SubSeq(ArgRegs, 1, m)[i] = ArgRegs[1 + i - 1]
    BY <1>1, <2>1, SubSeqProperties
  <2>5. \A i \in 1..m : i \in 1..6 /\ 1 + i - 1 = i BY <1>1
  <2> QED BY <2>2, <2>3, <2>4, <2>5
<1>4. PopGood(given, 0, c) BY <1>2 DEF PopGood
<1>5. ASSUME NEW i \in 1..m, NEW ctx, PopGood(given, i - 1, ctx)
      PROVE  PopGood(given, i, PopArg(ctx, regs[i]))
  <2> DEFINE reg == regs[i]
  <2>1. reg # "rbp" BY <1>3
  <2> HIDE DEF regs, reg, m
  <2>2. Valid(w, ctx, "nothing") /\ ctx.frame_size = c.frame_size - (i - 1) /\ ctx.meta = c.meta
    BY <1>5 DEF PopGood
  <2>3. Links(w.in) < ctx.frame_size /\ i \in Int
    <3>1. Links(w.in) = 2 \/ Links(w.in) = 3 BY LinksIs
    <3>2. i <= n /\ i \in Int BY <1>1
    <3> QED BY <1>2, <2>2, <3>1, <3>2
  <2>4. /\ Valid(w, PopArg(ctx, reg), "nothing") /\ PopArg(ctx, reg).frame_size = ctx.frame_size - 1
        /\ PopArg(ctx, reg).meta = ctx.meta
    <3>1. Valid(w, ctx, "nothing") /\ Links(w.in) < ctx.frame_size BY <2>2, <2>3
    <3> HIDE DEF given
    <3> QED BY <2>1, <3>1, PopArgPops
  <2>5. PopArg(ctx, reg).frame_size = c.frame_size - i BY <1>2, <2>2, <2>3, <2>4
  <2> QED BY <2>2, <2>4, <2>5 DEF PopGood, reg
<1>6. PopArgs(c, n) = Popping!Folded(c, regs) BY DEF PopArgs, Through, Popping!Folded, InRegs
<1> HIDE DEF regs, given, m
<1>7. PopGood(given, Len(regs), PopArgs(c, n)) BY <1>1, <1>3, <1>4, <1>5, <1>6, Popping!Folds
<1> QED BY <1>3, <1>7 DEF PopGood, given, m

(* A text that has one instruction more.                                   *)
Longer(text, instr, longer) ==
  /\ IsSeq(longer) /\ longer = text \o <<instr>>
  /\ Len(text) \in Nat /\ Len(longer) = Len(text) + 1 /\ DOMAIN longer = 1..(Len(text) + 1)
  /\ longer[Len(text) + 1] = instr
  /\ \A i \in 1..Len(text) : longer[i] = text[i]

LEMMA EmitText ==
  ASSUME NEW w, NEW c, NEW k, NEW instr, Valid(w, c, k)
  PROVE  Longer(c.text, instr, Emit(c, instr).text)
<1> DEFINE ctx == Emit(c, instr)  N == Len(c.text)  more == <<instr>>
<1>1. IsCtx(c) /\ IsSeq(c.text) /\ N \in Nat BY ValidHas, SeqHas
<1>2. ctx.text = c.text \o more BY <1>1 DEF IsCtx, CtxFields, EmitAll, Emit
<1>3. IsSeq(more) /\ Len(more) = 1 /\ more[1] = instr /\ 1 \in 1..1 BY TupleIs
<1> DEFINE text == c.text
<1>4. IsSeq(text) /\ Len(text) = N BY <1>1
<1> HIDE DEF more, ctx, text, N
<1>5. /\ IsSeq(text \o more) /\ Len(text \o more) = N + Len(more)
      /\ \A i \in 1..N : (text \o more)[i] = text[i]
      /\ \A i \in 1..Len(more) : (text \o more)[N + i] = more[i]
  <2>1. /\ IsSeq(text \o more) /\ Len(text \o more) = Len(text) + Len(more)
        /\ \A i \in 1..Len(text) : (text \o more)[i] = text[i]
        /\ \A i \in 1..Len(more) : (text \o more)[Len(text) + i] = more[i]
    <3> DEFINE a == text  b == more
    <3>1. IsSeq(a) /\ IsSeq(b) BY <1>3, <1>4
    <3> HIDE DEF a, b
    <3>2. /\ IsSeq(a \o b) /\ Len(a \o b) = Len(a) + Len(b)
          /\ \A i \in 1..Len(a) : (a \o b)[i] = a[i]
          /\ \A i \in 1..Len(b) : (a \o b)[Len(a) + i] = b[i]
      BY <3>1, ConcatIs
    <3> QED BY <3>2 DEF a, b
  <2> QED BY <1>4, <2>1
<1>6. Len(text \o more) = N + 1 /\ (text \o more)[N + 1] = instr BY <1>3, <1>5
<1>7. DOMAIN (text \o more) = 1..(N + 1) BY <1>5, <1>6, SeqHas
<1> QED BY <1>1, <1>2, <1>5, <1>6, <1>7 DEF more, ctx, text, N, Longer

(* A call of an external function, or one that makes its result, may be at *)
(* an odd depth.                                                           *)
LEMMA CallStays ==
  ASSUME NEW w, NEW c, NEW k, NEW to, Valid(w, c, k), MayCall(to, StateIn(w, c.frame_size, k)),
         Even(c) \/ OddForeignAt(w.p, Emit(c, <<"call", to>>).text, Len(c.text) + 1)
  PROVE  Stays(w, c, Emit(c, <<"call", to>>), "nothing")
<1> DEFINE d == c.frame_size  instr == <<"call", to>>  ctx == Emit(c, instr)
           s == StateIn(w, d, k)  t == StateIn(w, d, "nothing")
           odd == OddForeignAt(w.p, c.text \o <<instr>>, Len(c.text) + 1)
<1>1. instr[1] = "call" /\ instr[2] = to OBVIOUS
<1>2. DepthIn(w, d) BY ValidHas
<1>3. Links(s.in) <= s.depth /\ s.in = w.in /\ s.depth = d /\ s.own = w.own BY <1>2, StateInIs DEF DepthIn
<1>4. d % 2 = 0 \/ odd
  <2>1. ctx.text = c.text \o <<instr>>
    <3> HIDE DEF instr
    <3>1. Longer(c.text, instr, Emit(c, instr).text) BY EmitText
    <3> QED BY <3>1 DEF Longer
  <2> QED BY <2>1 DEF Even
<1>5. /\ IsCtx(ctx) /\ ctx.externs = c.externs /\ ctx.frame_size = c.frame_size
      /\ ctx.text = c.text \o <<instr>> /\ ctx.meta = c.meta
  <2>1. IsCtx(c) BY ValidHas
  <2> QED BY <2>1 DEF IsCtx, CtxFields, EmitAll, Emit
<1> HIDE DEF odd
<1>6. CallFits(instr, s, odd) BY <1>1, <1>3, <1>4 DEF CallFits
<1>7. Sensible(s) BY <1>2, DepthHas
<1>8. InstrFits(w.p, instr, s, odd) BY <1>1, <1>6, <1>7 DEF InstrFits
<1>9. Behind(instr, d) = d /\ OwnBehind(instr, w.own) = w.own
  <2>1. instr # GivesBack /\ instr # SetsBase /\ instr # RestoresBase
    BY DEF GivesBack, SetsBase, RestoresBase
  <2>2. w.own \in BOOLEAN BY <1>2 DEF DepthIn, IsWhere
  <2> HIDE DEF instr
  <2> QED BY <1>1, <2>1, <2>2 DEF Behind, OwnBehind
<1>10. Fits(w.p, instr, s, t, odd)
  <2>1. KnowsBehind(instr, s, "nothing") BY DEF KnowsBehind
  <2>2. t.depth = d /\ t.in = w.in /\ t.own = w.own /\ t.knows = "nothing" BY StateInIs
  <2> HIDE DEF s, t, instr
  <2>3. Follows(instr, s, t) BY <1>3, <1>9, <2>1, <2>2 DEF Follows
  <2>4. s.in # Nobody BY <1>2, <1>3, DepthHas
  <2> QED BY <1>8, <2>3, <2>4 DEF Fits
<1>11. LeadsTo(w.p, c.text, s) BY ValidHas
<1>12. LeadsTo(w.p, c.text \o <<instr>>, t)
  <2> HIDE DEF s, t, instr
  <2> QED BY <1>10, <1>11, Appended DEF odd
<1>13. c.externs = w.p.externs BY ValidHas
<1>14. t.depth = d BY StateInIs
<1> HIDE DEF ctx, instr
<1>15. Valid(w, ctx, "nothing") BY <1>2, <1>5, <1>12, <1>13, <1>14 DEF Valid, Reached
<1> QED BY <1>5, <1>15 DEF Stays, ctx, instr

(* The call of an external function and the one that makes its result: at  *)
(* an odd depth only if it has one, three or five parameters.              *)
LEMMA ForeignStays ==
  ASSUME NEW w, NEW c, NEW g, NEW meta, NEW type, Valid(w, c, "nothing"), PlaceAt(w, meta, c.frame_size),
         Even(c) \/ Len(w.p.externs[g].params) \in {1, 3, 5}
  PROVE  Stays(w, c, MakeResult(Emit(c, <<"call", Sym(<<"extern", g>>)>>), meta, type), "nothing")
<1> DEFINE d == c.frame_size
           N == Len(c.text)
           foreign == <<"call", Sym(<<"extern", g>>)>>
           making == <<"call", Runtime(<<"make", type>>)>>
           to == ValueReg(meta, "rdi")
           handed == <<"mov", Reg("rax"), Reg("rsi")>>
           one == Emit(c, foreign)
           two == Emit(one, to)
           three == IF type = "void" THEN two ELSE Emit(two, handed)
           made == Emit(three, making)
<1>1. N \in Nat /\ DepthIn(w, d) BY ValidHas, SeqHas
<1>2. Even(c) \/ OddForeignCall(w.p, foreign) BY DEF OddForeignCall, Sym
<1>3. Stays(w, c, one, "nothing") /\ one.text[N + 1] = foreign /\ Len(one.text) = N + 1
  <2>1. one.text[N + 1] = foreign /\ Len(one.text) = N + 1
    <3> HIDE DEF foreign
    <3>1. Longer(c.text, foreign, Emit(c, foreign).text) BY EmitText
    <3> QED BY <3>1 DEF Longer
  <2>2. MayCall(Sym(<<"extern", g>>), StateIn(w, d, "nothing")) BY DEF MayCall, Sym
  <2>3. OddForeignCall(w.p, foreign) => OddForeignAt(w.p, one.text, N + 1)
    <3> HIDE DEF one, N, foreign
    <3> QED BY <2>1 DEF OddForeignAt
  <2>4. Stays(w, c, one, "nothing") BY <1>2, <2>2, <2>3, CallStays
  <2> QED BY <2>1, <2>4
<1> HIDE DEF one, N, foreign
<1>4. Stays(w, one, two, "place")
  <2>1. Valid(w, one, "nothing") /\ one.frame_size = d BY <1>3 DEF Stays
  <2>2. Steady(w, d, "nothing", to, "place") BY <1>1, ValueRegSteady
  <2> QED BY <2>1, <2>2, EmitStays
<1>5. two.text[N + 1] = foreign /\ Len(two.text) = N + 2
  <2>1. Valid(w, one, "nothing") BY <1>3 DEF Stays
  <2>2. Len(two.text) = Len(one.text) + 1 /\ \A i \in 1..Len(one.text) : two.text[i] = one.text[i]
    <3> HIDE DEF to
    <3>1. Longer(one.text, to, Emit(one, to).text) BY <2>1, EmitText
    <3> QED BY <3>1 DEF Longer
  <2>3. N + 1 \in 1..(N + 1) BY <1>1
  <2> QED BY <1>1, <1>3, <2>2, <2>3
<1> HIDE DEF two
<1>6. Stays(w, two, three, "place") /\ three.text[N + 1] = foreign /\ Len(three.text) \in {N + 2, N + 3}
  <2>1. Valid(w, two, "place") BY <1>4 DEF Stays
  <2>2. CASE type = "void" BY <1>5, <2>1, <2>2 DEF Stays
  <2>3. CASE type # "void"
    <3>1. three = Emit(two, handed) BY <2>3
    <3>2. Steady(w, two.frame_size, "place", handed, "place")
      <4>1. DepthIn(w, two.frame_size) BY <2>1, ValidHas
      <4> QED BY <4>1, SteadyLoads
    <3>3. Stays(w, two, three, "place") BY <2>1, <3>1, <3>2, EmitStays
    <3>4. Len(three.text) = Len(two.text) + 1 /\ \A i \in 1..Len(two.text) : three.text[i] = two.text[i]
      <4> HIDE DEF three, handed
      <4>1. Longer(two.text, handed, Emit(two, handed).text) BY <2>1, EmitText
      <4> QED BY <3>1, <4>1 DEF Longer
    <3>5. N + 1 \in 1..(N + 2) BY <1>1
    <3> QED BY <1>1, <1>5, <3>3, <3>4, <3>5
  <2> QED BY <2>2, <2>3
<1> HIDE DEF three
<1>7. Stays(w, three, made, "nothing")
  <2> DEFINE M == Len(three.text)
  <2>1. Valid(w, three, "place") BY <1>6 DEF Stays
  <2>2. /\ made.text[M + 1] = making /\ DOMAIN made.text = 1..(M + 1)
        /\ \A i \in 1..M : made.text[i] = three.text[i]
    <3> HIDE DEF making
    <3>1. Longer(three.text, making, Emit(three, making).text) BY <2>1, EmitText
    <3> QED BY <3>1 DEF Longer
  <2>3. M \in Nat /\ N + 1 \in 1..M /\ N + 1 \in 1..(M + 1) /\ N + 1 \in {(M + 1) - 2, (M + 1) - 3}
    BY <1>1, <1>6
  <2>4. made.text[N + 1] = foreign BY <1>6, <2>2, <2>3
  <2>5. MakesResult(making) BY DEF MakesResult, Runtime, Sym
  <2>6. OddForeignCall(w.p, foreign) => OddForeignAt(w.p, made.text, M + 1)
    <3>1. N + 1 \in {(M + 1) - 2, (M + 1) - 3} \cap DOMAIN made.text BY <2>2, <2>3
    <3> HIDE DEF made, making, M
    <3> QED BY <2>2, <2>4, <2>5, <3>1 DEF OddForeignAt
  <2>7. Even(c) => Even(three) BY <1>3, <1>4, <1>6 DEF Stays, Even
  <2>8. MayCall(Runtime(<<"make", type>>), StateIn(w, three.frame_size, "place"))
    BY StateInIs DEF MayCall, Runtime, Sym
  <2> QED BY <1>2, <2>1, <2>6, <2>7, <2>8, CallStays
<1>8. MakeResult(one, meta, type) = made
  <2>1. IsCtx(one) /\ IsSeq(one.text) BY <1>3, ValidHas DEF Stays
  <2>2. Valid(w, two, "place") BY <1>4 DEF Stays
  <2>3. IsCtx(two) /\ IsSeq(two.text) BY <2>2, ValidHas
  <2> HIDE DEF to, handed, making, made
  <2>4. IsSeq(<<to>>) /\ IsSeq(<<handed>>) /\ IsSeq(<<making>>) /\ IsSeq(<<to, handed>>) BY TupleIs
  <2>5. EmitAll(one, <<to>>) = two BY DEF two, Emit
  <2>6. CASE type = "void"
    <3>1. MakeResult(one, meta, type) = EmitAll(one, (<<to>> \o <<>>) \o <<making>>)
      BY <2>6 DEF MakeResult, to, making
    <3>2. EmitAll(one, <<to>> \o <<making>>) = EmitAll(EmitAll(one, <<to>>), <<making>>)
      BY <2>1, <2>4, EmitAllMore
    <3>3. made = EmitAll(two, <<making>>) BY <2>6 DEF made, three, Emit
    <3>4. <<to>> \o <<>> = <<to>> BY ConcatTuples
    <3> QED BY <2>5, <3>1, <3>2, <3>3, <3>4
  <2>7. CASE type # "void"
    <3>1. MakeResult(one, meta, type) = EmitAll(one, (<<to>> \o <<handed>>) \o <<making>>)
      BY <2>7 DEF MakeResult, to, making, handed
    <3>2. EmitAll(one, <<to>> \o <<handed>>) = EmitAll(two, <<handed>>)
      BY <2>1, <2>4, <2>5, EmitAllMore
    <3>3. <<to>> \o <<handed>> = <<to, handed>> BY ConcatTuples
    <3>4. EmitAll(one, <<to, handed>> \o <<making>>) = EmitAll(EmitAll(one, <<to, handed>>), <<making>>)
      BY <2>1, <2>4, EmitAllMore
    <3>5. made = EmitAll(EmitAll(two, <<handed>>), <<making>>) BY <2>7 DEF made, three, Emit
    <3> QED BY <3>1, <3>2, <3>3, <3>4, <3>5
  <2> QED BY <2>6, <2>7
<1> HIDE DEF made
<1>9. Stays(w, c, made, "nothing") BY <1>3, <1>4, <1>6, <1>7 DEF Stays
<1> QED BY <1>8, <1>9 DEF one, foreign

LEMMA StmtCallExternStays ==
  ASSUME NEW w, NEW c, NEW s, Ready(w, c, s.ret), IsSeq(s.args)
  PROVE  Stays(w, c, StmtCallExtern(c, s, c.externs[s.sub]), "nothing")
<1> DEFINE extern == c.externs[s.sub]
           n == Len(s.args)
<1>1. CASE n # Len(extern.params) BY <1>1, CgErrorStays DEF StmtCallExtern, Ready
<1>2. CASE n = Len(extern.params) /\ ~ExternOk(extern)
  BY <1>2 DEF StmtCallExtern, Stays, Ready
<1>3. CASE n = Len(extern.params) /\ ExternOk(extern)
  <2> DEFINE size == Aligned(c.frame_size + n)
             reserved == Reserve(c, size)
             unwrapped == UnwrapArgs(reserved, Metas(c, s.args), extern.params)
             popped == PopArgs(unwrapped, n)
             called == Emit(popped, <<"call", Sym(<<"extern", s.sub>>)>>)
             made == MakeResult(called, c.meta[s.ret], extern.ret)
  <2>1. n \in Nat /\ c.frame_size \in Nat BY SeqHas, ValidHas DEF Ready
  <2>2. size \in Nat /\ size % 2 = 0 /\ c.frame_size + n <= size
    <3>1. c.frame_size + n \in Nat BY <2>1
    <3> QED BY <3>1, AlignedIs
  <2>3. StmtCallExtern(c, s, extern) = FrameRestore(made, c.frame_size)
    BY <1>3 DEF StmtCallExtern, CallExtern
  <2>4. n + Links(w.in) <= size
    <3>1. Links(w.in) = 2 \/ Links(w.in) = 3 BY LinksIs
    <3>2. Links(w.in) <= c.frame_size BY ValidHas DEF Ready, DepthIn
    <3> QED BY <2>1, <2>2, <3>1, <3>2
  <2> HIDE DEF size
  <2>5. Valid(w, reserved, "nothing") /\ reserved.frame_size = size /\ reserved.meta = c.meta
    <3>1. c.frame_size <= size BY <2>1, <2>2
    <3> QED BY <2>2, <3>1, ReserveReserves DEF Ready
  <2> HIDE DEF reserved
  <2>6. Valid(w, unwrapped, "nothing") /\ unwrapped.frame_size = size /\ unwrapped.meta = c.meta
    <3> DEFINE metas == Metas(c, s.args)
    <3>1. IsSeq(metas) /\ Len(metas) = n BY MetasIs
    <3> HIDE DEF metas
    <3>2. Len(metas) + Links(w.in) <= reserved.frame_size BY <2>4, <2>5, <3>1
    <3>3. Stays(w, reserved, UnwrapArgs(reserved, metas, extern.params), "nothing")
      BY <2>2, <2>5, <3>1, <3>2, UnwrapArgsStays DEF Even
    <3> QED BY <2>5, <3>3 DEF Stays, metas
  <2> HIDE DEF unwrapped
  <2>7. Valid(w, popped, "nothing") /\ popped.frame_size = size - InRegs(n) /\ popped.meta = c.meta
    BY <2>1, <2>4, <2>6, PopArgsPops
  <2> HIDE DEF popped
  <2>8. Even(popped) \/ n \in {1, 3, 5}
    <3> HIDE DEF n
    <3>1. CASE n >= 6 BY <2>1, <2>2, <2>7, <3>1 DEF InRegs, Even
    <3>2. CASE n < 6
      <4>1. n = 0 \/ n = 1 \/ n = 2 \/ n = 3 \/ n = 4 \/ n = 5 BY <2>1, <3>2
      <4> QED BY <2>2, <2>7, <4>1 DEF InRegs, Even
    <3> QED BY <2>1, <3>1, <3>2
  <2>9. extern = w.p.externs[s.sub] BY ValidHas DEF Ready
  <2>10. popped.frame_size \in Nat /\ c.frame_size <= popped.frame_size
    <3>1. InRegs(n) \in Nat /\ InRegs(n) <= n BY <2>1 DEF InRegs
    <3> QED BY <2>1, <2>2, <2>7, <3>1
  <2>11. Stays(w, popped, made, "nothing")
    <3>1. PlaceAt(w, c.meta[s.ret], popped.frame_size) BY <2>1, <2>10, PlaceStays DEF Ready
    <3>2. Even(popped) \/ Len(w.p.externs[s.sub].params) \in {1, 3, 5} BY <1>3, <2>8, <2>9
    <3> QED BY <2>7, <3>1, <3>2, ForeignStays
  <2> HIDE DEF made
  <2>12. Grows(w, c, made, "nothing") BY <2>7, <2>10, <2>11 DEF Stays, Grows
  <2> QED BY <2>3, <2>12, Restored DEF Ready
<1> QED BY <1>1, <1>2, <1>3

(* Every statement leaves the stack as it finds it.                        *)
HasPlaces(w, meta, values, d) == \A v \in values : PlaceAt(w, meta[v], d)

LEMMA StmtStays ==
  ASSUME NEW w, NEW c, NEW s, NEW sub, Valid(w, c, "nothing"), Even(c), IsStmt(sub, s),
         HasPlaces(w, c.meta, ValuesOf(sub), c.frame_size)
  PROVE  Stays(w, c, Stmt(c, s), "nothing")
<1>1. s.kind \in WithArgs => IsSeq(s.args) BY DEF IsStmt
<1>2. s.kind # "print" => Ready(w, c, s.ret) BY DEF IsStmt, HasPlaces, Ready
<1>3. CASE s.kind = "op"
  BY <1>1, <1>2, <1>3, StmtOpStays DEF Stmt, WithArgs
<1>4. CASE s.kind = "op_call"
  <2>1. s.args # <<>> BY <1>4 DEF IsStmt
  <2> QED BY <1>1, <1>2, <1>4, <2>1, StmtOpCallStays DEF Stmt, WithArgs
<1>5. CASE s.kind = "call"
  <2>1. Stmt(c, s) = StmtCall(c, s) BY <1>5 DEF Stmt
  <2>2. IsSeq(s.args) BY <1>1, <1>5 DEF WithArgs
  <2> QED BY <1>2, <1>5, <2>1, <2>2, StmtCallExternStays, StmtCallNativeStays DEF StmtCall
<1>6. CASE s.kind = "member" BY <1>2, <1>6, StmtMemberStays DEF Stmt
<1>7. CASE s.kind = "cast" BY <1>2, <1>7, StmtCastStays DEF Stmt
<1>8. CASE s.kind = "make_array" BY <1>1, <1>2, <1>8, MakeArrayStays DEF Stmt, WithArgs
<1>9. CASE s.kind = "make_object" BY <1>2, <1>9, MakeObjectStays DEF Stmt
<1>10. CASE s.kind = "make_prim" BY <1>10, CgErrorStays DEF Stmt
<1>11. CASE s.kind = "print" BY <1>1, <1>11, StmtPrintStays DEF Stmt, WithArgs
<1>12. CASE s.kind = "type" BY <1>2, <1>12, StmtTypeStays DEF Stmt
<1>13. CASE s.kind = "assign_lit" BY <1>2, <1>13, AssignLitStays DEF Stmt
<1>14. CASE s.kind = "assign_value" BY <1>2, <1>14, AssignValueStays DEF Stmt
<1>15. CASE s.kind = "assign_sub" BY <1>2, <1>15, AssignSubStays DEF Stmt
<1>16. s.kind \in StmtKinds BY DEF IsStmt
<1> QED BY <1>3, <1>4, <1>5, <1>6, <1>7, <1>8, <1>9, <1>10, <1>11, <1>12, <1>13, <1>14, <1>15, <1>16
        DEF StmtKinds

-----------------------------------------------------------------------------
(* Blocks are entered and left at the depth of the body.                   *)

HasSlots(w, meta, values, d) == \A v \in values : SlotAt(w, meta[v], d)
LocalsOf(sub) == ToSet(sub.vars) \cup ToSet(sub.tmps)

InFrame(w, sub, c) ==
  /\ Valid(w, c, "nothing") /\ Even(c) /\ InFrameOf(w, c.frame_size)
  /\ HasPlaces(w, c.meta, ValuesOf(sub), c.frame_size)
  /\ HasSlots(w, c.meta, LocalsOf(sub), c.frame_size)

LEMMA InFrameStays ==
  ASSUME NEW w, NEW sub, NEW c, NEW ctx, InFrame(w, sub, c), Stays(w, c, ctx, "nothing")
  PROVE  InFrame(w, sub, ctx)
BY DEF InFrame, Stays, Even

LEMMA LineNoted ==
  ASSUME NEW lines, NEW subs, NEW line, AreNotes(lines, subs)
  PROVE  AreNotes(Append(lines, line), subs)
<1>1. IsSeq(Append(lines, line)) BY AppendIs DEF AreNotes
<1> QED BY <1>1 DEF AreNotes

LEMMA SubNoted ==
  ASSUME NEW lines, NEW subs, NEW sub, AreNotes(lines, subs), IsSeq(sub.params), IsSeq(sub.vars)
  PROVE  AreNotes(lines, Append(subs, sub))
<1> DEFINE more == Append(subs, sub)  n == Len(subs)
<1>1. IsSeq(subs) /\ IsSeq(lines) /\ n \in Nat BY SeqHas DEF AreNotes, AreSubs
<1>2. IsSeq(more) /\ Len(more) = n + 1 /\ (\A i \in 1..n : more[i] = subs[i]) /\ more[n + 1] = sub
  BY <1>1, AppendIs
<1> HIDE DEF more
<1>3. ASSUME NEW i \in 1..(n + 1) PROVE IsSeq(more[i].params) /\ IsSeq(more[i].vars)
  <2>1. CASE i = n + 1 BY <1>2, <2>1
  <2>2. CASE i # n + 1
    <3>1. i \in 1..n BY <1>1, <2>2
    <3> QED BY <1>2, <3>1 DEF AreNotes, AreSubs
  <2> QED BY <2>1, <2>2
<1> QED BY <1>1, <1>2, <1>3 DEF AreNotes, AreSubs, more

LEMMA DebugLineStays ==
  ASSUME NEW w, NEW sub, NEW c, NEW label, NEW debug, InFrame(w, sub, c),
         label[1] \in {"line", "jmp"}, label[2] = w.in[2]
  PROVE  InFrame(w, sub, DebugLine(c, label, debug))
<1> DEFINE noted == Label(c, label)  ctx == DebugLine(c, label, debug)
<1>1. Stays(w, c, noted, "nothing")
  <2>1. ~IsStart(label) /\ label[1] # "E" /\ label[1] # "at" BY DEF IsStart
  <2> QED BY <2>1, LabelStays DEF InFrame
<1> HIDE DEF noted
<1>2. IsCtx(noted) BY <1>1, ValidHas DEF Stays
<1> DEFINE line == [label |-> label, file |-> debug.file, line |-> debug.line]
<1>5. AreNotes(Append(noted.lines, line), noted.subs) BY <1>2, LineNoted DEF IsCtx
<1>3. /\ IsCtx(ctx) /\ ctx.externs = noted.externs /\ ctx.frame_size = noted.frame_size
      /\ ctx.text = noted.text /\ ctx.meta = noted.meta
  BY <1>2, <1>5 DEF IsCtx, CtxFields, DebugLine, noted
<1> HIDE DEF ctx
<1>4. Stays(w, c, ctx, "nothing") BY <1>1, <1>3 DEF Valid, Reached, Stays
<1> QED BY <1>4, InFrameStays DEF ctx

BodyGood(given, i, ctx) == InFrame(given.w, given.sub, ctx)
Stmts   == INSTANCE Folding WITH op <- InstStmt, Good <- BodyGood
JmpAts  == INSTANCE Folding WITH op <- DebugJmp, Good <- BodyGood
Blocks  == INSTANCE Folding WITH op <- InstBB, Good <- BodyGood

LEMMA InstStmtsStays ==
  ASSUME NEW w, NEW sub, NEW b, NEW stmts, NEW c, InFrame(w, sub, c), IsSeq(stmts),
         \A k \in 1..Len(stmts) : IsStmt(sub, stmts[k])
  PROVE  InFrame(w, sub, InstStmts(c, w.in[2], b, stmts))
<1> DEFINE f == w.in[2]
           ats == [k \in DOMAIN stmts |-> [label |-> Line(f, b, k), stmt |-> stmts[k]]]
           given == [w |-> w, sub |-> sub]
<1>1. Len(stmts) \in Nat /\ DOMAIN stmts = 1..Len(stmts) BY SeqHas
<1>2. Len(ats) = Len(stmts)
  <2>1. ats = [k \in 1..Len(stmts) |-> ats[k]] BY <1>1
  <2> HIDE DEF ats
  <2> QED BY <1>1, <2>1, SeqBuilt
<1>3. BodyGood(given, 0, c) BY DEF BodyGood
<1>4. ASSUME NEW k \in 1..Len(ats), NEW ctx, BodyGood(given, k - 1, ctx)
      PROVE  BodyGood(given, k, InstStmt(ctx, ats[k]))
  <2>1. k \in 1..Len(stmts) BY <1>2
  <2>2. ats[k].label = Line(f, b, k) /\ ats[k].stmt = stmts[k] BY <1>1, <2>1
  <2>3. Line(f, b, k)[1] \in {"line", "jmp"} /\ Line(f, b, k)[2] = f BY DEF Line
  <2> DEFINE at == ats[k]
             lined == DebugLine(ctx, at.label, at.stmt.debug)
  <2> HIDE DEF ats, at
  <2>4. InFrame(w, sub, ctx) BY <1>4 DEF BodyGood
  <2>5. InFrame(w, sub, lined) BY <2>2, <2>3, <2>4, DebugLineStays DEF at
  <2> HIDE DEF lined
  <2>6. IsStmt(sub, at.stmt) BY <2>1, <2>2 DEF at
  <2>7. Stays(w, lined, Stmt(lined, at.stmt), "nothing") BY <2>5, <2>6, StmtStays DEF InFrame
  <2>8. InFrame(w, sub, Stmt(lined, at.stmt)) BY <2>5, <2>7, InFrameStays
  <2> QED BY <2>8 DEF BodyGood, InstStmt, lined, at
<1>5. InstStmts(c, f, b, stmts) = Stmts!Folded(c, ats) BY DEF InstStmts, Through, Stmts!Folded
<1> HIDE DEF ats, given
<1>6. BodyGood(given, Len(ats), InstStmts(c, f, b, stmts))
  BY <1>1, <1>2, <1>3, <1>4, <1>5, Stmts!Folds
<1> QED BY <1>6 DEF BodyGood, given

(* A jump, in the context ctx; its condition was found in the context c.   *)
LEMMA JmpInstrsStay ==
  ASSUME NEW w, NEW sub, NEW c, NEW ctx, NEW jmp, InFrame(w, sub, ctx), jmp.kind \in {"cond", "next", "term"}
  PROVE  Stays(w, ctx, EmitAll(ctx, JmpInstrs(c, w.in[2], jmp)), "nothing")
<1> DEFINE d == ctx.frame_size  f == w.in[2]
<1>1. Valid(w, ctx, "nothing") /\ DepthIn(w, d) /\ d % 2 = 0 /\ InFrameOf(w, d)
  BY ValidHas DEF InFrame, Even
<1>2. ASSUME NEW to, InBody(to), to[2] = f
      PROVE  Steady(w, d, "nothing", <<"jmp", to>>, "nothing") /\ Steady(w, d, "nothing", <<"jnz", to>>, "nothing")
  BY <1>1, <1>2, SteadyJumps
<1>3. \A b : InBody(Block(f, b)) /\ Block(f, b)[2] = f BY DEF InBody, Block
<1>4. InBody(At(f, "deinit")) /\ At(f, "deinit")[2] = f BY DEF InBody, At
<1>5. CASE jmp.kind = "cond"
  <2> DEFINE je == Block(f, jmp.je)  jz == Block(f, jmp.jz)
             a == ValueReg(c.meta[jmp.cond], "rdi")
             b == <<"call", Runtime(<<"unwrap", "bool">>)>>
             x == <<"test">>
             y == <<"jnz", je>>
             z == <<"jmp", jz>>
  <2>1. Steady(w, d, "nothing", y, "nothing") /\ Steady(w, d, "nothing", z, "nothing") BY <1>2, <1>3
  <2>2. Steady(w, d, "nothing", a, "nothing") BY <1>1, ValueRegSteady
  <2>3. Steady(w, d, "nothing", b, "nothing")
    <3>1. <<"unwrap", "bool">>[1] \in Quiet BY DEF Quiet
    <3> QED BY <1>1, <3>1, SteadyCalls
  <2>4. Steady(w, d, "nothing", x, "nothing") BY <1>1, SteadyTest
  <2>5. JmpInstrs(c, f, jmp) = <<a, b, x, y, z>> BY <1>5 DEF JmpInstrs
  <2> HIDE DEF a, b, x, y, z
  <2> QED BY <1>1, <2>1, <2>2, <2>3, <2>4, <2>5, Emits5
<1>6. CASE jmp.kind # "cond"
  <2> DEFINE to == IF jmp.kind = "next" THEN Block(f, jmp.next) ELSE At(f, "deinit")
             a == <<"jmp", to>>
  <2>1. Steady(w, d, "nothing", a, "nothing") BY <1>2, <1>3, <1>4
  <2>2. JmpInstrs(c, f, jmp) = <<a>> BY <1>6 DEF JmpInstrs
  <2> HIDE DEF a
  <2>3. Stays(w, ctx, Emit(ctx, a), "nothing") BY <1>1, <2>1, EmitStays
  <2> QED BY <2>2, <2>3 DEF Emit
<1> QED BY <1>5, <1>6

LEMMA InstJmpStays ==
  ASSUME NEW w, NEW sub, NEW b, NEW c, NEW jmp, InFrame(w, sub, c),
         jmp.kind \in {"cond", "next", "term"}, IsSeq(jmp.debug)
  PROVE  InFrame(w, sub, InstJmp(c, w.in[2], b, jmp))
<1> DEFINE f == w.in[2]
           ats == [i \in DOMAIN jmp.debug |-> [label |-> JmpLine(f, b), debug |-> jmp.debug[i]]]
           given == [w |-> w, sub |-> sub]
           lined == Through(DebugJmp, c, ats)
<1>1. Len(jmp.debug) \in Nat /\ DOMAIN jmp.debug = 1..Len(jmp.debug) BY SeqHas
<1>2. Len(ats) = Len(jmp.debug)
  <2>1. ats = [i \in 1..Len(jmp.debug) |-> ats[i]] BY <1>1
  <2> HIDE DEF ats
  <2> QED BY <1>1, <2>1, SeqBuilt
<1>3. BodyGood(given, 0, c) BY DEF BodyGood
<1>4. ASSUME NEW i \in 1..Len(ats), NEW ctx, BodyGood(given, i - 1, ctx)
      PROVE  BodyGood(given, i, DebugJmp(ctx, ats[i]))
  <2>1. ats[i].label = JmpLine(f, b) BY <1>1, <1>2
  <2>2. JmpLine(f, b)[1] \in {"line", "jmp"} /\ JmpLine(f, b)[2] = f BY DEF JmpLine
  <2> DEFINE at == ats[i]
  <2> HIDE DEF ats, at
  <2>3. InFrame(w, sub, ctx) BY <1>4 DEF BodyGood
  <2>4. InFrame(w, sub, DebugLine(ctx, at.label, at.debug)) BY <2>1, <2>2, <2>3, DebugLineStays DEF at
  <2> QED BY <2>4 DEF BodyGood, DebugJmp, at
<1>5. lined = JmpAts!Folded(c, ats) BY DEF Through, JmpAts!Folded
<1>6. InstJmp(c, f, b, jmp) = EmitAll(lined, JmpInstrs(c, f, jmp)) BY DEF InstJmp
<1> HIDE DEF ats, given, lined
<1>7. BodyGood(given, Len(ats), lined) BY <1>1, <1>2, <1>3, <1>4, <1>5, JmpAts!Folds
<1>8. InFrame(w, sub, lined) BY <1>7 DEF BodyGood, given
<1>9. Stays(w, lined, EmitAll(lined, JmpInstrs(c, f, jmp)), "nothing") BY <1>8, JmpInstrsStay
<1> QED BY <1>6, <1>8, <1>9, InFrameStays

LEMMA InstBBStays ==
  ASSUME NEW w, NEW sub, NEW c, NEW at, InFrame(w, sub, c), at.sub = w.in[2], IsBB(sub, at.bb)
  PROVE  InFrame(w, sub, InstBB(c, at))
<1> DEFINE f == w.in[2]
           entered == Label(c, Block(f, at.id))
           done == InstStmts(entered, f, at.id, at.bb.stmts)
<1>1. InFrame(w, sub, entered)
  <2>1. ~IsStart(Block(f, at.id)) /\ Block(f, at.id)[2] = f /\ Block(f, at.id)[1] = "bb" BY DEF IsStart, Block
  <2>2. Stays(w, c, entered, "nothing") BY <2>1, LabelStays DEF InFrame
  <2> QED BY <2>2, InFrameStays
<1> HIDE DEF entered
<1>2. InFrame(w, sub, done) BY <1>1, InstStmtsStays DEF IsBB
<1> HIDE DEF done
<1>3. InFrame(w, sub, InstJmp(done, f, at.id, at.bb.jmp)) BY <1>2, InstJmpStays DEF IsBB
<1> QED BY <1>3 DEF InstBB, done, entered

LEMMA InstBBsStays ==
  ASSUME NEW w, NEW sub, NEW c, NEW bbs, InFrame(w, sub, c), IsSeq(bbs),
         \A b \in 1..Len(bbs) : IsBB(sub, bbs[b])
  PROVE  InFrame(w, sub, InstBBs(c, w.in[2], bbs))
<1> DEFINE f == w.in[2]
           ats == [b \in DOMAIN bbs |-> [sub |-> f, id |-> b, bb |-> bbs[b]]]
           given == [w |-> w, sub |-> sub]
<1>1. Len(bbs) \in Nat /\ DOMAIN bbs = 1..Len(bbs) BY SeqHas
<1>2. Len(ats) = Len(bbs)
  <2>1. ats = [b \in 1..Len(bbs) |-> ats[b]] BY <1>1
  <2> HIDE DEF ats
  <2> QED BY <1>1, <2>1, SeqBuilt
<1>3. BodyGood(given, 0, c) BY DEF BodyGood
<1>4. ASSUME NEW b \in 1..Len(ats), NEW ctx, BodyGood(given, b - 1, ctx)
      PROVE  BodyGood(given, b, InstBB(ctx, ats[b]))
  <2>1. ats[b].sub = f /\ ats[b].bb = bbs[b] BY <1>1, <1>2
  <2>2. IsBB(sub, bbs[b]) BY <1>2
  <2> DEFINE at == ats[b]
  <2> HIDE DEF ats, at
  <2>3. InFrame(w, sub, ctx) BY <1>4 DEF BodyGood
  <2>4. InFrame(w, sub, InstBB(ctx, at)) BY <2>1, <2>2, <2>3, InstBBStays DEF at
  <2> QED BY <2>4 DEF BodyGood, at
<1>5. InstBBs(c, f, bbs) = Blocks!Folded(c, ats) BY DEF InstBBs, Through, Blocks!Folded
<1> HIDE DEF ats, given
<1>6. BodyGood(given, Len(ats), InstBBs(c, f, bbs))
  BY <1>1, <1>2, <1>3, <1>4, <1>5, Blocks!Folds
<1> QED BY <1>6 DEF BodyGood, given

-----------------------------------------------------------------------------
(* Entering a subroutine.                                                  *)

(* Between two subroutines nothing is known, as control never comes there. *)
Between(p, c) == IsCtx(c) /\ c.externs = p.externs /\ \A t : LeadsTo(p, c.text, t)

Within(p, f) == [p |-> p, in |-> TheBody(f), own |-> TRUE]
OnEntry(f)    == IF f = "main" THEN "nothing" ELSE "place"

LEMMA WithinIs ==
  ASSUME NEW p, NEW f
  PROVE  /\ IsWhere(Within(p, f)) /\ Within(p, f).p = p /\ Within(p, f).own
         /\ Within(p, f).in = TheBody(f) /\ Within(p, f).in[1] = "sub" /\ Within(p, f).in[2] = f
         /\ Links(Within(p, f).in) = IF f = "main" THEN 2 ELSE 3
BY DEF Within, TheBody, IsWhere, Links

LEMMA LabelReached ==
  ASSUME NEW p, NEW c, NEW s, NEW label, Reached(p, c, s), Sensible(s), s.knows \in {"nothing", "place"},
         LabelFits(p, <<"label", label, c.frame_size>>, s)
  PROVE  Reached(p, Label(c, label), s) /\ Label(c, label).meta = c.meta
<1> DEFINE instr == <<"label", label, c.frame_size>>  ctx == Label(c, label)
<1>1. instr[1] = "label" OBVIOUS
<1>2. instr # GivesBack /\ instr # SetsBase /\ instr # RestoresBase
  BY DEF GivesBack, SetsBase, RestoresBase
<1>3. LabelFits(p, instr, s) OBVIOUS
<1>4. IsCtx(ctx) /\ ctx.externs = c.externs /\ ctx.frame_size = c.frame_size
      /\ ctx.text = c.text \o <<instr>> /\ ctx.meta = c.meta
  BY DEF Reached, IsCtx, CtxFields, Label, Emit, EmitAll
<1> HIDE DEF instr, ctx
<1>5. s.in # Nobody BY DEF Sensible, Nobody
<1>6. Follows(instr, s, s)
  <2>1. Behind(instr, s.depth) = s.depth BY <1>1, <1>2 DEF Behind
  <2>2. OwnBehind(instr, s.own) = s.own BY <1>2 DEF OwnBehind, Sensible
  <2>3. KnowsBehind(instr, s, s.knows) BY <1>1 DEF KnowsBehind, KeepsRdi
  <2> QED BY <2>1, <2>2, <2>3 DEF Follows
<1>7. Fits(p, instr, s, s, FALSE) BY <1>1, <1>3, <1>5, <1>6 DEF Fits, InstrFits
<1>8. ctx.frame_size = s.depth BY <1>4 DEF Reached
<1>9. Reached(p, ctx, s) BY <1>4, <1>7, <1>8, OneMore
<1> QED BY <1>4, <1>9 DEF ctx

LEMMA StartStarts ==
  ASSUME NEW p, NEW f, NEW c, Between(p, c)
  PROVE  /\ Reached(p, Start(c, f), State(1, TheBody(f), FALSE, OnEntry(f)))
         /\ Start(c, f).meta = <<>>
<1> DEFINE s == State(1, TheBody(f), FALSE, OnEntry(f))
           reset == [c EXCEPT !.frame_size = 1, !.meta = <<>>]
           named == Label(reset, <<"sub", f>>)
<1>1. /\ s.depth = 1 /\ s.in = TheBody(f) /\ s.own = FALSE /\ s.knows = OnEntry(f)
      /\ s.in[1] = "sub"
  BY DEF State, TheBody
<1>2. s.knows \in {"nothing", "place"} /\ (f = "main" => s.knows = "nothing") BY <1>1 DEF OnEntry
<1> HIDE DEF s
<1>3. Sensible(s)
  <2>1. ~s.own /\ s.own \in BOOLEAN BY <1>1
  <2>2. s.depth \in Nat \ {0} BY <1>1
  <2> QED BY <1>1, <2>1, <2>2 DEF Sensible
<1>4. Reached(p, reset, s) /\ reset.meta = <<>> /\ reset.frame_size = 1
  <2>1. /\ IsCtx(reset) /\ reset.externs = c.externs /\ reset.frame_size = 1 /\ reset.text = c.text
        /\ reset.meta = <<>>
    BY DEF Between, IsCtx, CtxFields
  <2> HIDE DEF reset
  <2> QED BY <1>1, <2>1 DEF Between, Reached
<1> HIDE DEF reset
<1>5. Reached(p, named, s) /\ named.meta = <<>> /\ named.frame_size = 1
  <2>1. LabelFits(p, <<"label", <<"sub", f>>, 1>>, s)
    BY <1>1, <1>2 DEF LabelFits, IsStart, InBody, TheBody
  <2>2. Reached(p, named, s) /\ named.meta = <<>> BY <1>2, <1>3, <1>4, <2>1, LabelReached
  <2> QED BY <1>1, <2>2 DEF Reached
<1>6. Start(c, f) = Label(named, <<"S", f>>) BY DEF Start, named, reset
<1> HIDE DEF named
<1>7. LabelFits(p, <<"label", <<"S", f>>, 1>>, s) BY <1>1 DEF LabelFits, IsStart, InBody
<1>8. Reached(p, Label(named, <<"S", f>>), s) /\ Label(named, <<"S", f>>).meta = <<>>
  BY <1>2, <1>3, <1>5, <1>7, LabelReached
<1> QED BY <1>6, <1>8 DEF s

(* mov rbp, rsp: from here on rbp is that of the activation.               *)
LEMMA PrologueEnters ==
  ASSUME NEW p, NEW f, NEW c, NEW k \in {"nothing", "place"}, Reached(p, c, State(1, TheBody(f), FALSE, k))
  PROVE  /\ Reached(p, Prologue(c), State(2, TheBody(f), TRUE, k))
         /\ Prologue(c).meta = c.meta
<1> DEFINE s == State(1, TheBody(f), FALSE, k)
           t == State(2, TheBody(f), FALSE, k)
           u == State(2, TheBody(f), TRUE, k)
           pushing == <<"push", Reg("rbp")>>
           pushed == Pushq(c, Reg("rbp"))
           ctx == Prologue(c)
<1>1. /\ s.depth = 1 /\ s.in = TheBody(f) /\ s.own = FALSE /\ s.knows = k
      /\ t.depth = 2 /\ t.in = TheBody(f) /\ t.own = FALSE /\ t.knows = k
      /\ u.depth = 2 /\ u.in = TheBody(f) /\ u.own = TRUE /\ u.knows = k
  BY DEF State
<1>2. TheBody(f)[1] = "sub" /\ TheBody(f) # Nobody BY DEF TheBody, Nobody
<1>3. Reached(p, c, s) OBVIOUS
<1>4. IsCtx(pushed) /\ pushed.externs = c.externs /\ pushed.text = c.text \o <<pushing>>
      /\ pushed.frame_size = c.frame_size + 1 /\ pushed.meta = c.meta
  BY DEF Reached, IsCtx, CtxFields, Pushq, Emit, EmitAll
<1>5. ctx = Emit(pushed, SetsBase) BY DEF Prologue, SetsBase
<1> HIDE DEF s, t, u, ctx, pushed
<1>6. pushing[1] = "push" /\ pushing[2] = Reg("rbp") OBVIOUS
<1>7. pushing # GivesBack /\ pushing # SetsBase /\ pushing # RestoresBase
  BY DEF GivesBack, SetsBase, RestoresBase
<1> HIDE DEF pushing
<1>8. Fits(p, pushing, s, t, FALSE)
  <2>1. Sensible(s)
    <3>1. ~s.own /\ s.own \in BOOLEAN BY <1>1
    <3>2. s.depth \in Nat \ {0} BY <1>1
    <3> QED BY <1>1, <1>2, <3>1, <3>2 DEF Sensible
  <2>2. PushFits(pushing, s) BY <1>1, <1>2, <1>6 DEF PushFits
  <2>3. InstrFits(p, pushing, s, FALSE) BY <1>6, <2>1, <2>2 DEF InstrFits
  <2>4. Follows(pushing, s, t)
    <3>1. Behind(pushing, 1) = 2 BY <1>6 DEF Behind
    <3>2. OwnBehind(pushing, FALSE) = FALSE BY <1>7 DEF OwnBehind
    <3>3. KnowsBehind(pushing, s, k) BY <1>1, <1>6 DEF KnowsBehind, KeepsRdi
    <3> QED BY <1>1, <3>1, <3>2, <3>3 DEF Follows
  <2> QED BY <1>1, <1>2, <2>3, <2>4 DEF Fits
<1>9. Reached(p, pushed, t)
  <2>1. pushed.frame_size = t.depth BY <1>1, <1>3, <1>4 DEF Reached
  <2> QED BY <1>3, <1>4, <1>8, <2>1, OneMore
<1>10. /\ IsCtx(ctx) /\ ctx.externs = pushed.externs /\ ctx.text = pushed.text \o <<SetsBase>>
       /\ ctx.frame_size = pushed.frame_size /\ ctx.meta = pushed.meta
  BY <1>4, <1>5 DEF IsCtx, CtxFields, Emit, EmitAll
<1>11. Fits(p, SetsBase, t, u, FALSE)
  <2>1. Sensible(t)
    <3>1. ~t.own /\ t.own \in BOOLEAN BY <1>1
    <3>2. t.depth \in Nat \ {0} BY <1>1
    <3> QED BY <1>1, <1>2, <3>1, <3>2 DEF Sensible
  <2>2. MoveFits(SetsBase, t) BY <1>1, <1>2 DEF MoveFits
  <2>3. SetsBase[1] = "mov" /\ SetsBase[3] = Reg("rbp") BY DEF SetsBase
  <2>4. InstrFits(p, SetsBase, t, FALSE) BY <2>1, <2>2, <2>3 DEF InstrFits
  <2>5. SetsBase # GivesBack /\ SetsBase # RestoresBase
    BY DEF SetsBase, GivesBack, RestoresBase, Reg
  <2>6. KeepsRdi(SetsBase) BY <2>3 DEF KeepsRdi, Reg
  <2>7. Follows(SetsBase, t, u)
    <3>1. Behind(SetsBase, 2) = 2 BY <2>3, <2>5 DEF Behind
    <3>2. OwnBehind(SetsBase, FALSE) = TRUE BY <2>5 DEF OwnBehind
    <3>3. KnowsBehind(SetsBase, t, k) BY <1>1, <2>6 DEF KnowsBehind
    <3> QED BY <1>1, <3>1, <3>2, <3>3 DEF Follows
  <2> QED BY <1>1, <1>2, <2>4, <2>7 DEF Fits
<1>12. Reached(p, ctx, u)
  <2>1. ctx.frame_size = u.depth BY <1>1, <1>9, <1>10 DEF Reached
  <2> QED BY <1>9, <1>10, <1>11, <2>1, OneMore
<1> QED BY <1>4, <1>10, <1>12 DEF u, ctx

-----------------------------------------------------------------------------
(* Where values are.                                                       *)

LEMMA AlsoHas ==
  ASSUME NEW meta, NEW v, NEW m
  PROVE  /\ v \in DOMAIN Extended(meta, v, m) /\ Extended(meta, v, m)[v] = m
         /\ \A u \in DOMAIN meta : /\ u \in DOMAIN Extended(meta, v, m)
                                   /\ u # v => Extended(meta, v, m)[u] = meta[u]
BY DEF Extended

KnownIn(w, meta, values, d)  == \A v \in values : v \in DOMAIN meta /\ PlaceAt(w, meta[v], d)
Slotted(w, meta, values, d) == \A v \in values : v \in DOMAIN meta /\ SlotAt(w, meta[v], d)

LEMMA KnownStays ==
  ASSUME NEW w, NEW meta, NEW values, NEW d, NEW v, NEW m, SlotAt(w, m, d)
  PROVE  /\ KnownIn(w, meta, values, d) => KnownIn(w, Extended(meta, v, m), values, d)
         /\ Slotted(w, meta, values, d) => Slotted(w, Extended(meta, v, m), values \cup {v}, d)
<1> DEFINE all == Extended(meta, v, m)
<1>1. /\ v \in DOMAIN all /\ all[v] = m
      /\ \A u \in DOMAIN meta : u \in DOMAIN all /\ (u # v => all[u] = meta[u])
  BY AlsoHas
<1> HIDE DEF all
<1>2. PlaceAt(w, m, d) BY DEF PlaceAt
<1>3. KnownIn(w, meta, values, d) => KnownIn(w, all, values, d) BY <1>1, <1>2 DEF KnownIn
<1>4. Slotted(w, meta, values, d) => Slotted(w, all, values \cup {v}, d) BY <1>1 DEF Slotted
<1> QED BY <1>3, <1>4 DEF all

LEMMA MetaEmplaceStays ==
  ASSUME NEW w, NEW c, NEW k, NEW v, NEW m, Valid(w, c, k)
  PROVE  /\ Valid(w, MetaEmplace(c, v, m), k) /\ MetaEmplace(c, v, m).frame_size = c.frame_size
         /\ MetaEmplace(c, v, m).meta = Extended(c.meta, v, m)
<1> DEFINE ctx == MetaEmplace(c, v, m)
<1>1. IsCtx(c) BY ValidHas
<1>2. /\ IsCtx(ctx) /\ ctx.externs = c.externs /\ ctx.frame_size = c.frame_size
      /\ ctx.text = c.text /\ ctx.meta = Extended(c.meta, v, m)
  BY <1>1 DEF IsCtx, CtxFields, MetaEmplace
<1> HIDE DEF ctx
<1> QED BY <1>2 DEF Valid, Reached, ctx

-----------------------------------------------------------------------------
(* The references that are passed are kept.                                *)

LEMMA KeepRetKeeps ==
  ASSUME NEW p, NEW f, NEW c, NEW ret, f # "main", Reached(p, c, State(2, TheBody(f), TRUE, "place"))
  PROVE  LET kept == Keep(c, [value |-> ret, from |-> Reg("rdi")])
         IN  /\ Valid(Within(p, f), kept, "nothing") /\ kept.frame_size = 3
             /\ ret \in DOMAIN kept.meta /\ GivenAt(Within(p, f), kept.meta[ret], 3)
<1> DEFINE w == Within(p, f)
           s == State(2, TheBody(f), TRUE, "place")
           t == StateIn(w, 3, "nothing")
           instr == <<"push", Reg("rdi")>>
           pushed == Pushq(c, Reg("rdi"))
           kept == Keep(c, [value |-> ret, from |-> Reg("rdi")])
<1>1. IsWhere(w) /\ w.p = p /\ w.own /\ w.in = TheBody(f) /\ w.in[1] = "sub" /\ Links(w.in) = 3
  BY WithinIs
<1>2. s.depth = 2 /\ s.in = TheBody(f) /\ s.own /\ s.own \in BOOLEAN /\ s.knows = "place" BY DEF State
<1>3. t.depth = 3 /\ t.in = w.in /\ t.own = w.own /\ t.knows = "nothing" BY StateInIs
<1>4. Reached(p, c, s) OBVIOUS
<1>5. /\ IsCtx(pushed) /\ pushed.externs = c.externs /\ pushed.text = c.text \o <<instr>>
      /\ pushed.frame_size = c.frame_size + 1 /\ pushed.meta = c.meta
  BY DEF Reached, IsCtx, CtxFields, Pushq, Emit, EmitAll
<1>6. c.frame_size = 2 /\ pushed.frame_size = 3
  <2>1. c.frame_size = 2 BY <1>2, <1>4 DEF Reached
  <2> QED BY <1>5, <2>1
<1>7. kept = MetaEmplace(pushed, ret, Ptr(RbpOffset(pushed))) BY DEF Keep
<1>8. instr[1] = "push" /\ instr[2] = Reg("rdi") OBVIOUS
<1>9. instr # GivesBack /\ instr # SetsBase /\ instr # RestoresBase
  BY DEF GivesBack, SetsBase, RestoresBase
<1> HIDE DEF w, s, t, instr, pushed, kept
<1>10. Fits(p, instr, s, t, FALSE)
  <2>1. Sensible(s)
    <3>1. s.depth \in Nat \ {0} /\ s.depth >= 2 BY <1>2
    <3> QED BY <1>1, <1>2, <3>1 DEF Sensible
  <2>2. PushFits(instr, s) BY <1>2, <1>8 DEF PushFits
  <2>3. InstrFits(p, instr, s, FALSE) BY <1>8, <2>1, <2>2 DEF InstrFits
  <2>4. Follows(instr, s, t)
    <3>1. Behind(instr, 2) = 3 BY <1>8 DEF Behind
    <3>2. OwnBehind(instr, s.own) = w.own
      <4>1. w.own \in BOOLEAN BY <1>1 DEF IsWhere
      <4>2. OwnBehind(instr, s.own) BY <1>2, <1>9 DEF OwnBehind
      <4> QED BY <1>1, <4>1, <4>2 DEF OwnBehind
    <3>3. KnowsBehind(instr, s, "nothing") BY DEF KnowsBehind
    <3> QED BY <1>1, <1>2, <1>3, <3>1, <3>2, <3>3 DEF Follows
  <2>5. s.in # Nobody BY <1>2 DEF TheBody, Nobody
  <2> QED BY <2>3, <2>4, <2>5 DEF Fits
<1>11. Valid(w, pushed, "nothing")
  <2>1. Reached(p, pushed, t) BY <1>3, <1>4, <1>5, <1>6, <1>10, OneMore
  <2>2. DepthIn(w, 3) BY <1>1 DEF DepthIn
  <2> QED BY <1>1, <1>6, <2>1, <2>2 DEF Valid, t
<1>12. Ptr(RbpOffset(pushed)) = Ptr(-1)
  <2>1. RbpOffset(pushed) = -1 BY <1>6 DEF RbpOffset
  <2> QED BY <2>1
<1>13. /\ Valid(w, kept, "nothing") /\ kept.frame_size = 3
       /\ kept.meta = Extended(pushed.meta, ret, Ptr(-1))
  BY <1>6, <1>7, <1>11, <1>12, MetaEmplaceStays
<1>14. ret \in DOMAIN kept.meta /\ kept.meta[ret] = Ptr(-1) BY <1>13, AlsoHas
<1>15. 3 <= 3 OBVIOUS
<1>16. GivenAt(w, kept.meta[ret], 3) BY <1>1, <1>14, <1>15 DEF GivenAt
<1> QED BY <1>13, <1>14, <1>16 DEF w, kept

(* The place of the result is where it was, but it may be a parameter.     *)
RetStays(w, meta, ret, params) == ret \in DOMAIN meta /\ (ret \in params \/ GivenAt(w, meta[ret], 3))

KeepGood(given, i, ctx) ==
  /\ Valid(given.w, ctx, "nothing") /\ ctx.frame_size = given.size + i
  /\ RetStays(given.w, ctx.meta, given.ret, given.params)
Keeping == INSTANCE Folding WITH op <- Keep, Good <- KeepGood

LEMMA KeepParamsKeeps ==
  ASSUME NEW w, NEW c, NEW ret, NEW params, Valid(w, c, "nothing"), IsSeq(params),
         RetStays(w, c.meta, ret, ToSet(params))
  PROVE  /\ Valid(w, KeepParams(c, params), "nothing")
         /\ KeepParams(c, params).frame_size = c.frame_size + Len(params)
         /\ RetStays(w, KeepParams(c, params).meta, ret, ToSet(params))
<1> DEFINE all == [i \in DOMAIN params |-> [value |-> params[i], from |-> PassedIn(i)]]
           given == [w |-> w, size |-> c.frame_size, ret |-> ret, params |-> ToSet(params)]
<1>1. Len(params) \in Nat /\ Len(all) = Len(params) /\ \A i \in 1..Len(params) : all[i].value = params[i]
  <2>1. Len(params) \in Nat /\ DOMAIN params = 1..Len(params) BY SeqHas
  <2>2. \A i \in 1..Len(params) : all[i].value = params[i] BY <2>1
  <2>3. all = [i \in 1..Len(params) |-> all[i]] BY <2>1
  <2> HIDE DEF all
  <2> QED BY <2>1, <2>2, <2>3, SeqBuilt
<1>2. c.frame_size \in Nat BY ValidHas
<1>3. KeepGood(given, 0, c) BY <1>2 DEF KeepGood
<1>4. ASSUME NEW i \in 1..Len(all), NEW ctx, KeepGood(given, i - 1, ctx)
      PROVE  KeepGood(given, i, Keep(ctx, all[i]))
  <2> DEFINE passed == all[i]  kept == Pushq(ctx, passed.from)  m == Ptr(RbpOffset(kept))
             next == Keep(ctx, passed)  param == passed.value
  <2>1. param \in ToSet(params)
    <3>1. DOMAIN params = 1..Len(params) BY SeqHas
    <3> QED BY <1>1, <3>1 DEF ToSet
  <2>2. next = MetaEmplace(kept, param, m) BY DEF Keep
  <2> HIDE DEF all, passed
  <2>3. /\ Valid(w, ctx, "nothing") /\ ctx.frame_size = c.frame_size + (i - 1)
        /\ RetStays(w, ctx.meta, ret, ToSet(params))
    BY <1>4 DEF KeepGood
  <2>4. Valid(w, kept, "nothing") /\ kept.frame_size = ctx.frame_size + 1 /\ kept.meta = ctx.meta
    <3> DEFINE from == passed.from
    <3>1. kept = Pushq(ctx, from) /\ Valid(w, ctx, "nothing") BY <2>3
    <3> HIDE DEF kept, from
    <3> QED BY <3>1, PushqPushes
  <2> HIDE DEF kept, m, next, param
  <2>5. /\ Valid(w, next, "nothing") /\ next.frame_size = ctx.frame_size + 1
        /\ next.meta = Extended(ctx.meta, param, m)
    BY <2>2, <2>4, MetaEmplaceStays
  <2>6. next.frame_size = c.frame_size + i
    <3>1. i \in Nat BY <1>1
    <3> QED BY <1>2, <2>3, <2>5, <3>1
  <2>7. RetStays(w, next.meta, ret, ToSet(params)) BY <2>1, <2>3, <2>5, AlsoHas DEF RetStays
  <2> QED BY <2>5, <2>6, <2>7 DEF KeepGood, next, passed
<1>5. KeepParams(c, params) = Keeping!Folded(c, all) BY DEF KeepParams, Through, Keeping!Folded
<1> HIDE DEF all, given
<1>6. KeepGood(given, Len(all), KeepParams(c, params)) BY <1>1, <1>3, <1>4, <1>5, Keeping!Folds
<1> QED BY <1>1, <1>6 DEF KeepGood, given

-----------------------------------------------------------------------------
(* The parameters are copied to the frame.                                 *)

LEMMA SteadyFinds ==
  ASSUME NEW w, NEW d, NEW k, DepthIn(w, d), NEW o \in Int, w.own, 2 - d <= o, o + Links(w.in) < 0
  PROVE  Steady(w, d, k, <<"lea", Mem(o, "rbp"), Reg("rdi")>>, "place")
<1> DEFINE x == Mem(o, "rbp")  s == StateIn(w, d, k)  instr == <<"lea", x, Reg("rdi")>>
<1>1. x[1] = "mem" /\ x[2] = o /\ x[3] = "rbp" BY DEF Mem
<1>2. instr[1] = "lea" /\ instr[2] = x /\ instr[3] = Reg("rdi") OBVIOUS
<1>3. s.depth = d /\ s.in = w.in BY StateInIs
<1>4. OfFrame(x, s)
  <2>1. s.own BY StateInIs
  <2> HIDE DEF x, s
  <2> QED BY <1>1, <1>3, <2>1 DEF OfFrame
<1> HIDE DEF x, s, instr
<1>5. FindsPlace(instr, s) BY <1>1, <1>2, <1>4 DEF FindsPlace
<1>6. "rdi" \notin {"rbp", "rsp"} /\ "lea" \in {"mov", "lea"} OBVIOUS
<1> QED BY <1>5, <1>6, SteadyLoads DEF s, instr, x

LEMMA CopyParamStays ==
  ASSUME NEW w, NEW c, NEW copy, Valid(w, c, "nothing"), Even(c),
         SlotAt(w, Slot(copy.offset), c.frame_size)
  PROVE  /\ Valid(w, CopyParam(c, copy), "nothing") /\ CopyParam(c, copy).frame_size = c.frame_size
         /\ CopyParam(c, copy).meta = Extended(c.meta, copy.value, Slot(copy.offset))
<1> DEFINE d == c.frame_size
           o == copy.offset
           a == <<"lea", Mem(o, "rbp"), Reg("rdi")>>
           b == <<"mov", Mem(c.meta[copy.value].offset, "rbp"), Reg("rsi")>>
           e == <<"mov", Mem(1, "rsi"), Reg("rax")>>
           x == <<"mov", Entry("op_copy"), Reg("rax")>>
           y == <<"call", Reg("rax")>>
           copied == EmitAll(c, <<a, b, e, x, y>>)
<1>1. DepthIn(w, d) /\ d % 2 = 0 BY ValidHas DEF Even
<1>2. o \in Int /\ w.own /\ 2 - d <= o /\ o + Links(w.in) < 0 BY DEF SlotAt, Slot
<1>3. Steady(w, d, "nothing", a, "place")
  <2> HIDE DEF d, o
  <2> QED BY <1>1, <1>2, SteadyFinds
<1>4. /\ Steady(w, d, "place", b, "place") /\ Steady(w, d, "place", e, "place")
      /\ Steady(w, d, "place", x, "place")
  BY <1>1, SteadyLoads
<1>5. Steady(w, d, "place", y, "nothing") BY <1>1, SteadyCalls
<1>6. CopyParam(c, copy) = MetaEmplace(copied, copy.value, Slot(o)) BY DEF CopyParam
<1> HIDE DEF a, b, e, x, y
<1>7. Stays(w, c, copied, "nothing") BY <1>3, <1>4, <1>5, Emits5
<1> HIDE DEF copied
<1> QED BY <1>6, <1>7, MetaEmplaceStays DEF Stays

CopyGood(given, i, ctx) ==
  /\ Valid(given.w, ctx, "nothing") /\ ctx.frame_size = given.size
  /\ RetStays(given.w, ctx.meta, given.ret, ToSet(given.params))
  /\ \A j \in 1..i : LET param == given.params[(Len(given.params) - j) + 1]
                     IN  param \in DOMAIN ctx.meta /\ SlotAt(given.w, ctx.meta[param], given.size)
Copying == INSTANCE Folding WITH op <- CopyParam, Good <- CopyGood

(* There is room for the copies: a reference has one word, a copy three.   *)
LEMMA ParamsCopyCopies ==
  ASSUME NEW w, NEW f, NEW c, NEW ret, NEW params, Valid(w, c, "nothing"), IsSeq(params),
         w.own, Links(w.in) = 3, c.frame_size = 3 + Len(params), RetStays(w, c.meta, ret, ToSet(params))
  PROVE  LET copied == ParamsCopy(c, f, params)
         IN  /\ Valid(w, copied, "nothing")
             /\ copied.frame_size = Aligned(3 + SizeOfValue * Len(params))
             /\ KnownIn(w, copied.meta, {ret} \cup ToSet(params), copied.frame_size)
<1> DEFINE n == Len(params)
           size == Aligned(3 + SizeOfValue * n)
           named == Label(c, At(f, "copy"))
           start == Reserve(named, size)
           copies == Copies(params, 3)
           copied == ParamsCopy(c, f, params)
<1>1. n \in Nat /\ DOMAIN params = 1..n BY SeqHas
<1>2. size \in Nat /\ size % 2 = 0 /\ 3 + n <= size /\ 3 + 3 * n <= size
  <2>1. 3 + SizeOfValue * n \in Nat /\ 3 + n <= 3 + SizeOfValue * n BY <1>1 DEF SizeOfValue
  <2>2. Aligned(3 + SizeOfValue * n) \in Nat /\ Aligned(3 + SizeOfValue * n) % 2 = 0
        /\ 3 + SizeOfValue * n <= Aligned(3 + SizeOfValue * n)
    BY <2>1, AlignedIs
  <2>3. SizeOfValue * n = 3 * n BY DEF SizeOfValue
  <2> QED BY <1>1, <2>1, <2>2, <2>3
<1>3. Valid(w, named, "nothing") /\ named.frame_size = 3 + n /\ named.meta = c.meta
  <2>1. ~IsStart(At(f, "copy")) /\ ~InBody(At(f, "copy")) /\ At(f, "copy")[1] # "E"
    BY DEF IsStart, InBody, At
  <2> QED BY <2>1, LabelStays DEF Stays
<1>4. copied = Through(CopyParam, start, copies)
  <2>1. c.frame_size - n = 3 BY <1>1
  <2> QED BY <2>1 DEF ParamsCopy, CopyParams
<1> HIDE DEF named, size
<1>5. Valid(w, start, "nothing") /\ start.frame_size = size /\ start.meta = c.meta
  BY <1>2, <1>3, ReserveReserves
<1>6. /\ Len(copies) = n
      /\ \A i \in 1..n : /\ copies[i].value = params[(n - i) + 1]
                         /\ copies[i].offset = -(4 + 3 * (n - i))
  <2> DEFINE all == [i \in DOMAIN params |->
                       [value |-> params[i], offset |-> -(3 + 1 + SizeOfValue * (i - 1))]]
  <2>1. all = [i \in 1..n |-> all[i]] BY <1>1
  <2>2. copies = Reverse(all) BY DEF Copies
  <2>3. ASSUME NEW i \in 1..n
        PROVE  /\ all[(n - i) + 1].value = params[(n - i) + 1]
               /\ all[(n - i) + 1].offset = -(4 + 3 * (n - i))
    <3>1. (n - i) + 1 \in DOMAIN params /\ ((n - i) + 1) - 1 = n - i BY <1>1
    <3>2. /\ all[(n - i) + 1].value = params[(n - i) + 1]
          /\ all[(n - i) + 1].offset = -(3 + 1 + SizeOfValue * (((n - i) + 1) - 1))
      BY <3>1
    <3>3. 3 + 1 + SizeOfValue * (((n - i) + 1) - 1) = 4 + 3 * (n - i)
      <4>1. 3 + 1 = 4 OBVIOUS
      <4> QED BY <3>1, <4>1 DEF SizeOfValue
    <3> QED BY <3>2, <3>3
  <2> HIDE DEF all, n, copies
  <2>4. IsSeq(all) /\ Len(all) = n BY <1>1, <2>1, SeqBuilt
  <2>5. Len(copies) = n /\ \A i \in 1..n : copies[i] = all[(n - i) + 1] BY <2>2, <2>4, ReverseIs
  <2> QED BY <2>3, <2>5
<1> DEFINE given == [w |-> w, size |-> size, ret |-> ret, params |-> params]
<1>7. copied = Copying!Folded(start, copies) BY <1>4 DEF Through, Copying!Folded
<1> HIDE DEF start, copies, copied
<1>8. CopyGood(given, 0, start)
  <2>1. 1..0 = {} OBVIOUS
  <2> QED BY <1>5, <2>1 DEF CopyGood
<1>9. ASSUME NEW i \in 1..Len(copies), NEW ctx, CopyGood(given, i - 1, ctx)
      PROVE  CopyGood(given, i, CopyParam(ctx, copies[i]))
  <2> DEFINE copy == copies[i]  next == CopyParam(ctx, copy)  o == -(4 + 3 * (n - i))
             param(j) == params[(n - j) + 1]
  <2>1. copy.value = param(i) /\ copy.offset = o /\ i \in 1..n BY <1>6
  <2>2. /\ Valid(w, ctx, "nothing") /\ ctx.frame_size = size
        /\ RetStays(w, ctx.meta, ret, ToSet(params))
        /\ \A j \in 1..(i - 1) : param(j) \in DOMAIN ctx.meta /\ SlotAt(w, ctx.meta[param(j)], size)
    BY <1>9 DEF CopyGood
  <2>3. SlotAt(w, Slot(o), size)
    <3>1. o \in Int /\ 2 - size <= o /\ o + 3 < 0 BY <1>1, <1>2, <2>1
    <3> HIDE DEF o
    <3> QED BY <3>1 DEF SlotAt, Slot
  <2>4. Even(ctx) BY <1>2, <2>2 DEF Even
  <2> HIDE DEF o, copy, n
  <2>5. /\ Valid(w, next, "nothing") /\ next.frame_size = size
        /\ next.meta = Extended(ctx.meta, param(i), Slot(o))
    BY <2>1, <2>2, <2>3, <2>4, CopyParamStays
  <2>6. param(i) \in ToSet(params)
    <3>1. (n - i) + 1 \in 1..n BY <1>1, <2>1
    <3> QED BY <1>1, <3>1 DEF ToSet
  <2> HIDE DEF param, next
  <2>7. RetStays(w, next.meta, ret, ToSet(params)) BY <2>2, <2>5, <2>6, AlsoHas DEF RetStays
  <2>8. ASSUME NEW j \in 1..i
        PROVE  param(j) \in DOMAIN next.meta /\ SlotAt(w, next.meta[param(j)], size)
    <3>1. CASE param(j) = param(i)
      <4>1. param(i) \in DOMAIN next.meta /\ next.meta[param(i)] = Slot(o) BY <2>5, AlsoHas
      <4> QED BY <2>3, <3>1, <4>1
    <3>2. CASE param(j) # param(i)
      <4>1. j \in 1..(i - 1)
        <5>1. j # i BY <3>2
        <5> QED BY <1>1, <2>1, <5>1
      <4>2. param(j) \in DOMAIN ctx.meta /\ SlotAt(w, ctx.meta[param(j)], size) BY <2>2, <4>1
      <4> QED BY <2>5, <3>2, <4>2, AlsoHas
    <3> QED BY <3>1, <3>2
  <2> QED BY <2>5, <2>7, <2>8 DEF CopyGood, param, next, copy, n
<1> HIDE DEF given
<1>10. CopyGood(given, n, copied) BY <1>1, <1>6, <1>7, <1>8, <1>9, Copying!Folds
<1>11. /\ Valid(w, copied, "nothing") /\ copied.frame_size = size
       /\ RetStays(w, copied.meta, ret, ToSet(params))
       /\ \A j \in 1..n : /\ params[(n - j) + 1] \in DOMAIN copied.meta
                          /\ SlotAt(w, copied.meta[params[(n - j) + 1]], size)
  BY <1>10 DEF CopyGood, given
<1>12. \A v \in ToSet(params) : v \in DOMAIN copied.meta /\ SlotAt(w, copied.meta[v], size)
  <2>1. ASSUME NEW k \in 1..n
        PROVE  params[k] \in DOMAIN copied.meta /\ SlotAt(w, copied.meta[params[k]], size)
    <3>1. (n - k) + 1 \in 1..n /\ (n - ((n - k) + 1)) + 1 = k BY <1>1
    <3> HIDE DEF n
    <3> QED BY <1>11, <3>1
  <2> QED BY <1>1, <2>1 DEF ToSet
<1>13. KnownIn(w, copied.meta, {ret} \cup ToSet(params), size)
  <2>1. GivenAt(w, copied.meta[ret], 3) => GivenAt(w, copied.meta[ret], size)
    <3>1. 3 <= size BY <1>1, <1>2
    <3> QED BY <3>1 DEF GivenAt
  <2> QED BY <1>11, <1>12, <2>1 DEF KnownIn, PlaceAt, RetStays
<1> QED BY <1>11, <1>13 DEF copied, size

-----------------------------------------------------------------------------
(* The locals are made and dropped.                                        *)

PlaceGood(given, i, ctx) ==
  /\ Valid(given.w, ctx, "nothing") /\ ctx.frame_size = given.frame_size
  /\ KnownIn(given.w, ctx.meta, given.known, given.size)
  /\ Slotted(given.w, ctx.meta, {given.values[j] : j \in 1..i}, given.size)
Placing == INSTANCE Folding WITH op <- PlaceLocal, Good <- PlaceGood

LEMMA PlaceLocalsStays ==
  ASSUME NEW w, NEW c, NEW values, NEW known, NEW size \in Nat, Valid(w, c, "nothing"), IsSeq(values),
         w.own, KnownIn(w, c.meta, known, c.frame_size), c.frame_size + 3 * Len(values) <= size
  PROVE  LET placed == PlaceLocals(c, values)
         IN  /\ Valid(w, placed, "nothing") /\ placed.frame_size = c.frame_size
             /\ KnownIn(w, placed.meta, known, size)
             /\ Slotted(w, placed.meta, ToSet(values), size)
<1> DEFINE n == Len(values)
           all == [i \in DOMAIN values |-> [value |-> values[i], size |-> SizeOfValue * i]]
           given == [w |-> w, frame_size |-> c.frame_size, values |-> values, known |-> known, size |-> size]
           placed == PlaceLocals(c, values)
           these(i) == {values[j] : j \in 1..i}
<1>1. n \in Nat /\ DOMAIN values = 1..n BY SeqHas
<1>2. Len(all) = n /\ \A i \in 1..n : all[i].value = values[i] /\ all[i].size = 3 * i
  <2>1. \A i \in 1..n : all[i].value = values[i] /\ all[i].size = 3 * i BY <1>1 DEF SizeOfValue
  <2>2. all = [i \in 1..n |-> all[i]] BY <1>1
  <2> HIDE DEF all, n
  <2> QED BY <1>1, <2>1, <2>2, SeqBuilt
<1>3. c.frame_size \in Nat /\ IsCtx(c) /\ Links(w.in) <= c.frame_size BY ValidHas DEF DepthIn
<1>4. placed = Placing!Folded(c, all) BY DEF PlaceLocals, Through, Placing!Folded
<1>5. ASSUME NEW i, NEW ctx
      PROVE  PlaceGood(given, i, ctx) <=> /\ Valid(w, ctx, "nothing") /\ ctx.frame_size = c.frame_size
                                          /\ KnownIn(w, ctx.meta, known, size)
                                          /\ Slotted(w, ctx.meta, these(i), size)
  BY DEF PlaceGood
<1> HIDE DEF all, placed, given, n
<1>6. PlaceGood(given, 0, c)
  <2>1. KnownIn(w, c.meta, known, size)
    <3>1. c.frame_size <= size BY <1>1, <1>3 DEF n
    <3> QED BY <1>3, <3>1, PlaceStays DEF KnownIn
  <2>2. these(0) = {}
    <3>1. 1..0 = {} OBVIOUS
    <3> QED BY <3>1
  <2>3. Slotted(w, c.meta, {}, size) BY DEF Slotted
  <2> HIDE DEF these
  <2> QED BY <1>5, <2>1, <2>2, <2>3
<1>7. ASSUME NEW i \in 1..n, NEW ctx, PlaceGood(given, i - 1, ctx)
      PROVE  PlaceGood(given, i, PlaceLocal(ctx, all[i]))
  <2> DEFINE local == all[i]  o == 2 - (ctx.frame_size + local.size)  next == PlaceLocal(ctx, local)
  <2>1. next = MetaEmplace(ctx, local.value, Slot(o)) BY DEF PlaceLocal
  <2>2. local.value = values[i] /\ local.size = 3 * i BY <1>2
  <2>3. /\ Valid(w, ctx, "nothing") /\ ctx.frame_size = c.frame_size
        /\ KnownIn(w, ctx.meta, known, size) /\ Slotted(w, ctx.meta, these(i - 1), size)
    BY <1>5, <1>7
  <2>4. SlotAt(w, Slot(o), size)
    <3>1. Slot(o).kind = "slot" /\ Slot(o).offset = o BY DEF Slot
    <3> DEFINE fs == c.frame_size  k == Links(w.in)
    <3>2. o = 2 - (fs + 3 * i) BY <2>2, <2>3
    <3>3. k \in Nat /\ k <= fs /\ fs \in Nat /\ fs + 3 * n <= size /\ i <= n /\ i \in Nat /\ 1 <= i
      <4>1. k \in Nat
        <5>1. k = 2 \/ k = 3 BY LinksIs
        <5> QED BY <5>1
      <4> QED BY <1>1, <1>3, <4>1 DEF n
    <3> HIDE DEF fs, k, o
    <3>4. o \in Int /\ 2 - size <= o /\ o + k < 0 BY <1>1, <3>2, <3>3
    <3> QED BY <3>1, <3>4 DEF SlotAt, k
  <2> HIDE DEF o, next, local
  <2>5. /\ Valid(w, next, "nothing") /\ next.frame_size = ctx.frame_size
        /\ next.meta = Extended(ctx.meta, values[i], Slot(o))
    BY <2>1, <2>2, <2>3, MetaEmplaceStays
  <2>6. these(i) = these(i - 1) \cup {values[i]}
    <3>1. 1..i = 1..(i - 1) \cup {i} BY <1>1
    <3> QED BY <3>1
  <2> HIDE DEF these
  <2>7. KnownIn(w, next.meta, known, size) BY <2>3, <2>4, <2>5, KnownStays
  <2>8. Slotted(w, next.meta, these(i), size)
    <3>1. Slotted(w, Extended(ctx.meta, values[i], Slot(o)), these(i - 1) \cup {values[i]}, size)
      BY <2>3, <2>4, KnownStays
    <3> QED BY <2>5, <2>6, <3>1
  <2> QED BY <1>5, <2>3, <2>5, <2>7, <2>8 DEF next, local
<1>8. PlaceGood(given, n, placed) BY <1>1, <1>2, <1>4, <1>6, <1>7, Placing!Folds
<1>9. these(n) = ToSet(values) BY <1>1 DEF ToSet
<1> HIDE DEF these
<1> QED BY <1>5, <1>8, <1>9 DEF placed

LEMMA MakeVoidStays ==
  ASSUME NEW w, NEW c, NEW value, Ready(w, c, value)
  PROVE  Stays(w, c, MakeVoid(c, value), "nothing")
<1> DEFINE d == c.frame_size
           a == ValueReg(c.meta[value], "rdi")
           b == <<"call", Runtime(<<"make", "void">>)>>
<1>1. Valid(w, c, "nothing") /\ DepthIn(w, d) /\ d % 2 = 0 /\ PlaceAt(w, c.meta[value], d)
  BY ValidHas DEF Ready, Even
<1>2. Steady(w, d, "nothing", a, "place") BY <1>1, ValueRegSteady
<1>3. Steady(w, d, "place", b, "nothing") BY <1>1, SteadyCalls DEF Runtime
<1>4. MakeVoid(c, value) = EmitAll(c, <<a, b>>) BY DEF MakeVoid
<1> HIDE DEF a, b
<1> QED BY <1>1, <1>2, <1>3, <1>4, Emits2

Making == INSTANCE Folding WITH op <- MakeVoid, Good <- StaysGood

(* The locals are placed behind what is known; there is room for them.     *)
LEMMA LocalsInitEnters ==
  ASSUME NEW w, NEW sub, NEW c, NEW values, NEW known, Valid(w, c, "nothing"), IsSeq(values),
         w.own, w.in = TheBody(w.in[2]), KnownIn(w, c.meta, known, c.frame_size),
         FrameOf(w.p, w.in[2]) = Aligned(c.frame_size + SizeOfValue * Len(values)),
         ValuesOf(sub) \subseteq known \cup ToSet(values), LocalsOf(sub) \subseteq ToSet(values)
  PROVE  InFrame(w, sub, LocalsInit(c, w.in[2], values))
<1> DEFINE f == w.in[2]
           size == Aligned(c.frame_size + SizeOfValue * Len(values))
           named == Label(c, At(f, "init"))
           placed == PlaceLocals(named, values)
           start == Reserve(placed, size)
           ready == LocalsInit(c, f, values)
           given == [w |-> w, c |-> start]
<1>1. size \in Nat /\ size % 2 = 0 /\ c.frame_size <= size /\ c.frame_size + 3 * Len(values) <= size
  <2>1. c.frame_size \in Nat /\ Len(values) \in Nat BY SeqHas, ValidHas
  <2>2. c.frame_size + SizeOfValue * Len(values) \in Nat
        /\ c.frame_size <= c.frame_size + SizeOfValue * Len(values)
        /\ c.frame_size + SizeOfValue * Len(values) = c.frame_size + 3 * Len(values)
    BY <2>1 DEF SizeOfValue
  <2>3. c.frame_size + SizeOfValue * Len(values) <= size /\ size \in Nat /\ size % 2 = 0
    BY <2>2, AlignedIs
  <2> QED BY <2>1, <2>2, <2>3
<1>2. ready = Making!Folded(start, values) BY DEF LocalsInit, Through, Making!Folded
<1>3. FrameOf(w.p, f) = size OBVIOUS
<1> HIDE DEF size, ready, given
<1>4. Valid(w, named, "nothing") /\ named.frame_size = c.frame_size /\ named.meta = c.meta
  <2>1. ~IsStart(At(f, "init")) /\ ~InBody(At(f, "init")) /\ At(f, "init")[1] # "E"
    BY DEF IsStart, InBody, At
  <2> QED BY <2>1, LabelStays DEF Stays
<1> HIDE DEF named
<1>5. /\ Valid(w, placed, "nothing") /\ placed.frame_size = c.frame_size
      /\ KnownIn(w, placed.meta, known, size) /\ Slotted(w, placed.meta, ToSet(values), size)
  BY <1>1, <1>4, PlaceLocalsStays
<1> HIDE DEF placed
<1>6. Valid(w, start, "nothing") /\ start.frame_size = size /\ start.meta = placed.meta
  BY <1>1, <1>5, ReserveReserves
<1> HIDE DEF start
<1>7. StaysGood(given, 0, start) BY <1>6 DEF StaysGood, Stays, given
<1>8. ASSUME NEW i \in 1..Len(values), NEW ctx, StaysGood(given, i - 1, ctx)
      PROVE  StaysGood(given, i, MakeVoid(ctx, values[i]))
  <2> DEFINE value == values[i]
  <2>1. Valid(w, ctx, "nothing") /\ ctx.frame_size = start.frame_size /\ ctx.meta = start.meta
    BY <1>8 DEF StaysGood, Stays, given
  <2>2. value \in ToSet(values)
    <3>1. DOMAIN values = 1..Len(values) BY SeqHas
    <3> QED BY <3>1 DEF ToSet
  <2> HIDE DEF value
  <2>3. Ready(w, ctx, value)
    <3>1. SlotAt(w, ctx.meta[value], size) BY <1>5, <1>6, <2>1, <2>2 DEF Slotted
    <3> QED BY <1>1, <1>6, <2>1, <3>1 DEF Ready, Even, PlaceAt
  <2>4. Stays(w, ctx, MakeVoid(ctx, value), "nothing") BY <2>3, MakeVoidStays
  <2> QED BY <2>1, <2>4 DEF StaysGood, Stays, value, given
<1>9. StaysGood(given, Len(values), ready)
  <2>1. Len(values) \in Nat BY SeqHas
  <2> QED BY <1>2, <1>7, <1>8, <2>1, Making!Folds
<1>10. Valid(w, ready, "nothing") /\ ready.frame_size = size /\ ready.meta = placed.meta
  BY <1>6, <1>9 DEF StaysGood, Stays, given
<1>11. Even(ready) BY <1>1, <1>10 DEF Even
<1>12. InFrameOf(w, ready.frame_size)
  <2>1. w.in[1] = "sub" BY DEF TheBody
  <2> QED BY <1>3, <1>10, <2>1 DEF InFrameOf
<1>13. HasPlaces(w, ready.meta, ValuesOf(sub), size)
  BY <1>5, <1>10 DEF HasPlaces, KnownIn, Slotted, PlaceAt
<1>14. HasSlots(w, ready.meta, LocalsOf(sub), size) BY <1>5, <1>10 DEF HasSlots, Slotted
<1> QED BY <1>10, <1>11, <1>12, <1>13, <1>14 DEF InFrame, ready

LEMMA DropLocalStays ==
  ASSUME NEW w, NEW sub, NEW c, NEW value \in LocalsOf(sub), InFrame(w, sub, c)
  PROVE  Stays(w, c, DropLocal(c, value), "nothing")
<1> DEFINE d == c.frame_size
           o == c.meta[value].offset
           a == <<"mov", Mem(o + 1, "rbp"), Reg("rax")>>
           b == <<"mov", Entry("op_drop"), Reg("rax")>>
           e == <<"lea", Mem(o, "rbp"), Reg("rdi")>>
           x == <<"call", Reg("rax")>>
<1>1. Valid(w, c, "nothing") /\ DepthIn(w, d) /\ d % 2 = 0 BY ValidHas DEF InFrame, Even
<1>2. o \in Int /\ w.own /\ 2 - d <= o /\ o + Links(w.in) < 0 BY DEF InFrame, HasSlots, SlotAt
<1>3. Steady(w, d, "nothing", a, "nothing") /\ Steady(w, d, "nothing", b, "nothing")
  BY <1>1, SteadyLoads
<1>4. Steady(w, d, "nothing", e, "place")
  <2> HIDE DEF d, o
  <2> QED BY <1>1, <1>2, SteadyFinds
<1>5. Steady(w, d, "place", x, "nothing") BY <1>1, SteadyCalls
<1>6. DropLocal(c, value) = EmitAll(c, <<a, b, e, x>>) BY DEF DropLocal
<1> HIDE DEF a, b, e, x
<1> QED BY <1>1, <1>3, <1>4, <1>5, <1>6, Emits4

Leaving == INSTANCE Folding WITH op <- DropLocal, Good <- BodyGood

LEMMA LocalsDeinitStays ==
  ASSUME NEW w, NEW sub, NEW c, NEW values, InFrame(w, sub, c), IsSeq(values),
         ToSet(values) \subseteq LocalsOf(sub)
  PROVE  InFrame(w, sub, LocalsDeinit(c, w.in[2], values))
<1> DEFINE f == w.in[2]
           start == Label(c, At(f, "deinit"))
           done == LocalsDeinit(c, f, values)
           given == [w |-> w, sub |-> sub]
<1>1. InFrame(w, sub, start)
  <2>1. ~IsStart(At(f, "deinit")) /\ At(f, "deinit")[2] = f /\ At(f, "deinit")[1] # "E"
    BY DEF IsStart, At
  <2>2. w.own BY DEF InFrame, InFrameOf
  <2>3. Stays(w, c, start, "nothing") BY <2>1, <2>2, LabelStays DEF InFrame
  <2> QED BY <2>3, InFrameStays
<1>2. done = Leaving!Folded(start, values) BY DEF LocalsDeinit, Through, Leaving!Folded
<1> HIDE DEF start, done, given
<1>3. BodyGood(given, 0, start) BY <1>1 DEF BodyGood, given
<1>4. ASSUME NEW i \in 1..Len(values), NEW ctx, BodyGood(given, i - 1, ctx)
      PROVE  BodyGood(given, i, DropLocal(ctx, values[i]))
  <2> DEFINE value == values[i]
  <2>1. value \in LocalsOf(sub)
    <3>1. DOMAIN values = 1..Len(values) BY SeqHas
    <3> QED BY <3>1 DEF ToSet
  <2> HIDE DEF value
  <2>2. InFrame(w, sub, ctx) BY <1>4 DEF BodyGood, given
  <2>3. InFrame(w, sub, DropLocal(ctx, value)) BY <2>1, <2>2, DropLocalStays, InFrameStays
  <2> QED BY <2>3 DEF BodyGood, value, given
<1>5. BodyGood(given, Len(values), done)
  <2>1. Len(values) \in Nat BY SeqHas
  <2> QED BY <1>2, <1>3, <1>4, <2>1, Leaving!Folds
<1> QED BY <1>5 DEF BodyGood, given, done

-----------------------------------------------------------------------------
(* Leaving it.                                                             *)

LEMMA NextLeads ==
  ASSUME NEW p, NEW text, NEW instr, NEW s, NEW t, LeadsTo(p, text, s), Fits(p, instr, s, t, FALSE)
  PROVE  LeadsTo(p, text \o <<instr>>, t)
<1> DEFINE odd == OddForeignAt(p, text \o <<instr>>, Len(text) + 1)
<1>1. Fits(p, instr, s, t, odd)
  <2> HIDE DEF odd
  <2> QED BY FitsOdd
<1> QED BY <1>1, Appended

LEMMA MoreOneByOne ==
  ASSUME NEW text, IsSeq(text)
  PROVE  /\ \A a, b : text \o <<a, b>> = (text \o <<a>>) \o <<b>>
         /\ \A a, b, x : text \o <<a, b, x>> = ((text \o <<a>>) \o <<b>>) \o <<x>>
<1>1. ASSUME NEW a, NEW b PROVE text \o (<<a>> \o <<b>>) = (text \o <<a>>) \o <<b>>
  BY TupleIs, ConcatAgain
<1>2. ASSUME NEW a, NEW b, NEW x PROVE text \o (<<a, b>> \o <<x>>) = (text \o <<a, b>>) \o <<x>>
  BY TupleIs, ConcatAgain
<1>3. ASSUME NEW a, NEW b PROVE <<a>> \o <<b>> = <<a, b>> BY ConcatTuples
<1>4. ASSUME NEW a, NEW b, NEW x PROVE <<a, b>> \o <<x>> = <<a, b, x>> BY ConcatTuples
<1>5. ASSUME NEW a, NEW b PROVE text \o <<a, b>> = (text \o <<a>>) \o <<b>> BY <1>1, <1>3
<1> QED
  <2>1. \A a, b : text \o <<a, b>> = (text \o <<a>>) \o <<b>>
    <3> TAKE a, b
    <3> QED BY <1>5
  <2>2. \A a, b, x : text \o <<a, b, x>> = ((text \o <<a>>) \o <<b>>) \o <<x>>
    <3> TAKE a, b, x
    <3>1. text \o (<<a, b>> \o <<x>>) = (text \o <<a, b>>) \o <<x>> BY <1>2
    <3>2. <<a, b>> \o <<x>> = <<a, b, x>> BY <1>4
    <3>3. text \o <<a, b>> = (text \o <<a>>) \o <<b>> BY <1>5
    <3> QED BY <3>1, <3>2, <3>3
  <2> QED BY <2>1, <2>2

LEMMA Ended ==
  ASSUME NEW p, NEW c, NEW instrs, IsCtx(c), c.externs = p.externs, \A t : LeadsTo(p, c.text \o instrs, t)
  PROVE  Between(p, EmitAll(c, instrs))
<1> DEFINE ctx == EmitAll(c, instrs)
<1>1. IsCtx(ctx) /\ ctx.externs = c.externs /\ ctx.text = c.text \o instrs
  BY DEF IsCtx, CtxFields, EmitAll
<1> QED BY <1>1 DEF Between

MayReturn(p, s) == \A t : Fits(p, <<"ret">>, s, t, FALSE)
LEMMA ReturnFits ==
  ASSUME NEW p, NEW s, Sensible(s), s.depth = 1
  PROVE  MayReturn(p, s)
<1> DEFINE instr == <<"ret">>
<1>1. instr[1] = "ret" OBVIOUS
<1> HIDE DEF instr
<1>2. s.in # Nobody BY DEF Nobody, Sensible
<1>3. \A t : Fits(p, instr, s, t, FALSE) BY <1>1, <1>2 DEF Fits, InstrFits, GoesOn
<1> QED BY <1>3 DEF MayReturn, instr

(* mov rsp, rbp leaves rbp and the return address, whatever is reserved.   *)
LEMMA EpilogueEnds ==
  ASSUME NEW w, NEW sub, NEW c, InFrame(w, sub, c)
  PROVE  Between(w.p, Epilogue(c, w.in[2]))
<1> DEFINE p == w.p
           f == w.in[2]
           start == Label(c, At(f, "epilogue"))
           d == start.frame_size
           a == GivesBack
           b == RestoresBase
           e == <<"ret">>
           s1 == StateIn(w, d, "nothing")
           s2 == State(2, w.in, TRUE, "nothing")
           s3 == State(1, w.in, FALSE, "nothing")
           text == start.text
<1>1. w.own /\ w.in[1] = "sub" BY DEF InFrame, InFrameOf
<1>2. Valid(w, start, "nothing")
  <2>1. ~IsStart(At(f, "epilogue")) /\ At(f, "epilogue")[2] = f /\ At(f, "epilogue")[1] # "E"
    BY DEF IsStart, At
  <2> QED BY <1>1, <2>1, LabelStays DEF InFrame, Stays
<1>3. Epilogue(c, f) = EmitAll(start, <<a, b, e>>) BY DEF Epilogue, GivesBack, RestoresBase
<1> HIDE DEF start
<1>4. /\ DepthIn(w, d) /\ LeadsTo(p, text, s1) /\ IsSeq(text) /\ IsCtx(start) /\ start.externs = p.externs
  BY <1>2, ValidHas
<1>5. /\ s1.depth = d /\ s1.in = w.in /\ s1.own = w.own
      /\ s2.depth = 2 /\ s2.in = w.in /\ s2.own = TRUE /\ s2.knows = "nothing"
      /\ s3.depth = 1 /\ s3.in = w.in /\ s3.own = FALSE /\ s3.knows = "nothing"
  BY StateInIs DEF State
<1>6. s1.own /\ s2.own /\ s2.own \in BOOLEAN /\ ~s3.own BY <1>1, <1>5
<1>7. /\ a[1] = "mov" /\ a[2] = Reg("rbp") /\ a[3] = Reg("rsp") /\ a # SetsBase /\ a # RestoresBase
      /\ b[1] = "pop" /\ b[2][2] = "rbp" /\ b # SetsBase /\ b # GivesBack
  BY DEF GivesBack, RestoresBase, SetsBase, Reg
<1>8. w.in # Nobody BY <1>1 DEF Nobody
<1>9. Sensible(s1) BY <1>4, DepthHas
<1> HIDE DEF d, s1, s2, a, b, text
<1>10. Fits(p, a, s1, s2, FALSE)
  <2>1. MoveFits(a, s1) BY <1>6 DEF MoveFits, a
  <2>2. InstrFits(p, a, s1, FALSE) BY <1>7, <1>9, <2>1 DEF InstrFits
  <2>3. Behind(a, s1.depth) = 2 BY <1>7 DEF Behind, a
  <2>4. OwnBehind(a, s1.own) = TRUE BY <1>6, <1>7 DEF OwnBehind
  <2>5. KnowsBehind(a, s1, "nothing") BY DEF KnowsBehind
  <2>6. Follows(a, s1, s2) BY <1>5, <2>3, <2>4, <2>5 DEF Follows
  <2> QED BY <1>5, <1>8, <2>2, <2>6 DEF Fits
<1>11. Fits(p, b, s2, s3, FALSE)
  <2>1. s2.depth \in Nat \ {0} /\ s2.depth >= 2 BY <1>5
  <2>2. Sensible(s2) BY <1>1, <1>5, <1>6, <2>1 DEF Sensible
  <2>3. PopFits(b, s2) BY <1>5, <1>6, <1>7, <2>1 DEF PopFits, b
  <2>4. InstrFits(p, b, s2, FALSE) BY <1>7, <2>2, <2>3 DEF InstrFits
  <2>5. Behind(b, 2) = 1 BY <1>7 DEF Behind
  <2>6. OwnBehind(b, s2.own) = FALSE BY DEF OwnBehind, b
  <2>7. KnowsBehind(b, s2, "nothing") BY DEF KnowsBehind
  <2>8. Follows(b, s2, s3) BY <1>5, <2>5, <2>6, <2>7 DEF Follows
  <2> QED BY <1>5, <1>8, <2>4, <2>8 DEF Fits
<1>12. ASSUME NEW t PROVE Fits(p, e, s3, t, FALSE)
  <2> HIDE DEF s3
  <2>1. s3.depth = 1 /\ s3.depth \in Nat \ {0} BY <1>5
  <2>2. ~s3.own /\ s3.own \in BOOLEAN BY <1>5
  <2>3. Sensible(s3) BY <1>1, <1>5, <2>1, <2>2 DEF Sensible
  <2> QED BY <2>1, <2>3, ReturnFits DEF MayReturn
<1> HIDE DEF s3, e
<1>13. ASSUME NEW t PROVE LeadsTo(p, text \o <<a, b, e>>, t)
  <2>1. LeadsTo(p, text \o <<a>>, s2) BY <1>4, <1>10, NextLeads
  <2>2. LeadsTo(p, (text \o <<a>>) \o <<b>>, s3) BY <1>11, <2>1, NextLeads
  <2>3. LeadsTo(p, ((text \o <<a>>) \o <<b>>) \o <<e>>, t) BY <1>12, <2>2, NextLeads
  <2>4. text \o <<a, b, e>> = ((text \o <<a>>) \o <<b>>) \o <<e>> BY <1>4, MoreOneByOne
  <2> QED BY <2>3, <2>4
<1> QED BY <1>3, <1>4, <1>13, Ended DEF text

LEMMA ExitCodeStays ==
  ASSUME NEW w, NEW c, NEW sub, Valid(w, c, "nothing"), Even(c)
  PROVE  Stays(w, c, ExitCode(c, sub), "nothing")
<1>1. CASE sub.type = "int"
  <2> DEFINE d == c.frame_size
             a == ValueReg(c.meta[sub.ret], "rdi")
             b == <<"call", Runtime(<<"unwrap", "int">>)>>
             x == <<"mov", Reg("rax"), Reg("rdi")>>
  <2>1. DepthIn(w, d) /\ d % 2 = 0 BY ValidHas DEF Even
  <2>2. Steady(w, d, "nothing", a, "nothing") BY <2>1, ValueRegSteady
  <2>3. Steady(w, d, "nothing", b, "nothing")
    <3>1. <<"unwrap", "int">>[1] \in Quiet BY DEF Quiet
    <3> QED BY <2>1, <3>1, SteadyCalls
  <2>4. Steady(w, d, "nothing", x, "nothing") BY <2>1, SteadyLoads
  <2>5. ExitCode(c, sub) = EmitAll(c, <<a, b, x>>) BY <1>1 DEF ExitCode
  <2> HIDE DEF a, b, x
  <2> QED BY <2>2, <2>3, <2>4, <2>5, Emits3
<1>2. CASE sub.type # "int" BY <1>2, CgErrorStays DEF ExitCode
<1> QED BY <1>1, <1>2

LEMMA MainEpilogueEnds ==
  ASSUME NEW w, NEW sub, NEW c, InFrame(w, sub, c)
  PROVE  Between(w.p, MainEpilogue(c, w.in[2], sub))
<1> DEFINE p == w.p
           f == w.in[2]
           named == Label(c, At(f, "epilogue"))
           flushing == <<"call", Runtime(<<"flush">>)>>
           flushed == Emit(named, flushing)
           start == ExitCode(flushed, sub)
           a == <<"mov", Imm("60"), Reg("rax")>>
           b == <<"syscall">>
           d == start.frame_size
           s == StateIn(w, d, "nothing")
           text == start.text
<1>1. Valid(w, named, "nothing") /\ Even(named)
  <2>1. ~IsStart(At(f, "epilogue")) /\ At(f, "epilogue")[2] = f /\ At(f, "epilogue")[1] # "E"
    BY DEF IsStart, At
  <2>2. w.own BY DEF InFrame, InFrameOf
  <2> QED BY <2>1, <2>2, LabelStays DEF InFrame, Stays, Even
<1>2. MainEpilogue(c, f, sub) = EmitAll(start, <<a, b>>) BY DEF MainEpilogue
<1> HIDE DEF named
<1>3. Valid(w, flushed, "nothing") /\ Even(flushed)
  <2> DEFINE n == named.frame_size
  <2>1. DepthIn(w, n) /\ n % 2 = 0 BY <1>1, ValidHas DEF Even
  <2>2. <<"flush">>[1] \in Quiet BY DEF Quiet
  <2>3. Steady(w, n, "nothing", flushing, "nothing") BY <2>1, <2>2, SteadyCalls
  <2> HIDE DEF flushing
  <2> QED BY <1>1, <2>3, EmitStays DEF Stays, Even
<1> HIDE DEF flushed
<1>4. Valid(w, start, "nothing") BY <1>3, ExitCodeStays DEF Stays
<1> HIDE DEF start
<1>5. DepthIn(w, d) /\ LeadsTo(p, text, s) /\ IsSeq(text) /\ IsCtx(start) /\ start.externs = p.externs
  BY <1>4, ValidHas
<1>6. Fits(p, a, s, s, FALSE)
  <2>1. Steady(w, d, "nothing", a, "nothing") BY <1>5, SteadyLoads
  <2> QED BY <2>1 DEF Steady, Moves
<1>7. ASSUME NEW t PROVE Fits(p, b, s, t, FALSE)
  <2>1. b[1] = "syscall" OBVIOUS
  <2>2. Sensible(s) /\ s.in # Nobody BY <1>5, DepthHas, StateInIs
  <2> HIDE DEF b, s
  <2> QED BY <2>1, <2>2 DEF Fits, InstrFits, GoesOn
<1> HIDE DEF a, b, s, text
<1>8. ASSUME NEW t PROVE LeadsTo(p, text \o <<a, b>>, t)
  <2>1. LeadsTo(p, text \o <<a>>, s) BY <1>5, <1>6, NextLeads
  <2>2. LeadsTo(p, (text \o <<a>>) \o <<b>>, t) BY <1>7, <2>1, NextLeads
  <2>3. text \o <<a, b>> = (text \o <<a>>) \o <<b>> BY <1>5, MoreOneByOne
  <2> QED BY <2>2, <2>3
<1> QED BY <1>2, <1>5, <1>8, Ended DEF text

LEMMA PlacedIs ==
  ASSUME NEW ctx, NEW values, IsSeq(values)
  PROVE  IsSeq(Placed(ctx, values))
<1> DEFINE placed == Placed(ctx, values)  n == Len(values)
<1>1. n \in Nat /\ DOMAIN values = 1..n BY SeqHas
<1>2. placed = [i \in 1..n |-> [offset |-> ctx.meta[values[i]].offset, name |-> values[i]]]
  BY <1>1 DEF Placed
<1>3. placed = [i \in 1..n |-> placed[i]] BY <1>2
<1> HIDE DEF placed, n
<1>4. IsSeq(placed) BY <1>1, <1>3, SeqBuilt
<1> QED BY <1>4 DEF placed

LEMMA DebugSubStays ==
  ASSUME NEW p, NEW f, NEW sub, NEW c, Between(p, c), IsSub(sub)
  PROVE  Between(p, Remember(DebugSub(c, f, sub), f))
<1> DEFINE instr == <<"label", <<"E", f>>, c.frame_size>>
           ctx == Remember(DebugSub(c, f, sub), f)
           s == State(0, Nobody, FALSE, "nothing")
<1>1. IsCtx(ctx) /\ ctx.externs = c.externs /\ ctx.text = c.text \o <<instr>>
  <2> DEFINE ended  == Label(c, <<"E", f>>)
             params == Placed(c, sub.params)
             vars   == Placed(c, sub.vars)
             noted  == [start |-> <<"S", f>>, end |-> <<"E", f>>, name |-> f,
                        params |-> params, vars |-> vars]
  <2>1. IsCtx(c) /\ IsSeq(params) /\ IsSeq(vars) BY PlacedIs DEF Between, IsSub
  <2>2. /\ IsCtx(ended) /\ ended.externs = c.externs /\ ended.text = c.text \o <<instr>>
        /\ ended.subs = c.subs /\ ended.lines = c.lines
    BY <2>1 DEF IsCtx, CtxFields, Label, Emit, EmitAll
  <2>3. DebugSub(c, f, sub) = [ended EXCEPT !.subs = Append(@, noted)] BY DEF DebugSub
  <2> HIDE DEF params, vars, ended
  <2>4. IsSeq(noted.params) /\ IsSeq(noted.vars) BY <2>1
  <2> HIDE DEF noted
  <2>5. AreNotes(ended.lines, Append(ended.subs, noted)) BY <2>2, <2>4, SubNoted DEF IsCtx
  <2> QED BY <2>2, <2>3, <2>5 DEF IsCtx, CtxFields, Remember
<1>2. ASSUME NEW t PROVE LeadsTo(p, c.text \o <<instr>>, t)
  <2>1. Fits(p, instr, s, t, FALSE) BY DEF Fits, State
  <2>2. LeadsTo(p, c.text, s) BY DEF Between
  <2> HIDE DEF instr, s
  <2> QED BY <2>1, <2>2, NextLeads
<1> HIDE DEF instr, ctx
<1> QED BY <1>1, <1>2 DEF Between, ctx

-----------------------------------------------------------------------------
(* Subroutines.                                                            *)

LEMMA JoinedHas ==
  ASSUME NEW s, NEW t, IsSeq(s), IsSeq(t)
  PROVE  ToSet(s \o t) = ToSet(s) \cup ToSet(t)
<1> DEFINE all == s \o t  m == Len(s)  n == Len(t)
<1>1. m \in Nat /\ n \in Nat /\ DOMAIN s = 1..m /\ DOMAIN t = 1..n BY SeqHas
<1>2. Len(all) = m + n /\ IsSeq(all) BY ConcatIs
<1>3. DOMAIN all = 1..(m + n) BY <1>2, SeqHas
<1>4. \A i \in 1..m : all[i] = s[i] BY ConcatIs
<1>5. \A i \in 1..n : all[m + i] = t[i] BY ConcatIs
<1> HIDE DEF all, m, n
<1>6. ASSUME NEW x \in ToSet(s) PROVE x \in ToSet(all)
  <2>1. PICK i \in 1..m : x = s[i] BY <1>1 DEF ToSet
  <2>2. i \in 1..(m + n) /\ x = all[i] BY <1>1, <1>4, <2>1
  <2> QED BY <1>3, <2>2 DEF ToSet
<1>7. ASSUME NEW x \in ToSet(t) PROVE x \in ToSet(all)
  <2>1. PICK i \in 1..n : x = t[i] BY <1>1 DEF ToSet
  <2>2. m + i \in 1..(m + n) /\ x = all[m + i] BY <1>1, <1>5, <2>1
  <2> QED BY <1>3, <2>2 DEF ToSet
<1>8. ASSUME NEW x \in ToSet(all) PROVE x \in ToSet(s) \cup ToSet(t)
  <2>1. PICK i \in 1..(m + n) : x = all[i] BY <1>3, <1>8 DEF ToSet
  <2>2. CASE i <= m
    <3>1. i \in 1..m BY <1>1, <2>2
    <3>2. x = s[i] /\ i \in DOMAIN s BY <1>1, <1>4, <2>1, <3>1
    <3> QED BY <3>2 DEF ToSet
  <2>3. CASE ~(i <= m)
    <3>1. i - m \in 1..n /\ m + (i - m) = i BY <1>1, <2>3
    <3>2. x = t[i - m] /\ i - m \in DOMAIN t BY <1>1, <1>5, <2>1, <3>1
    <3> QED BY <3>2 DEF ToSet
  <2> QED BY <2>2, <2>3
<1> QED BY <1>6, <1>7, <1>8 DEF all

(* What is known behind the prologue of a subroutine that is not main.     *)
Copied(w, sub, c) ==
  /\ Valid(w, c, "nothing") /\ c.frame_size = Aligned(3 + SizeOfValue * Len(sub.params))
  /\ KnownIn(w, c.meta, {sub.ret} \cup ToSet(sub.params), c.frame_size)

LEMMA SubDefEnteredEnters ==
  ASSUME NEW p, NEW f, NEW sub, NEW c, f # "main", Between(p, c), IsSeq(sub.params)
  PROVE  Copied(Within(p, f), sub, SubDefEntered(c, f, sub))
<1> DEFINE w == Within(p, f)
           start == Start(c, f)
           begun == Prologue(start)
           kept == Keep(begun, [value |-> sub.ret, from |-> Reg("rdi")])
           params == sub.params
           ret == sub.ret
           all == KeepParams(kept, params)
           copied == ParamsCopy(all, f, params)
<1>1. SubDefEntered(c, f, sub) = copied BY DEF SubDefEntered
<1>2. Reached(p, start, State(1, TheBody(f), FALSE, OnEntry(f))) BY StartStarts
<1>3. Reached(p, start, State(1, TheBody(f), FALSE, "place")) BY <1>2 DEF OnEntry
<1> HIDE DEF start
<1>4. Reached(p, begun, State(2, TheBody(f), TRUE, "place")) BY <1>3, PrologueEnters
<1> HIDE DEF begun
<1>5. Valid(w, kept, "nothing") /\ kept.frame_size = 3 /\ RetStays(w, kept.meta, ret, ToSet(params))
  <2>1. /\ Valid(w, kept, "nothing") /\ kept.frame_size = 3
        /\ ret \in DOMAIN kept.meta /\ GivenAt(w, kept.meta[ret], 3)
    BY <1>4, KeepRetKeeps
  <2> HIDE DEF kept, w, ret, params
  <2> QED BY <2>1 DEF RetStays
<1>6. IsSeq(params) OBVIOUS
<1>7. w.own /\ Links(w.in) = 3 BY WithinIs
<1> HIDE DEF kept, w, ret, params
<1>8. /\ Valid(w, all, "nothing") /\ all.frame_size = 3 + Len(params)
      /\ RetStays(w, all.meta, ret, ToSet(params))
  BY <1>5, <1>6, KeepParamsKeeps
<1> HIDE DEF all
<1>9. /\ Valid(w, copied, "nothing")
      /\ copied.frame_size = Aligned(3 + SizeOfValue * Len(params))
      /\ KnownIn(w, copied.meta, {ret} \cup ToSet(params), copied.frame_size)
  BY <1>6, <1>7, <1>8, ParamsCopyCopies
<1> HIDE DEF copied
<1>10. Valid(w, copied, "nothing") /\ copied.frame_size = Aligned(3 + SizeOfValue * Len(params))
  BY <1>9
<1>11. KnownIn(w, copied.meta, {ret} \cup ToSet(params), copied.frame_size) BY <1>9
<1>12. Copied(w, sub, copied) BY <1>10, <1>11 DEF Copied, params, ret
<1> QED BY <1>1, <1>12 DEF w

(* What all subroutines have behind their prologue.                        *)
LEMMA BodyStays ==
  ASSUME NEW w, NEW sub, NEW c, NEW known, NEW inits, Valid(w, c, "nothing"), IsSub(sub), IsSeq(inits),
         w.own, w.in = TheBody(w.in[2]), KnownIn(w, c.meta, known, c.frame_size),
         FrameOf(w.p, w.in[2]) = Aligned(c.frame_size + SizeOfValue * Len(inits)),
         ValuesOf(sub) \subseteq known \cup ToSet(inits), LocalsOf(sub) \subseteq ToSet(inits)
  PROVE  InFrame(w, sub, LocalsDeinit(InstBBs(LocalsInit(c, w.in[2], inits), w.in[2], sub.bbs), w.in[2],
                                      sub.vars \o sub.tmps))
<1> DEFINE f == w.in[2]
           locals == sub.vars \o sub.tmps
           ready == LocalsInit(c, f, inits)
           done == InstBBs(ready, f, sub.bbs)
<1>1. InFrame(w, sub, ready) BY LocalsInitEnters
<1> HIDE DEF ready
<1>2. InFrame(w, sub, done) BY <1>1, InstBBsStays DEF IsSub
<1> HIDE DEF done
<1>3. IsSeq(locals) /\ ToSet(locals) \subseteq LocalsOf(sub) BY ConcatIs, JoinedHas DEF IsSub, LocalsOf
<1> HIDE DEF locals
<1>4. InFrame(w, sub, LocalsDeinit(done, f, locals)) BY <1>2, <1>3, LocalsDeinitStays
<1> QED BY <1>4 DEF done, ready, locals

LEMMA SubDefStays ==
  ASSUME NEW p, NEW f, NEW c, Between(p, c), f # "main", IsSub(p.subs[f])
  PROVE  Between(p, SubDef(c, f, p.subs[f]))
<1> DEFINE sub == p.subs[f]
           w == Within(p, f)
           locals == sub.vars \o sub.tmps
           known == {sub.ret} \cup ToSet(sub.params)
           entered == SubDefEntered(c, f, sub)
           left == LocalsDeinit(InstBBs(LocalsInit(entered, f, locals), f, sub.bbs), f, locals)
           ended == Epilogue(left, f)
<1>1. SubDef(c, f, sub) = Remember(DebugSub(ended, f, sub), f) BY DEF SubDef
<1>2. Copied(w, sub, entered)
  <2>1. IsSeq(sub.params) BY DEF IsSub
  <2> HIDE DEF sub
  <2> QED BY <2>1, SubDefEnteredEnters
<1>3. IsSeq(locals) /\ Len(locals) = Len(sub.vars) + Len(sub.tmps) BY ConcatIs DEF IsSub
<1>4. FrameOf(p, f) = Aligned(entered.frame_size + SizeOfValue * Len(locals))
  <2>1. entered.frame_size = Aligned(3 + SizeOfValue * Len(sub.params)) BY <1>2 DEF Copied
  <2> HIDE DEF entered
  <2> QED BY <1>3, <2>1 DEF FrameOf
<1>5. Valid(w, entered, "nothing") /\ KnownIn(w, entered.meta, known, entered.frame_size)
  BY <1>2 DEF Copied
<1>6. ToSet(locals) = ToSet(sub.vars) \cup ToSet(sub.tmps) BY JoinedHas DEF IsSub
<1>7. ValuesOf(sub) \subseteq known \cup ToSet(locals) /\ LocalsOf(sub) \subseteq ToSet(locals)
  BY <1>6 DEF ValuesOf, LocalsOf
<1>8. w.own /\ w.in = TheBody(f) /\ w.in[2] = f /\ w.p = p /\ TheBody(w.in[2]) = w.in BY WithinIs
<1>9. IsSub(sub) OBVIOUS
<1> HIDE DEF w, entered, known, sub
<1>10. InFrame(w, sub, left)
  <2>1. FrameOf(w.p, w.in[2]) = Aligned(entered.frame_size + SizeOfValue * Len(locals)) BY <1>4, <1>8
  <2> HIDE DEF locals
  <2>2. InFrame(w, sub, LocalsDeinit(InstBBs(LocalsInit(entered, w.in[2], locals), w.in[2], sub.bbs),
                                     w.in[2], sub.vars \o sub.tmps))
    BY <1>3, <1>5, <1>7, <1>8, <1>9, <2>1, BodyStays
  <2> QED BY <1>8, <2>2 DEF locals
<1> HIDE DEF left
<1>11. Between(p, ended) BY <1>8, <1>10, EpilogueEnds
<1> HIDE DEF ended
<1> QED BY <1>1, <1>9, <1>11, DebugSubStays DEF sub

LEMMA SubMainStays ==
  ASSUME NEW p, NEW f, NEW c, Between(p, c), f = "main", IsSub(p.subs[f]), p.subs[f].params = <<>>
  PROVE  Between(p, SubMain(c, f, p.subs[f]))
<1> DEFINE sub == p.subs[f]
           w == Within(p, f)
           vars == sub.vars
           tmps == sub.tmps
           locals == vars \o tmps
           first == <<sub.ret>>
           inits == (first \o vars) \o tmps
           start == Start(c, f)
           entered == Prologue(start)
           left == LocalsDeinit(InstBBs(LocalsInit(entered, f, inits), f, sub.bbs), f, locals)
           ended == MainEpilogue(left, f, sub)
<1>1. SubMain(c, f, sub) = Remember(DebugSub(ended, f, sub), f) BY DEF SubMain
<1>2. Reached(p, start, State(1, TheBody(f), FALSE, "nothing"))
  <2>1. Reached(p, start, State(1, TheBody(f), FALSE, OnEntry(f))) BY StartStarts
  <2> QED BY <2>1 DEF OnEntry
<1> HIDE DEF start
<1>3. Reached(p, entered, State(2, TheBody(f), TRUE, "nothing")) BY <1>2, PrologueEnters
<1> HIDE DEF entered
<1>4. /\ w.own /\ w.in = TheBody(f) /\ w.in[2] = f /\ w.p = p /\ TheBody(w.in[2]) = w.in
      /\ Links(w.in) = 2 /\ IsWhere(w)
  BY WithinIs
<1>5. entered.frame_size = 2 /\ Valid(w, entered, "nothing")
  <2> DEFINE s == State(2, TheBody(f), TRUE, "nothing")
  <2>1. s.depth = 2 BY DEF State
  <2>2. entered.frame_size = 2 BY <1>3, <2>1 DEF Reached
  <2>3. s = StateIn(w, 2, "nothing")
    <3>1. w.own = TRUE BY DEF Within
    <3> QED BY <1>4, <3>1 DEF StateIn
  <2> HIDE DEF s
  <2>4. DepthIn(w, 2) BY <1>4 DEF DepthIn
  <2>5. Reached(p, entered, s) BY <1>3 DEF s
  <2> QED BY <1>4, <2>2, <2>3, <2>4, <2>5 DEF Valid
<1>6. /\ IsSeq(inits) /\ Len(inits) = 1 + Len(vars) + Len(tmps)
      /\ ToSet(inits) = {sub.ret} \cup ToSet(vars) \cup ToSet(tmps)
  <2>1. IsSeq(first) /\ Len(first) = 1 BY TupleIs
  <2>2. IsSeq(vars) /\ IsSeq(tmps) BY DEF IsSub
  <2>3. ToSet(first) = {sub.ret} BY DEF ToSet
  <2> HIDE DEF first, vars, tmps
  <2>4. IsSeq(first \o vars) /\ Len(first \o vars) = 1 + Len(vars)
    <3>1. IsSeq(first \o vars) /\ Len(first \o vars) = Len(first) + Len(vars)
      BY <2>1, <2>2, ConcatIs
    <3> QED BY <2>1, <3>1
  <2>5. IsSeq(inits) /\ Len(inits) = 1 + Len(vars) + Len(tmps) BY <2>2, <2>4, ConcatIs
  <2>6. ToSet(inits) = ToSet(first \o vars) \cup ToSet(tmps) BY <2>2, <2>4, JoinedHas
  <2>7. ToSet(first \o vars) = ToSet(first) \cup ToSet(vars) BY <2>1, <2>2, JoinedHas
  <2> QED BY <2>3, <2>5, <2>6, <2>7
<1>7. FrameOf(p, f) = Aligned(entered.frame_size + SizeOfValue * Len(inits))
  <2> DEFINE v == Len(vars)  t == Len(tmps)
  <2>1. v \in Nat /\ t \in Nat
    <3>1. IsSeq(vars) /\ IsSeq(tmps) BY DEF IsSub
    <3> QED BY <3>1, SeqHas
  <2>2. 2 + SizeOfValue + SizeOfValue * (Len(vars) + Len(tmps)) = 2 + SizeOfValue * Len(inits)
    <3>1. Len(inits) = 1 + v + t BY <1>6
    <3> HIDE DEF inits, v, t
    <3>2. 2 + SizeOfValue + SizeOfValue * (v + t) = 2 + SizeOfValue * Len(inits)
      BY <2>1, <3>1 DEF SizeOfValue
    <3> QED BY <3>2 DEF v, t
  <2> QED BY <1>5, <2>2 DEF FrameOf
<1>8. ValuesOf(sub) \subseteq {} \cup ToSet(inits) /\ LocalsOf(sub) \subseteq ToSet(inits)
  <2>1. ToSet(sub.params) = {} BY DEF ToSet
  <2> HIDE DEF inits
  <2> QED BY <1>6, <2>1 DEF ValuesOf, LocalsOf
<1>9. IsSub(sub) /\ KnownIn(w, entered.meta, {}, entered.frame_size) BY DEF KnownIn
<1> HIDE DEF inits, w, sub
<1>10. InFrame(w, sub, left)
  <2>1. InFrame(w, sub, LocalsDeinit(InstBBs(LocalsInit(entered, w.in[2], inits), w.in[2], sub.bbs),
                                     w.in[2], sub.vars \o sub.tmps))
    BY <1>4, <1>5, <1>6, <1>7, <1>8, <1>9, BodyStays
  <2> QED BY <1>4, <2>1
<1> HIDE DEF left
<1>11. Between(p, ended)
  <2>1. Between(w.p, MainEpilogue(left, w.in[2], sub)) BY <1>10, MainEpilogueEnds
  <2> QED BY <1>4, <2>1
<1> HIDE DEF ended
<1> QED BY <1>1, <1>9, <1>11, DebugSubStays DEF sub

-----------------------------------------------------------------------------
(* Classes.                                                                *)

Initialising(p, name) == [p |-> p, in |-> <<"init", name>>, own |-> FALSE]

LEMMA InitialisingIs ==
  ASSUME NEW p, NEW name
  PROVE  /\ IsWhere(Initialising(p, name)) /\ Initialising(p, name).p = p /\ ~Initialising(p, name).own
         /\ Initialising(p, name).in = <<"init", name>> /\ Initialising(p, name).in[1] = "init"
         /\ Links(Initialising(p, name).in) = 2
BY DEF Initialising, IsWhere, Links

(* The object that is to be made is given in rdi, and kept.                *)
Begun(p, c, name) == Pushq(Label([c EXCEPT !.frame_size = 1], <<"init", name>>), Reg("rdi"))

LEMMA ClassBegins ==
  ASSUME NEW p, NEW c, NEW name, Between(p, c)
  PROVE  Valid(Initialising(p, name), Begun(p, c, name), "nothing") /\ Begun(p, c, name).frame_size = 2
<1> DEFINE w == Initialising(p, name)
           in == <<"init", name>>
           s == State(1, in, FALSE, "place")
           t == StateIn(w, 2, "nothing")
           reset == [c EXCEPT !.frame_size = 1]
           named == Label(reset, in)
           instr == <<"push", Reg("rdi")>>
           kept == Pushq(named, Reg("rdi"))
<1>1. IsWhere(w) /\ w.p = p /\ ~w.own /\ w.in = in /\ w.in[1] = "init" /\ Links(w.in) = 2
  BY InitialisingIs
<1>2. s.depth = 1 /\ s.in = in /\ s.own = FALSE /\ s.knows = "place" BY DEF State
<1>3. t.depth = 2 /\ t.in = w.in /\ t.own = w.own /\ t.knows = "nothing" BY StateInIs
<1>4. in[1] = "init" /\ in # TheBody("main") /\ in # Nobody BY DEF TheBody, Nobody
<1>5. kept = Begun(p, c, name) BY DEF Begun
<1> HIDE DEF w, s, t, in
<1>6. ~s.own /\ s.own \in BOOLEAN BY <1>2
<1>7. Sensible(s)
  <2>1. s.depth \in Nat \ {0} BY <1>2
  <2> QED BY <1>2, <1>4, <1>6, <2>1 DEF Sensible
<1>8. Reached(p, reset, s) /\ reset.frame_size = 1
  <2>1. IsCtx(reset) /\ reset.externs = c.externs /\ reset.frame_size = 1 /\ reset.text = c.text
    BY DEF Between, IsCtx, CtxFields
  <2> HIDE DEF reset
  <2> QED BY <1>2, <2>1 DEF Between, Reached
<1> HIDE DEF reset
<1>9. Reached(p, named, s)
  <2>1. LabelFits(p, <<"label", in, 1>>, s)
    BY <1>2, <1>4, <1>6 DEF LabelFits, IsStart, InBody
  <2>2. s.knows \in {"nothing", "place"} BY <1>2
  <2> QED BY <1>7, <1>8, <2>1, <2>2, LabelReached
<1> HIDE DEF named
<1>10. /\ IsCtx(kept) /\ kept.externs = named.externs /\ kept.text = named.text \o <<instr>>
       /\ kept.frame_size = named.frame_size + 1
  BY <1>9 DEF Reached, IsCtx, CtxFields, Pushq, Emit, EmitAll
<1>11. kept.frame_size = 2
  <2>1. named.frame_size = 1 BY <1>2, <1>9 DEF Reached
  <2> QED BY <1>10, <2>1
<1>12. instr[1] = "push" /\ instr[2] = Reg("rdi") OBVIOUS
<1>13. instr # GivesBack /\ instr # SetsBase /\ instr # RestoresBase
  BY DEF GivesBack, SetsBase, RestoresBase
<1> HIDE DEF instr, kept
<1>14. Fits(p, instr, s, t, FALSE)
  <2>1. PushFits(instr, s) BY <1>2, <1>4, <1>12 DEF PushFits
  <2>2. InstrFits(p, instr, s, FALSE) BY <1>7, <1>12, <2>1 DEF InstrFits
  <2>3. Follows(instr, s, t)
    <3>1. Behind(instr, 1) = 2 BY <1>12 DEF Behind
    <3>2. OwnBehind(instr, s.own) = w.own
      <4>1. w.own \in BOOLEAN BY <1>1 DEF IsWhere
      <4>2. ~OwnBehind(instr, s.own) BY <1>6, <1>13 DEF OwnBehind
      <4>3. OwnBehind(instr, s.own) \in BOOLEAN BY DEF OwnBehind
      <4> QED BY <1>1, <4>1, <4>2, <4>3
    <3>3. KnowsBehind(instr, s, "nothing") BY DEF KnowsBehind
    <3> QED BY <1>1, <1>2, <1>3, <3>1, <3>2, <3>3 DEF Follows
  <2> QED BY <1>2, <1>4, <2>2, <2>3 DEF Fits
<1>15. Reached(p, kept, t) BY <1>3, <1>9, <1>10, <1>11, <1>14, OneMore
<1>16. DepthIn(w, 2) BY <1>1 DEF DepthIn
<1>17. Valid(w, kept, "nothing") BY <1>1, <1>11, <1>15, <1>16 DEF Valid, t
<1> QED BY <1>5, <1>11, <1>17 DEF w

(* Its fields and methods are made on the stack.                           *)
LEMMA SteadyOnTop ==
  ASSUME NEW w, NEW d, NEW k, DepthIn(w, d), NEW o \in Nat, o + SizeOfValue + Links(w.in) <= d
  PROVE  Steady(w, d, k, <<"lea", Mem(o, "rsp"), Reg("rdi")>>, "place")
<1> DEFINE x == Mem(o, "rsp")  s == StateIn(w, d, k)  instr == <<"lea", x, Reg("rdi")>>
<1>1. x[1] = "mem" /\ x[2] = o /\ x[3] = "rsp" BY DEF Mem
<1>2. instr[1] = "lea" /\ instr[2] = x /\ instr[3] = Reg("rdi") OBVIOUS
<1>3. s.depth = d /\ s.in = w.in BY StateInIs
<1> HIDE DEF x, s, instr
<1>4. OfTop(x, s) BY <1>1, <1>3 DEF OfTop
<1>5. FindsPlace(instr, s) BY <1>1, <1>2, <1>4 DEF FindsPlace
<1> QED BY <1>5, SteadyLoads DEF x, s, instr

LEMMA FieldStays ==
  ASSUME NEW w, NEW c, NEW i \in Nat, Valid(w, c, "nothing"), Even(c),
         SizeOfValue * (i - 1) \in Nat, SizeOfValue * (i - 1) + SizeOfValue + Links(w.in) <= c.frame_size
  PROVE  /\ Stays(w, c, EmitAll(c, FieldDefault(i)), "nothing")
         /\ \A f : Stays(w, c, EmitAll(c, MethodDefault(i, f)), "nothing")
<1> DEFINE d == c.frame_size
           o == SizeOfValue * (i - 1)
           a == <<"lea", Mem(o, "rsp"), Reg("rdi")>>
           b == <<"call", Runtime(<<"make", "void">>)>>
           e == <<"call", Runtime(<<"make", "callable">>)>>
           x(f) == <<"lea", SubSym(f), Reg("rsi")>>
<1>1. DepthIn(w, d) /\ d % 2 = 0 BY ValidHas DEF Even
<1>2. Steady(w, d, "nothing", a, "place")
  <2> HIDE DEF o
  <2> QED BY <1>1, SteadyOnTop DEF o
<1>3. Steady(w, d, "place", b, "nothing") /\ Steady(w, d, "place", e, "nothing")
  BY <1>1, SteadyCalls DEF Runtime
<1>4. \A f : Steady(w, d, "place", x(f), "place") BY <1>1, SteadyLoads
<1>5. FieldDefault(i) = <<a, b>> /\ \A f : MethodDefault(i, f) = <<a, x(f), e>>
  BY DEF FieldDefault, MethodDefault
<1> HIDE DEF a, b, e, x
<1>6. Stays(w, c, EmitAll(c, FieldDefault(i)), "nothing") BY <1>2, <1>3, <1>5, Emits2
<1>7. ASSUME NEW f PROVE Stays(w, c, EmitAll(c, MethodDefault(i, f)), "nothing")
  BY <1>2, <1>3, <1>4, <1>5, Emits3
<1> QED BY <1>6, <1>7

Defaulting == INSTANCE Folding WITH op <- EmitAll, Good <- StaysGood

LEMMA DefaultsHas ==
  ASSUME NEW class, IsClass(class)
  PROVE  /\ Len(Defaults(class)) \in Nat
         /\ \A i \in 1..Len(Defaults(class)) :
              Defaults(class)[i] = FieldDefault(i) \/ \E f : Defaults(class)[i] = MethodDefault(i, f)
<1> DEFINE n == Len(class.fields) + Len(class.methods)
<1>1. n \in Nat
  <2>1. IsSeq(class.fields) /\ IsSeq(class.methods) BY DEF IsClass
  <2> DEFINE k == Len(class.fields)  m == Len(class.methods)
  <2>2. k \in Nat /\ m \in Nat BY <2>1, SeqHas
  <2> HIDE DEF k, m
  <2>3. k + m \in Nat BY <2>2
  <2> QED BY <2>3 DEF k, m
<1>2. Defaults(class) = [i \in 1..n |-> Defaults(class)[i]] BY DEF Defaults
<1>3. Len(Defaults(class)) = n BY <1>1, <1>2, SeqBuilt
<1>4. ASSUME NEW i \in 1..n
      PROVE  Defaults(class)[i] = FieldDefault(i) \/ \E f : Defaults(class)[i] = MethodDefault(i, f)
  <2>1. CASE i <= Len(class.fields) BY <2>1 DEF Defaults
  <2>2. CASE ~(i <= Len(class.fields)) BY <2>2 DEF Defaults
  <2> QED BY <2>1, <2>2
<1> HIDE DEF n
<1> QED BY <1>1, <1>3, <1>4

Defaulted(w, c) == Valid(w, c, "nothing") /\ Even(c) /\ 2 <= c.frame_size

LEMMA ClassDefaultsMakes ==
  ASSUME NEW w, NEW c, NEW class, Valid(w, c, "nothing"), c.frame_size = 2, Links(w.in) = 2, IsClass(class)
  PROVE  Defaulted(w, ClassDefaults(c, class))
<1> DEFINE all == Defaults(class)
           size == Aligned(c.frame_size + SizeOfValue * Len(all))
           start == Reserve(c, size)
           made == ClassDefaults(c, class)
           given == [w |-> w, c |-> start]
<1>1. Len(all) \in Nat BY DefaultsHas
<1>2. made = Defaulting!Folded(start, all) BY DEF ClassDefaults, Through, Defaulting!Folded
<1>3. \A i \in 1..Len(all) : all[i] = FieldDefault(i) \/ \E f : all[i] = MethodDefault(i, f)
  BY DefaultsHas
<1> HIDE DEF made, given, all
<1>4. size \in Nat /\ size % 2 = 0 /\ 2 + 3 * Len(all) <= size /\ 2 <= size
  <2> DEFINE n == c.frame_size + SizeOfValue * Len(all)
  <2>1. n = 2 + 3 * Len(all) BY DEF SizeOfValue
  <2>2. n \in Nat BY <1>1, <2>1
  <2>3. Aligned(n) \in Nat /\ Aligned(n) % 2 = 0 /\ n <= Aligned(n) BY <2>2, AlignedIs
  <2>4. size = Aligned(n) OBVIOUS
  <2> HIDE DEF size, n
  <2> QED BY <1>1, <2>1, <2>3, <2>4
<1> HIDE DEF size
<1>5. Valid(w, start, "nothing") /\ Even(start) /\ start.frame_size = size
  <2>1. Valid(w, start, "nothing") /\ start.frame_size = size BY <1>4, ReserveReserves
  <2> QED BY <1>4, <2>1 DEF Even
<1> HIDE DEF start
<1>6. StaysGood(given, 0, start) BY <1>5 DEF StaysGood, Stays, given
<1>7. ASSUME NEW i \in 1..Len(all), NEW ctx, StaysGood(given, i - 1, ctx)
      PROVE  StaysGood(given, i, EmitAll(ctx, all[i]))
  <2> DEFINE instrs == all[i]
  <2>1. Valid(w, ctx, "nothing") /\ ctx.frame_size = size /\ ctx.meta = start.meta /\ Even(ctx)
    BY <1>4, <1>5, <1>7 DEF StaysGood, Stays, given, Even
  <2>2. i \in Nat /\ 1 <= i /\ i <= Len(all) BY <1>1
  <2>3. /\ SizeOfValue * (i - 1) \in Nat
        /\ SizeOfValue * (i - 1) + SizeOfValue + Links(w.in) <= ctx.frame_size
    BY <1>1, <1>4, <2>1, <2>2 DEF SizeOfValue
  <2>4. instrs = FieldDefault(i) \/ \E f : instrs = MethodDefault(i, f) BY <1>3
  <2> HIDE DEF instrs
  <2>5. Stays(w, ctx, EmitAll(ctx, instrs), "nothing") BY <2>1, <2>2, <2>3, <2>4, FieldStays
  <2> QED BY <1>5, <2>1, <2>5 DEF StaysGood, Stays, given, instrs
<1>8. StaysGood(given, Len(all), made) BY <1>1, <1>2, <1>6, <1>7, Defaulting!Folds
<1>9. Valid(w, made, "nothing") /\ made.frame_size = size BY <1>5, <1>8 DEF StaysGood, Stays, given
<1> QED BY <1>4, <1>9 DEF Defaulted, Even, made

LEMMA ClassSetupStays ==
  ASSUME NEW w, NEW c, NEW name, NEW class, Defaulted(w, c), w.in[1] = "init"
  PROVE  Stays(w, c, ClassSetup(c, name, class), "nothing")
<1> DEFINE d == c.frame_size
           m == Mem(d - 2, "rsp")
           a == <<"mov", m, Reg("rdi")>>
           b == <<"lea", Sym(<<"symbols", class.fields \o class.methods>>), Reg("rsi")>>
           e == <<"lea", Mem(0, "rsp"), Reg("rdx")>>
           x == <<"call", Runtime(<<"make_object_setup">>)>>
           s == StateIn(w, d, "nothing")
<1>1. Valid(w, c, "nothing") /\ DepthIn(w, d) /\ d % 2 = 0 /\ d \in Nat /\ 2 <= d
  BY ValidHas DEF Defaulted, Even
<1>2. Steady(w, d, "nothing", a, "place")
  <2>1. m[1] = "mem" /\ m[2] = d - 2 BY DEF Mem
  <2>2. a[1] = "mov" /\ a[2] = m /\ a[3] = Reg("rdi") OBVIOUS
  <2>3. s.depth = d /\ s.in = w.in BY StateInIs
  <2>4. m = Mem(d - 2, "rsp") OBVIOUS
  <2>5. d - 2 \in Int BY <1>1
  <2> HIDE DEF m, s, a
  <2>6. OfCaller(m, s) BY <1>1, <2>3, <2>4 DEF OfCaller
  <2>7. FindsPlace(a, s) BY <2>1, <2>2, <2>5, <2>6 DEF FindsPlace
  <2> QED BY <1>1, <2>7, SteadyLoads DEF s, a
<1>3. Steady(w, d, "place", b, "place") /\ Steady(w, d, "place", e, "place") BY <1>1, SteadyLoads
<1>4. Steady(w, d, "place", x, "nothing") BY <1>1, SteadyCalls DEF Runtime
<1>5. ClassSetup(c, name, class) = EmitAll(c, <<a, b, e, x>>) BY DEF ClassSetup
<1> HIDE DEF a, b, e, x
<1> QED BY <1>1, <1>2, <1>3, <1>4, <1>5, Emits4

(* Only the return address is left.                                        *)
LEMMA GivenBack ==
  ASSUME NEW w, NEW c, Defaulted(w, c), w.in[1] = "init"
  PROVE  Reached(w.p, FrameRestore(c, 1), State(1, w.in, w.own, "nothing"))
<1> DEFINE d == c.frame_size  by == d - 1  instr == <<"add", by>>  ctx == FrameRestore(c, 1)
           s == StateIn(w, d, "nothing")  t == State(1, w.in, w.own, "nothing")
<1>1. IsCtx(c) /\ d \in Nat /\ DepthIn(w, d) /\ 2 <= d /\ Valid(w, c, "nothing") BY ValidHas DEF Defaulted
<1>2. by \in Nat \ {0} /\ d - by = 1 /\ by < d /\ d # 1 /\ 1 # d BY <1>1
<1>3. /\ IsCtx(ctx) /\ ctx.externs = c.externs /\ ctx.frame_size = 1
      /\ ctx.text = c.text \o <<instr>>
  BY <1>1, <1>2 DEF IsCtx, CtxFields, EmitAll, Emit, FrameRestore
<1>4. t.depth = 1 /\ t.in = w.in /\ t.own = w.own /\ t.knows = "nothing" BY DEF State
<1>5. s.depth = d /\ s.in = w.in /\ s.own = w.own BY StateInIs
<1>6. w.own \in BOOLEAN /\ ~w.own BY <1>1 DEF DepthIn, IsWhere
<1> HIDE DEF by
<1>7. instr[1] = "add" /\ instr[2] = by OBVIOUS
<1>8. instr # GivesBack /\ instr # SetsBase /\ instr # RestoresBase
  BY DEF GivesBack, SetsBase, RestoresBase
<1>9. Sensible(s) /\ s.in # Nobody BY <1>1, DepthHas, StateInIs
<1>10. Reached(w.p, c, s) BY <1>1 DEF Valid
<1> HIDE DEF instr, ctx, s, t, d
<1>11. Fits(w.p, instr, s, t, FALSE)
  <2>1. ~s.own BY <1>5, <1>6
  <2>2. MoveStackFits(instr, s) BY <1>2, <1>5, <1>7, <2>1 DEF MoveStackFits
  <2>3. InstrFits(w.p, instr, s, FALSE) BY <1>7, <1>9, <2>2 DEF InstrFits
  <2>4. Behind(instr, d) = 1 BY <1>2, <1>7, <1>8 DEF Behind
  <2>5. OwnBehind(instr, w.own) = w.own BY <1>6, <1>8 DEF OwnBehind
  <2>6. KnowsBehind(instr, s, "nothing") BY DEF KnowsBehind
  <2>7. Follows(instr, s, t) BY <1>4, <1>5, <2>4, <2>5, <2>6 DEF Follows
  <2> QED BY <1>9, <2>3, <2>7 DEF Fits
<1>12. Reached(w.p, ctx, t) BY <1>3, <1>4, <1>10, <1>11, OneMore
<1> QED BY <1>12 DEF ctx, t

LEMMA ClassInitStays ==
  ASSUME NEW p, NEW c, NEW name, NEW class, Between(p, c), IsClass(class)
  PROVE  Between(p, ClassInit(c, name, class))
<1> DEFINE w == Initialising(p, name)
           kept == Begun(p, c, name)
           made == ClassDefaults(kept, class)
           done == ClassSetup(made, name, class)
           left == FrameRestore(done, 1)
           s == State(1, w.in, w.own, "nothing")
           e == <<"ret">>
<1>1. ClassInit(c, name, class) = EmitAll(left, <<e>>) BY DEF ClassInit, Emit, Begun
<1>2. Valid(w, kept, "nothing") /\ kept.frame_size = 2 BY ClassBegins
<1>3. w.p = p /\ w.in[1] = "init" /\ Links(w.in) = 2 /\ IsWhere(w) /\ w.own \in BOOLEAN /\ ~w.own
  BY InitialisingIs DEF IsWhere
<1> HIDE DEF w, kept
<1>4. Defaulted(w, made) BY <1>2, <1>3, ClassDefaultsMakes
<1> HIDE DEF made
<1>5. Defaulted(w, done)
  <2>1. Stays(w, made, done, "nothing") BY <1>3, <1>4, ClassSetupStays
  <2> HIDE DEF done
  <2> QED BY <1>4, <2>1 DEF Stays, Defaulted, Even
<1> HIDE DEF done
<1>6. Reached(p, left, s) BY <1>3, <1>5, GivenBack
<1>7. MayReturn(p, s)
  <2>1. s.depth = 1 /\ s.in = w.in /\ s.own = w.own BY DEF State
  <2> HIDE DEF s
  <2>2. s.depth \in Nat \ {0} BY <2>1
  <2>3. ~s.own /\ s.own \in BOOLEAN BY <1>3, <2>1
  <2>4. Sensible(s) BY <1>3, <2>1, <2>2, <2>3 DEF Sensible
  <2> QED BY <2>1, <2>4, ReturnFits
<1> HIDE DEF left, s
<1>8. ASSUME NEW t PROVE LeadsTo(p, left.text \o <<e>>, t)
  <2>1. Fits(p, e, s, t, FALSE) BY <1>7 DEF MayReturn
  <2>2. LeadsTo(p, left.text, s) BY <1>6 DEF Reached
  <2> HIDE DEF e
  <2> QED BY <2>1, <2>2, NextLeads
<1> HIDE DEF e
<1>9. IsCtx(left) /\ left.externs = p.externs BY <1>6 DEF Reached
<1> QED BY <1>1, <1>8, <1>9, Ended

-----------------------------------------------------------------------------
(* Programs.                                                               *)

(* fs are methods of classes that are made.                                *)
AreMethods(p, fs) ==
  /\ IsSeq(fs)
  /\ \A k \in 1..Len(fs) : fs[k] # "main" /\ IsSub(p.subs[fs[k]])

MethodsGood(given, i, fs)  == AreMethods(given, fs)
BetweenGood(given, i, ctx) == Between(given, ctx)
Named   == INSTANCE Folding WITH op <- WithMethod, Good <- MethodsGood
Found   == INSTANCE Folding WITH op <- WithMethods, Good <- MethodsGood
Subs    == INSTANCE Folding WITH op <- InstSub, Good <- BetweenGood
Inits   == INSTANCE Folding WITH op <- InstInit, Good <- BetweenGood
Methods == INSTANCE Folding WITH op <- InstMethod, Good <- BetweenGood

LEMMA WithMethodIs ==
  ASSUME NEW p, NEW fs, NEW f, AreMethods(p, fs), f # "main", IsSub(p.subs[f])
  PROVE  AreMethods(p, WithMethod(fs, f))
<1>1. CASE f \in ToSet(fs) BY <1>1 DEF WithMethod
<1>2. CASE f \notin ToSet(fs)
  <2> DEFINE more == Append(fs, f)
  <2>1. IsSeq(fs) BY DEF AreMethods
  <2>2. fs \in Seq(ToSet(fs) \cup {f})
    <3>1. fs \in [1..Len(fs) -> ToSet(fs)] /\ Len(fs) \in Nat BY <2>1 DEF IsSeq
    <3> QED BY <3>1
  <2>3. /\ more \in Seq(ToSet(fs) \cup {f}) /\ Len(more) = Len(fs) + 1
        /\ \A k \in 1..Len(fs) : more[k] = fs[k]
        /\ more[Len(fs) + 1] = f
    BY <2>2, AppendProperties
  <2>4. IsSeq(more) BY <2>3, SeqIs
  <2>5. WithMethod(fs, f) = more BY <1>2 DEF WithMethod
  <2>6. Len(fs) \in Nat BY <2>1, SeqHas
  <2> HIDE DEF more
  <2>7. \A k \in 1..Len(more) : k \in 1..Len(fs) \/ k = Len(fs) + 1 BY <2>3, <2>6
  <2>8. \A k \in 1..Len(more) : more[k] # "main" /\ IsSub(p.subs[more[k]])
    BY <2>3, <2>7 DEF AreMethods
  <2> QED BY <2>4, <2>5, <2>8 DEF AreMethods
<1> QED BY <1>1, <1>2

LEMMA WithMethodsIs ==
  ASSUME NEW p, NEW fs, NEW class, AreMethods(p, fs), AreMethods(p, class.methods)
  PROVE  AreMethods(p, WithMethods(fs, class))
<1> DEFINE all == class.methods  found == WithMethods(fs, class)
<1>1. Len(all) \in Nat BY SeqHas DEF AreMethods
<1>2. found = Named!Folded(fs, all) BY DEF WithMethods, Through, Named!Folded
<1>3. MethodsGood(p, 0, fs) BY DEF MethodsGood
<1>4. ASSUME NEW k \in 1..Len(all), NEW some, MethodsGood(p, k - 1, some)
      PROVE  MethodsGood(p, k, WithMethod(some, all[k]))
  <2>1. all[k] # "main" /\ IsSub(p.subs[all[k]]) BY DEF AreMethods
  <2> QED BY <1>4, <2>1, WithMethodIs DEF MethodsGood
<1> HIDE DEF all, found
<1>5. MethodsGood(p, Len(all), found) BY <1>1, <1>2, <1>3, <1>4, Named!Folds
<1> QED BY <1>5 DEF MethodsGood, found

LEMMA MethodsOfIs ==
  ASSUME NEW p, IsProgram(p)
  PROVE  AreMethods(p, MethodsOf(p))
<1> DEFINE all == [i \in DOMAIN p.inits |-> p.classes[p.inits[i]]]
           found == MethodsOf(p)
           n == Len(p.inits)
<1>1. n \in Nat /\ DOMAIN p.inits = 1..n
  <2>1. IsSeq(p.inits) BY DEF IsProgram
  <2> QED BY <2>1, SeqHas
<1>2. Len(all) = n
  <2>1. all = [i \in 1..n |-> all[i]] BY <1>1
  <2> HIDE DEF all, n
  <2> QED BY <1>1, <2>1, SeqBuilt
<1>3. found = Found!Folded(<<>>, all) BY DEF MethodsOf, Through, Found!Folded
<1>4. ASSUME NEW i \in 1..n PROVE AreMethods(p, all[i].methods)
  <2> DEFINE class == p.classes[p.inits[i]]
  <2>1. IsClass(class) /\ \A k \in 1..Len(class.methods) :
          class.methods[k] # "main" /\ IsSub(p.subs[class.methods[k]])
    BY DEF IsProgram
  <2>2. all[i] = class BY <1>1
  <2> HIDE DEF class, all
  <2>3. IsSeq(class.methods) BY <2>1 DEF IsClass
  <2> QED BY <2>1, <2>2, <2>3 DEF AreMethods
<1> HIDE DEF all, found, n
<1>5. MethodsGood(p, 0, <<>>)
  <2>1. 1..0 = {} OBVIOUS
  <2> QED BY <2>1, TupleIs DEF MethodsGood, AreMethods
<1>6. ASSUME NEW i \in 1..Len(all), NEW some, MethodsGood(p, i - 1, some)
      PROVE  MethodsGood(p, i, WithMethods(some, all[i]))
  <2> DEFINE class == all[i]
  <2>1. AreMethods(p, class.methods) BY <1>2, <1>4
  <2> HIDE DEF class
  <2>2. AreMethods(p, WithMethods(some, class)) BY <1>6, <2>1, WithMethodsIs DEF MethodsGood
  <2> QED BY <2>2 DEF MethodsGood, class
<1>7. MethodsGood(p, Len(all), found) BY <1>1, <1>2, <1>3, <1>5, <1>6, Found!Folds
<1> QED BY <1>7 DEF MethodsGood, found

LEMMA NewCtxIs ==
  ASSUME NEW p
  PROVE  Between(p, CheckExterns(NewCtx(p)))
<1> DEFINE new == NewCtx(p)  ctx == CheckExterns(new)
<1>1. IsCtx(ctx) /\ ctx.externs = p.externs /\ ctx.text = <<>>
  <2>0. AreNotes(<<>>, <<>>) BY TupleIs DEF AreNotes, AreSubs
  <2>1. IsCtx(new) /\ new.externs = p.externs /\ new.text = <<>> BY <2>0 DEF NewCtx, IsCtx, CtxFields
  <2>2. CASE ctx = new BY <2>1, <2>2
  <2>3. CASE ctx = CgError(new, "extern type")
    <3> DEFINE err == CgError(new, "extern type")
    <3> HIDE DEF new, ctx
    <3>1. IsCtx(err) /\ err.externs = new.externs /\ err.text = new.text BY <2>1 DEF IsCtx, CtxFields, CgError
    <3> HIDE DEF err
    <3> QED BY <2>1, <2>3, <3>1 DEF err
  <2> QED BY <2>2, <2>3 DEF CheckExterns
<1> HIDE DEF ctx
<1> QED BY <1>1, Begins DEF Between, ctx

LEMMA SubsOfIs ==
  ASSUME NEW p, NEW names, IsSeq(names)
  PROVE  LET subs == SubsOf(p, names)
         IN  /\ Len(subs) = Len(names) /\ Len(names) \in Nat
             /\ \A i \in 1..Len(names) : subs[i] = [name |-> names[i], sub |-> p.subs[names[i]]]
<1> DEFINE subs == SubsOf(p, names)
<1>1. Len(names) \in Nat /\ DOMAIN names = 1..Len(names) BY SeqHas
<1>2. \A i \in 1..Len(names) : subs[i] = [name |-> names[i], sub |-> p.subs[names[i]]]
  BY <1>1 DEF SubsOf
<1>3. subs = [i \in 1..Len(names) |-> subs[i]] BY <1>1 DEF SubsOf
<1> HIDE DEF subs
<1>4. Len(subs) = Len(names) BY <1>1, <1>3, SeqBuilt
<1> QED BY <1>1, <1>2, <1>4 DEF subs

(* The code of a program, with what is between two of its subroutines.     *)
LEMMA CgInstIs ==
  ASSUME NEW p, IsProgram(p)
  PROVE  Between(p, CgInst(p))
<1> DEFINE new == CheckExterns(NewCtx(p))
           subs == SubsOf(p, p.defined)
           inits == InitsOf(p)
           methods == SubsOf(p, MethodsOf(p))
           some == Through(InstSub, new, subs)
           more == Through(InstInit, some, inits)
           all == CgInst(p)
<1>1. Between(p, new) BY NewCtxIs
<1>2. /\ some = Subs!Folded(new, subs) /\ more = Inits!Folded(some, inits)
      /\ all = Methods!Folded(more, methods)
  BY DEF CgInst, Through, Subs!Folded, Inits!Folded, Methods!Folded
<1> HIDE DEF new, some, more, all
<1>3. Between(p, some)
  <2> DEFINE names == p.defined
  <2>1. /\ IsSeq(names)
        /\ \A i \in 1..Len(names) :
             IsSub(p.subs[names[i]]) /\ (names[i] = "main" => p.subs[names[i]].params = <<>>)
    BY DEF IsProgram
  <2> HIDE DEF names
  <2>2. /\ Len(subs) = Len(names) /\ Len(names) \in Nat
        /\ \A i \in 1..Len(names) : subs[i] = [name |-> names[i], sub |-> p.subs[names[i]]]
    BY <2>1, SubsOfIs DEF names
  <2> HIDE DEF subs
  <2>3. ASSUME NEW i \in 1..Len(subs), NEW ctx, BetweenGood(p, i - 1, ctx)
        PROVE  BetweenGood(p, i, InstSub(ctx, subs[i]))
    <3> DEFINE f == names[i]  def == subs[i]
    <3>1. Between(p, ctx) BY <2>3 DEF BetweenGood
    <3>2. IsSub(p.subs[f]) /\ def.name = f /\ def.sub = p.subs[f]
      <4>1. i \in 1..Len(names) BY <2>2
      <4>2. IsSub(p.subs[f]) BY <2>1, <4>1
      <4>3. def = [name |-> f, sub |-> p.subs[f]] BY <2>2, <4>1
      <4> HIDE DEF f, def
      <4> QED BY <4>2, <4>3
    <3> HIDE DEF f, def
    <3>3. CASE f = "main"
      <4>1. InstSub(ctx, def) = SubMain(ctx, f, p.subs[f]) BY <3>2, <3>3 DEF InstSub
      <4>2. p.subs[f].params = <<>>
        <5>1. i \in 1..Len(names) BY <2>2
        <5> QED BY <2>1, <3>3, <5>1 DEF f
      <4> QED BY <3>1, <3>2, <3>3, <4>1, <4>2, SubMainStays DEF BetweenGood, def
    <3>4. CASE f # "main"
      <4>1. InstSub(ctx, def) = SubDef(ctx, f, p.subs[f]) BY <3>2, <3>4 DEF InstSub
      <4> QED BY <3>1, <3>2, <3>4, <4>1, SubDefStays DEF BetweenGood, def
    <3> QED BY <3>3, <3>4
  <2>4. BetweenGood(p, 0, new) BY <1>1 DEF BetweenGood
  <2>5. BetweenGood(p, Len(subs), some) BY <1>2, <2>2, <2>3, <2>4, Subs!Folds
  <2> QED BY <2>5 DEF BetweenGood
<1>4. Between(p, more)
  <2> DEFINE n == Len(p.inits)
             class(i) == p.classes[p.inits[i]]
  <2>1. n \in Nat /\ DOMAIN p.inits = 1..n
    <3>1. IsSeq(p.inits) BY DEF IsProgram
    <3> QED BY <3>1, SeqHas
  <2>2. \A i \in 1..n : inits[i] = [name |-> p.inits[i], class |-> class(i)] BY <2>1 DEF InitsOf
  <2>3. Len(inits) = n
    <3>1. inits = [i \in 1..n |-> inits[i]] BY <2>1 DEF InitsOf
    <3> HIDE DEF inits, n
    <3> QED BY <2>1, <3>1, SeqBuilt
  <2>4. \A i \in 1..n : IsClass(class(i)) BY DEF IsProgram
  <2> HIDE DEF inits, n, class
  <2>5. ASSUME NEW i \in 1..Len(inits), NEW ctx, BetweenGood(p, i - 1, ctx)
        PROVE  BetweenGood(p, i, InstInit(ctx, inits[i]))
    <3> DEFINE init == inits[i]
    <3>1. Between(p, ctx) BY <2>5 DEF BetweenGood
    <3>2. IsClass(init.class) BY <2>2, <2>3, <2>4
    <3> HIDE DEF init
    <3>3. Between(p, InstInit(ctx, init)) BY <3>1, <3>2, ClassInitStays DEF InstInit
    <3> QED BY <3>3 DEF BetweenGood, init
  <2>6. BetweenGood(p, 0, some) BY <1>3 DEF BetweenGood
  <2>7. BetweenGood(p, Len(inits), more) BY <1>2, <2>1, <2>3, <2>5, <2>6, Inits!Folds
  <2> QED BY <2>7 DEF BetweenGood
<1>5. Between(p, all)
  <2> DEFINE names == MethodsOf(p)
  <2>1. IsSeq(names) /\ \A i \in 1..Len(names) : names[i] # "main" /\ IsSub(p.subs[names[i]])
    BY MethodsOfIs DEF AreMethods
  <2> HIDE DEF names
  <2>2. /\ Len(methods) = Len(names) /\ Len(names) \in Nat
        /\ \A i \in 1..Len(names) : methods[i] = [name |-> names[i], sub |-> p.subs[names[i]]]
    BY <2>1, SubsOfIs DEF names
  <2> HIDE DEF methods
  <2>3. ASSUME NEW i \in 1..Len(methods), NEW ctx, BetweenGood(p, i - 1, ctx)
        PROVE  BetweenGood(p, i, InstMethod(ctx, methods[i]))
    <3> DEFINE f == names[i]  def == methods[i]
    <3>1. Between(p, ctx) BY <2>3 DEF BetweenGood
    <3>2. f # "main" /\ IsSub(p.subs[f]) /\ def.name = f /\ def.sub = p.subs[f]
      <4>1. i \in 1..Len(names) BY <2>2
      <4>2. IsSub(p.subs[f]) /\ f # "main" BY <2>1, <4>1
      <4>3. def = [name |-> f, sub |-> p.subs[f]] BY <2>2, <4>1
      <4> HIDE DEF f, def
      <4> QED BY <4>2, <4>3
    <3> HIDE DEF f, def
    <3>3. InstMethod(ctx, def) = SubDef(ctx, f, p.subs[f]) BY <3>2 DEF InstMethod
    <3> QED BY <3>1, <3>2, <3>3, SubDefStays DEF BetweenGood, def
  <2>4. BetweenGood(p, 0, more) BY <1>4 DEF BetweenGood
  <2>5. BetweenGood(p, Len(methods), all) BY <1>2, <2>2, <2>3, <2>4, Methods!Folds
  <2> QED BY <2>5 DEF BetweenGood
<1> QED BY <1>5 DEF all

(* Whatever the program, its code flows: at each place the stack has one   *)
(* depth, however control comes there, and with it each call is aligned    *)
(* (but those of an external function with one, three or five parameters), *)
(* each return finds the return address on top, each label is noted with   *)
(* the depth that is there, and what is stored or given to be written to   *)
(* lies below the words that control depends on.                           *)
THEOREM StackIsBalanced ==
  ASSUME NEW p, IsProgram(p)
  PROVE  Balanced(p, CgInst(p).text)
<1> DEFINE s == State(0, Nobody, FALSE, "nothing")
<1>1. LeadsTo(p, CgInst(p).text, s) BY CgInstIs DEF Between
<1>2. s.in = Nobody BY DEF State
<1> HIDE DEF s
<1> QED BY <1>1, <1>2 DEF LeadsTo, Balanced

(* A jump stays in its subroutine; it is at the depth of the label it      *)
(* leads to, and that is the depth that is noted with the label.           *)
THEOREM JumpsKeepTheDepth ==
  ASSUME NEW p, NEW text, NEW h, Flows(p, text, h),
         NEW i \in 1..Len(text), NEW j \in 1..Len(text),
         text[i][1] \in {"jmp", "jnz"}, text[j][1] = "label", text[j][2] = text[i][2]
  PROVE  h[i].in = h[j].in /\ h[i].depth = h[j].depth /\ text[j][3] = h[i].depth
<1> DEFINE from == text[i]  to == text[j]  label == from[2]
           odd(k) == OddForeignAt(p, text, k)
<1>1. Fits(p, from, h[i], h[i + 1], odd(i)) /\ Fits(p, to, h[j], h[j + 1], odd(j)) BY DEF Flows
<1>2. from[1] \in {"jmp", "jnz"} /\ to[1] = "label" /\ to[2] = label OBVIOUS
<1> HIDE DEF odd, from, to, label
<1>3. JumpFits(p, from, h[i]) BY <1>1, <1>2 DEF Fits, InstrFits
<1>4. InBody(label) /\ h[i].in = TheBody(label[2]) /\ h[i].depth = FrameOf(p, label[2])
  BY <1>3 DEF JumpFits, label
<1>5. label[1] # "E" BY <1>4 DEF InBody
<1>6. LabelFits(p, to, h[j]) BY <1>1, <1>2, <1>5 DEF Fits, InstrFits
<1>7. h[j].in = TheBody(label[2]) /\ h[j].depth = FrameOf(p, label[2]) /\ to[3] = h[j].depth
  BY <1>2, <1>4, <1>6 DEF LabelFits
<1> QED BY <1>4, <1>7 DEF to
=============================================================================
