---------------------------- MODULE ProcessorProofs ----------------------------
(***************************************************************************)
(* The generated code, executed, for every program: the stack pointer is   *)
(* where the generator believes it to be at every label, and the stack is  *)
(* aligned at every call.                                                  *)
(*                                                                         *)
(* CodegenProofs finds a state for each place of the code.  Here the words *)
(* of the stack are related to these states: there is an activation for    *)
(* each call that has not returned, and the words that control depends on  *)
(* are those of the activations.  No instruction disturbs them, as what is *)
(* stored goes below them, and what the runtime writes goes to a place     *)
(* that is free.                                                           *)
(*                                                                         *)
(* The last part is about what the generator notes for the debugger beside *)
(* the code: it is read from the executable as it was noted.               *)
(***************************************************************************)
EXTENDS CodegenProofs, CodegenProperties

-----------------------------------------------------------------------------
(* Activations: st[k] says where the return address of the k-th one is,    *)
(* where control is in its code, and what rbp is there.  h are the states  *)
(* of the places of the code.                                              *)

WordOf(m, a) == IF a \in DOMAIN m THEN m[a] ELSE Junk

Outermost     == [place |-> 0, base |-> Raw("1")]   \* the C library, which calls main
Caller(st, k) == IF k = 1 THEN Outermost ELSE st[k - 1]

Sp(h, a)     == (a.ra + 1) - h[a.place].depth
Lowest(h, a) == a.ra - Links(h[a.place].in)         \* below the words that control depends on

(* The place of a value at x is apart from these words.                    *)
Free(h, st, n, x)       == \A j \in 1..n : x > st[j].ra \/ x + 2 <= Lowest(h, st[j])
IsAddress(word)         == word[1] = "address" /\ word = Address(word[2]) /\ word[2] \in Int
IsPlaceAbove(h, st, k, ra, word) ==
  IsAddress(word) /\ word[2] > ra /\ Free(h, st, k - 1, word[2])

(* The words of the k-th activation, with its return address at ra, in the *)
(* state s.                                                                *)
Linked(h, st, k, ra, s, m) ==
  /\ s.in # Nobody
  /\ WordOf(m, ra) = <<"return", Caller(st, k).place>>
  /\ s.depth >= 2 /\ s.in[1] = "sub"       => WordOf(m, ra - 1) = Caller(st, k).base
  /\ s.depth >= 2 /\ s.in[1] = "init"      => IsPlaceAbove(h, st, k, ra, WordOf(m, ra - 1))
  /\ s.depth >= 3 /\ Links(s.in) = 3       => IsPlaceAbove(h, st, k, ra, WordOf(m, ra - 2))
BaseOf(st, k, ra, own) == IF own THEN Address(ra - 1) ELSE Caller(st, k).base

Activated(h, N, st, k, m) ==
  /\ st[k].ra \in Int /\ st[k].ra % 2 = 1
  /\ st[k].place \in 1..N
  /\ Linked(h, st, k, st[k].ra, h[st[k].place], m)
  /\ st[k].base = BaseOf(st, k, st[k].ra, h[st[k].place].own)

(* An activation that has called the one with its return address at ra.    *)
Waits(h, a, ra) ==
  /\ ra = Sp(h, a) - 1
  /\ Links(h[a.place].in) <= h[a.place].depth
  /\ h[a.place].knows = "nothing"

Stacked(h, N, st, n, m) ==
  /\ n \in Nat \ {0}
  /\ \A k \in 1..n : Activated(h, N, st, k, m)
  /\ \A k \in 1..(n - 1) : Waits(h, st[k], st[k + 1].ra)
  /\ \A j, k \in 1..n : j < k => st[k].ra <= Lowest(h, st[j])

(* What registers hold in the state s.                                     *)
Knowing(h, st, n, s, sp, r) ==
  /\ s.knows = "place" => IsAddress(r["rdi"]) /\ r["rdi"][2] >= sp /\ Free(h, st, n, r["rdi"][2])
  /\ s.knows = "code"  => r["rax"] = Junk \/ (r["rax"][1] = "entry" /\ r["rax"][2] = "op_call")

Good(h, N, st, n, pc, sp, r, m) ==
  /\ Stacked(h, N, st, n, m)
  /\ pc = st[n].place /\ sp = Sp(h, st[n]) /\ r["rbp"] = st[n].base
  /\ Knowing(h, st, n, h[pc], sp, r)

(* States for the places of the text, none for what is behind it.          *)
Sound(p, text, h) ==
  /\ IsSeq(text) /\ Flows(p, text, h) /\ h[Len(text) + 1].in = Nobody

IsRegs(r) == r = [x \in DOMAIN r |-> r[x]] /\ {"rdi", "rax", "rbp"} \subseteq DOMAIN r

Execution ==
  /\ program \in DOMAIN Programs /\ code = CgInst(Programs[program]) /\ Assembled
  /\ IsRegs(regs)
  /\ \E h : /\ Sound(Programs[program], code.text, h)
            /\ Running => \E st, n : Good(h, Len(code.text), st, n, rip, rsp, regs, mem)

-----------------------------------------------------------------------------
(* The place where control is.                                             *)

LEMMA GoodHas ==
  ASSUME NEW p, NEW text, NEW h, NEW st, NEW n, NEW pc, NEW sp, NEW r, NEW m,
         Sound(p, text, h), Good(h, Len(text), st, n, pc, sp, r, m)
  PROVE  /\ Len(text) \in Nat /\ DOMAIN text = 1..Len(text) /\ pc \in 1..Len(text)
         /\ n \in Nat \ {0} /\ n \in 1..n /\ Activated(h, Len(text), st, n, m)
         /\ h[pc].in # Nobody
         /\ InstrFits(p, text[pc], h[pc], OddForeignAt(p, text, pc))
         /\ Sensible(h[pc])
         /\ GoesOn(text[pc]) => Follows(text[pc], h[pc], h[pc + 1]) /\ pc + 1 \in 1..Len(text)
<1> DEFINE N == Len(text)
<1>1. N \in Nat /\ DOMAIN text = 1..N BY SeqHas DEF Sound
<1>2. n \in Nat \ {0} /\ pc = st[n].place BY DEF Good, Stacked
<1>3. n \in 1..n BY <1>2
<1>4. Activated(h, N, st, n, m) BY <1>3 DEF Good, Stacked
<1>5. pc \in 1..N /\ h[pc].in # Nobody BY <1>2, <1>4 DEF Activated, Linked
<1>6. Fits(p, text[pc], h[pc], h[pc + 1], OddForeignAt(p, text, pc)) BY <1>5 DEF Sound, Flows
<1> DEFINE instr == text[pc]  odd == OddForeignAt(p, text, pc)
<1> HIDE DEF instr, odd
<1>7. Fits(p, instr, h[pc], h[pc + 1], odd) BY <1>6 DEF instr, odd
<1>8. InstrFits(p, instr, h[pc], odd) /\ (GoesOn(instr) => Follows(instr, h[pc], h[pc + 1]))
  BY <1>5, <1>7 DEF Fits
<1>9. Sensible(h[pc]) BY <1>8 DEF InstrFits
<1>10. ASSUME GoesOn(instr) PROVE pc + 1 \in 1..N
  <2>1. h[pc + 1].in # Nobody BY <1>5, <1>8, <1>10 DEF Follows
  <2>2. pc # N BY <2>1 DEF Sound
  <2>3. N \in Nat /\ pc \in 1..N BY <1>1, <1>5
  <2> HIDE DEF N
  <2> QED BY <2>2, <2>3
<1> QED BY <1>1, <1>2, <1>3, <1>4, <1>5, <1>8, <1>9, <1>10 DEF instr, odd

LEMMA SensibleHas ==
  ASSUME NEW s, Sensible(s)
  PROVE  /\ s.depth \in Nat /\ 1 <= s.depth /\ s.depth \in Int
         /\ (s.own => s.in[1] = "sub" /\ 2 <= s.depth) /\ s.own \in BOOLEAN
         /\ s.in[1] \in {"sub", "init"}
BY DEF Sensible

(* All places of activations are sensible.                                 *)
LEMMA PlacesSensible ==
  ASSUME NEW p, NEW text, NEW h, NEW st, NEW n, NEW m, Sound(p, text, h), Stacked(h, Len(text), st, n, m),
         NEW k \in 1..n
  PROVE  /\ Sensible(h[st[k].place]) /\ st[k].ra \in Int /\ st[k].ra % 2 = 1
         /\ Links(h[st[k].place].in) \in Int /\ Lowest(h, st[k]) \in Int /\ Sp(h, st[k]) \in Int
         /\ Lowest(h, st[k]) < st[k].ra /\ Sp(h, st[k]) <= st[k].ra
<1> DEFINE s == h[st[k].place]  instr == text[st[k].place]  odd == OddForeignAt(p, text, st[k].place)
<1>1. Activated(h, Len(text), st, k, m) BY DEF Stacked
<1>2. st[k].place \in 1..Len(text) /\ s.in # Nobody /\ st[k].ra \in Int /\ st[k].ra % 2 = 1
  BY <1>1 DEF Activated, Linked
<1>3. Fits(p, text[st[k].place], s, h[st[k].place + 1], odd) BY <1>2 DEF Sound, Flows
<1>4. Sensible(s)
  <2> HIDE DEF odd, s, instr
  <2> QED BY <1>2, <1>3 DEF Fits, InstrFits
<1>5. Links(s.in) \in {2, 3} BY LinksIs
<1>6. s.depth \in Nat /\ 1 <= s.depth BY <1>4, SensibleHas
<1>7. Lowest(h, st[k]) = st[k].ra - Links(s.in) /\ Sp(h, st[k]) = (st[k].ra + 1) - s.depth
  BY DEF Lowest, Sp
<1> DEFINE ra == st[k].ra  links == Links(s.in)  d == s.depth
<1> HIDE DEF s, ra, links, d
<1>8. links \in Int /\ ra - links \in Int /\ (ra + 1) - d \in Int /\ ra - links < ra /\ (ra + 1) - d <= ra
  BY <1>2, <1>5, <1>6, SMTT(30) DEF ra, links, d
<1> QED BY <1>2, <1>4, <1>7, <1>8 DEF s, ra, links, d

-----------------------------------------------------------------------------
(* What the words of an activation depend on.                              *)

Same(st, st2, n) == \A i \in 1..n : st2[i] = st[i]

(* The words that the first n activations depend on are left alone.        *)
LeftAlone(h, st, n, m, mm) ==
  \A k \in 1..n : \A a \in Int : Lowest(h, st[k]) < a /\ a <= st[k].ra => WordOf(mm, a) = WordOf(m, a)

LEMMA FreeStays ==
  ASSUME NEW h, NEW st, NEW st2, NEW n, Same(st, st2, n), NEW x, Free(h, st, n, x)
  PROVE  Free(h, st2, n, x)
BY DEF Same, Free, Lowest

LEMMA CallerStays ==
  ASSUME NEW st, NEW st2, NEW k \in Nat \ {0}, Same(st, st2, k - 1)
  PROVE  Caller(st2, k) = Caller(st, k)
<1>1. CASE k = 1 BY <1>1 DEF Caller
<1>2. CASE k # 1
  <2>1. k - 1 \in 1..(k - 1) BY <1>2
  <2> QED BY <2>1 DEF Caller, Same
<1> QED BY <1>1, <1>2

LEMMA LinkedStays ==
  ASSUME NEW h, NEW st, NEW st2, NEW k \in Nat \ {0}, NEW ra \in Int, NEW s, NEW m, NEW mm,
         Same(st, st2, k - 1), Linked(h, st, k, ra, s, m),
         \A a \in Int : ra - Links(s.in) < a /\ a <= ra => WordOf(mm, a) = WordOf(m, a)
  PROVE  Linked(h, st2, k, ra, s, mm)
<1>1. Caller(st2, k) = Caller(st, k) BY CallerStays
<1>2. Links(s.in) = 2 \/ Links(s.in) = 3 BY LinksIs
<1>3. WordOf(mm, ra) = WordOf(m, ra)
  <2>1. ra \in Int /\ ra - Links(s.in) < ra /\ ra <= ra BY <1>2
  <2> QED BY <2>1
<1>4. WordOf(mm, ra - 1) = WordOf(m, ra - 1)
  <2>1. ra - 1 \in Int /\ ra - Links(s.in) < ra - 1 /\ ra - 1 <= ra BY <1>2
  <2> QED BY <2>1
<1>5. Links(s.in) = 3 => WordOf(mm, ra - 2) = WordOf(m, ra - 2)
  <2>1. Links(s.in) = 3 => ra - 2 \in Int /\ ra - Links(s.in) < ra - 2 /\ ra - 2 <= ra OBVIOUS
  <2> QED BY <2>1
<1>6. \A word : IsPlaceAbove(h, st, k, ra, word) => IsPlaceAbove(h, st2, k, ra, word)
  BY FreeStays DEF IsPlaceAbove
<1> DEFINE w0 == WordOf(m, ra)  w1 == WordOf(m, ra - 1)  w2 == WordOf(m, ra - 2)
<1> HIDE DEF w0, w1, w2
<1>7. /\ s.in # Nobody
      /\ w0 = <<"return", Caller(st, k).place>>
      /\ s.depth >= 2 /\ s.in[1] = "sub"       => w1 = Caller(st, k).base
      /\ s.depth >= 2 /\ s.in[1] = "init"      => IsPlaceAbove(h, st, k, ra, w1)
      /\ s.depth >= 3 /\ Links(s.in) = 3       => IsPlaceAbove(h, st, k, ra, w2)
  BY DEF Linked, w0, w1, w2
<1>8. /\ WordOf(mm, ra) = w0 /\ WordOf(mm, ra - 1) = w1
      /\ Links(s.in) = 3 => WordOf(mm, ra - 2) = w2
  BY <1>3, <1>4, <1>5 DEF w0, w1, w2
<1> QED BY <1>1, <1>6, <1>7, <1>8 DEF Linked

LEMMA ActivatedStays ==
  ASSUME NEW h, NEW N, NEW st, NEW st2, NEW k \in Nat \ {0}, NEW m, NEW mm,
         Same(st, st2, k), Activated(h, N, st, k, m),
         \A a \in Int : Lowest(h, st[k]) < a /\ a <= st[k].ra => WordOf(mm, a) = WordOf(m, a)
  PROVE  Activated(h, N, st2, k, mm)
<1> DEFINE a == st[k]
<1>1. st2[k] = a
  <2>1. k \in 1..k OBVIOUS
  <2> QED BY <2>1 DEF Same
<1>2. Same(st, st2, k - 1) BY DEF Same
<1>3. Caller(st2, k) = Caller(st, k) BY <1>2, CallerStays
<1>4. /\ a.ra \in Int /\ a.ra % 2 = 1 /\ a.place \in 1..N
      /\ Linked(h, st, k, a.ra, h[a.place], m)
      /\ a.base = BaseOf(st, k, a.ra, h[a.place].own)
  BY DEF Activated
<1>5. Linked(h, st2, k, a.ra, h[a.place], mm)
  <2> DEFINE s == h[a.place]  ra == a.ra
  <2>1. ra \in Int /\ Linked(h, st, k, ra, s, m) BY <1>4
  <2>2. \A b \in Int : ra - Links(s.in) < b /\ b <= ra => WordOf(mm, b) = WordOf(m, b) BY DEF Lowest
  <2> HIDE DEF s, ra
  <2>3. Linked(h, st2, k, ra, s, mm) BY <1>2, <2>1, <2>2, LinkedStays
  <2> QED BY <2>3 DEF s, ra
<1>6. BaseOf(st2, k, a.ra, h[a.place].own) = BaseOf(st, k, a.ra, h[a.place].own) BY <1>3 DEF BaseOf
<1> HIDE DEF a
<1> QED BY <1>1, <1>4, <1>5, <1>6 DEF Activated

-----------------------------------------------------------------------------
(* The topmost activation goes on, or another one is put on it.            *)

Replaced(st, n, top) == [k \in 1..n |-> IF k = n THEN top ELSE st[k]]

LEMMA ReplacedIs ==
  ASSUME NEW st, NEW n \in Nat \ {0}, NEW top
  PROVE  /\ Replaced(st, n, top)[n] = top /\ Same(st, Replaced(st, n, top), n - 1)
         /\ \A k \in 1..n : k = n \/ (k \in 1..(n - 1) /\ Replaced(st, n, top)[k] = st[k])
         /\ n \in 1..n
BY DEF Replaced, Same

(* top: the activation n, elsewhere in the same code.                      *)
GoesTo(h, N, st, n, top, mm) ==
  /\ top.ra = st[n].ra /\ top.place \in 1..N
  /\ h[top.place].in = h[st[n].place].in
  /\ Linked(h, st, n, top.ra, h[top.place], mm)
  /\ top.base = BaseOf(st, n, top.ra, h[top.place].own)

LEMMA TopGoesOn ==
  ASSUME NEW h, NEW N, NEW st, NEW n, NEW m, NEW mm, NEW top, Stacked(h, N, st, n, m),
         LeftAlone(h, st, n - 1, m, mm), GoesTo(h, N, st, n, top, mm)
  PROVE  /\ Stacked(h, N, Replaced(st, n, top), n, mm)
         /\ \A x : Free(h, st, n, x) => Free(h, Replaced(st, n, top), n, x)
<1> DEFINE st2 == Replaced(st, n, top)
<1>1. n \in Nat \ {0} BY DEF Stacked
<1>2. /\ st2[n] = top /\ Same(st, st2, n - 1) /\ n \in 1..n
      /\ \A k \in 1..n : k = n \/ (k \in 1..(n - 1) /\ st2[k] = st[k])
  BY <1>1, ReplacedIs
<1> HIDE DEF st2
<1>3. top.ra = st[n].ra /\ h[top.place].in = h[st[n].place].in BY DEF GoesTo
<1>4. \A k \in 1..n : st2[k].ra = st[k].ra /\ Lowest(h, st2[k]) = Lowest(h, st[k])
  BY <1>2, <1>3 DEF Lowest
<1>5. ASSUME NEW k \in 1..n PROVE Activated(h, N, st2, k, mm)
  <2>1. CASE k = n
    <3>1. Activated(h, N, st, n, m) BY <1>2 DEF Stacked
    <3>2. top.ra \in Int /\ top.ra % 2 = 1 BY <1>3, <3>1 DEF Activated
    <3>3. Linked(h, st2, n, top.ra, h[top.place], mm)
      <4> DEFINE s == h[top.place]  ra == top.ra
      <4>1. Linked(h, st, n, ra, s, mm) BY DEF GoesTo
      <4> HIDE DEF s, ra
      <4>2. ra \in Int BY <3>2 DEF ra
      <4>3. Linked(h, st2, n, ra, s, mm) BY <1>1, <1>2, <4>1, <4>2, LinkedStays
      <4> QED BY <4>3 DEF s, ra
    <3>4. Caller(st2, n) = Caller(st, n) BY <1>1, <1>2, CallerStays
    <3>5. top.base = BaseOf(st2, n, top.ra, h[top.place].own) BY <3>4 DEF GoesTo, BaseOf
    <3>6. top.place \in 1..N BY DEF GoesTo
    <3> QED BY <1>2, <2>1, <3>2, <3>3, <3>5, <3>6 DEF Activated
  <2>2. CASE k # n
    <3>1. k \in 1..(n - 1) BY <1>2, <2>2
    <3>2. Same(st, st2, k) BY <1>1, <1>2, <3>1 DEF Same
    <3>3. Activated(h, N, st, k, m) BY DEF Stacked
    <3>4. \A a \in Int : Lowest(h, st[k]) < a /\ a <= st[k].ra => WordOf(mm, a) = WordOf(m, a)
      BY <3>1 DEF LeftAlone
    <3>5. k \in Nat \ {0} BY <1>1
    <3> QED BY <3>2, <3>3, <3>4, <3>5, ActivatedStays
  <2> QED BY <2>1, <2>2
<1>6. ASSUME NEW k \in 1..(n - 1) PROVE Waits(h, st2[k], st2[k + 1].ra)
  <2>1. k \in 1..n /\ k # n /\ k + 1 \in 1..n BY <1>1
  <2>2. st2[k] = st[k] /\ st2[k + 1].ra = st[k + 1].ra BY <1>2, <1>4, <2>1
  <2>3. Waits(h, st[k], st[k + 1].ra) BY DEF Stacked
  <2> QED BY <2>2, <2>3
<1>7. \A j, k \in 1..n : j < k => st2[k].ra <= Lowest(h, st2[j]) BY <1>4 DEF Stacked
<1>8. Stacked(h, N, st2, n, mm) BY <1>1, <1>5, <1>6, <1>7 DEF Stacked
<1>9. \A x : Free(h, st, n, x) => Free(h, st2, n, x) BY <1>4 DEF Free
<1> QED BY <1>8, <1>9 DEF st2

-----------------------------------------------------------------------------
(* What is stored and what is lost leaves the words alone that control     *)
(* depends on: those at sp and above it.                                   *)

Guarded(h, st, n, sp, a) ==
  sp <= a /\ \E k \in 1..n : Lowest(h, st[k]) < a /\ a <= st[k].ra
Spared(h, st, n, sp, m, mm) ==
  \A a \in Int : Guarded(h, st, n, sp, a) => WordOf(mm, a) = WordOf(m, a)

LEMMA WordStored ==
  ASSUME NEW m, NEW b, NEW word
  PROVE  /\ WordOf(Extended(m, b, word), b) = word
         /\ \A a : a # b => WordOf(Extended(m, b, word), a) = WordOf(m, a)
BY DEF WordOf, Extended

LEMMA WordKept ==
  ASSUME NEW m, NEW low, NEW a, a >= low
  PROVE  WordOf([b \in {c \in DOMAIN m : c >= low} |-> m[b]], a) = WordOf(m, a)
BY DEF WordOf

LEMMA StoredBelow ==
  ASSUME NEW h, NEW st, NEW n, NEW sp \in Int, NEW m, NEW b \in Int, NEW word, b < sp
  PROVE  Spared(h, st, n, sp, m, Extended(m, b, word))
<1>1. ASSUME NEW a \in Int, sp <= a PROVE a # b BY <1>1
<1> QED BY <1>1, WordStored DEF Spared, Guarded

(* The guarded words are those of the activations that were called before  *)
(* the topmost one, and those of the topmost one that are on the stack.    *)
LEMMA OnStack ==
  ASSUME NEW p, NEW text, NEW h, NEW st, NEW n, NEW m, NEW j \in 1..n,
         Sound(p, text, h), Stacked(h, Len(text), st, n, m)
  PROVE  /\ n \in Nat \ {0} /\ n \in 1..n
         /\ Lowest(h, st[n]) \in Int /\ Lowest(h, st[n]) < st[n].ra /\ st[n].ra \in Int
         /\ Sp(h, st[n]) \in Int /\ Sp(h, st[n]) <= st[n].ra
         /\ Lowest(h, st[j]) \in Int /\ st[j].ra \in Int
         /\ j # n => st[n].ra <= Lowest(h, st[j])
         /\ Lowest(h, st[n]) <= Lowest(h, st[j])
<1>1. n \in Nat \ {0} /\ n \in 1..n BY DEF Stacked
<1>2. /\ Lowest(h, st[n]) \in Int /\ Lowest(h, st[n]) < st[n].ra /\ st[n].ra \in Int
      /\ Sp(h, st[n]) \in Int /\ Sp(h, st[n]) <= st[n].ra
  BY <1>1, PlacesSensible
<1>3. Lowest(h, st[j]) \in Int /\ st[j].ra \in Int BY PlacesSensible
<1>4. j # n => st[n].ra <= Lowest(h, st[j])
  <2>1. j # n => j < n BY <1>1
  <2> QED BY <1>1, <2>1 DEF Stacked
<1> QED BY <1>1, <1>2, <1>3, <1>4

LEMMA StoredLow ==
  ASSUME NEW p, NEW text, NEW h, NEW st, NEW n, NEW sp, NEW m, NEW b \in Int, NEW word,
         Sound(p, text, h), Stacked(h, Len(text), st, n, m), b <= Lowest(h, st[n])
  PROVE  Spared(h, st, n, sp, m, Extended(m, b, word))
<1>1. ASSUME NEW a \in Int, NEW k \in 1..n, Lowest(h, st[k]) < a PROVE a # b
  <2>1. Lowest(h, st[n]) <= Lowest(h, st[k]) /\ Lowest(h, st[n]) \in Int /\ Lowest(h, st[k]) \in Int
    BY OnStack
  <2> QED BY <1>1, <2>1
<1> QED BY <1>1, WordStored DEF Spared, Guarded

(* The runtime writes a value to a free place, and leaves nothing below    *)
(* the stack.                                                              *)
LEMMA LostBelow ==
  ASSUME NEW h, NEW st, NEW n, NEW sp \in Int, NEW m, NEW low \in Int, low <= sp
  PROVE  Spared(h, st, n, sp, m, [a \in {b \in DOMAIN m : b >= low} |-> m[a]])
<1>1. ASSUME NEW a \in Int, sp <= a PROVE a >= low BY <1>1
<1> QED BY <1>1, WordKept DEF Spared, Guarded

LEMMA WrittenFree ==
  ASSUME NEW p, NEW text, NEW h, NEW st, NEW n, NEW sp, NEW x \in Int, NEW v, NEW m,
         Sound(p, text, h), Stacked(h, Len(text), st, n, m), Free(h, st, n, x)
  PROVE  Spared(h, st, n, sp, mem, Written(x, v))
<1>1. ASSUME NEW a \in Int, NEW k \in 1..n, Lowest(h, st[k]) < a, a <= st[k].ra PROVE a \notin x..(x + 2)
  <2>1. x > st[k].ra \/ x + 2 <= Lowest(h, st[k]) BY DEF Free
  <2>2. Lowest(h, st[k]) \in Int /\ st[k].ra \in Int BY OnStack
  <2> QED BY <1>1, <2>1, <2>2
<1>2. ASSUME NEW a, a \notin x..(x + 2) PROVE WordOf(Written(x, v), a) = WordOf(mem, a)
  <2> DEFINE y == x + 2
  <2> HIDE DEF y
  <2>1. Written(x, v) = [i \in DOMAIN mem \cup x..y |-> IF i \in x..y THEN <<"part", i - x, v>> ELSE mem[i]]
    BY DEF Written, y
  <2>2. a \notin x..y BY <1>2 DEF y
  <2> QED BY <2>1, <2>2 DEF WordOf
<1> QED BY <1>1, <1>2 DEF Spared, Guarded

LEMMA SparedTwice ==
  ASSUME NEW h, NEW st, NEW n, NEW sp, NEW m1, NEW m2, NEW m3,
         Spared(h, st, n, sp, m1, m2), Spared(h, st, n, sp, m2, m3)
  PROVE  Spared(h, st, n, sp, m1, m3)
BY DEF Spared

LEMMA SparedBelow ==
  ASSUME NEW p, NEW text, NEW h, NEW st, NEW n, NEW m, NEW mm,
         Sound(p, text, h), Stacked(h, Len(text), st, n, m), Spared(h, st, n, Sp(h, st[n]), m, mm)
  PROVE  LeftAlone(h, st, n - 1, m, mm)
<1>1. n \in Nat \ {0} BY DEF Stacked
<1>2. ASSUME NEW k \in 1..(n - 1), NEW a \in Int, Lowest(h, st[k]) < a, a <= st[k].ra
      PROVE  WordOf(mm, a) = WordOf(m, a)
  <2>1. k \in 1..n /\ k # n BY <1>1
  <2>2. /\ st[n].ra <= Lowest(h, st[k]) /\ Sp(h, st[n]) <= st[n].ra /\ st[n].ra \in Int
        /\ Sp(h, st[n]) \in Int /\ Lowest(h, st[k]) \in Int
    BY <2>1, OnStack
  <2>3. Sp(h, st[n]) <= a BY <1>2, <2>2
  <2>4. Guarded(h, st, n, Sp(h, st[n]), a) BY <1>2, <2>1, <2>3 DEF Guarded
  <2> QED BY <2>4 DEF Spared
<1> QED BY <1>2 DEF LeftAlone

-----------------------------------------------------------------------------
(* The topmost activation at another place.                                *)

GoodSomewhere(h, N, pc, sp, r, m) == \E st, n : Good(h, N, st, n, pc, sp, r, m)

LEMMA GoodParts ==
  ASSUME NEW p, NEW text, NEW h, NEW st, NEW n, NEW pc, NEW sp, NEW r, NEW m,
         Sound(p, text, h), Good(h, Len(text), st, n, pc, sp, r, m)
  PROVE  /\ Stacked(h, Len(text), st, n, m) /\ n \in Nat \ {0} /\ n \in 1..n
         /\ pc = st[n].place /\ sp = Sp(h, st[n]) /\ r["rbp"] = st[n].base
         /\ Knowing(h, st, n, h[pc], sp, r)
         /\ st[n].ra \in Int /\ st[n].ra % 2 = 1 /\ sp \in Int /\ sp <= st[n].ra
         /\ sp = (st[n].ra + 1) - h[pc].depth
         /\ Lowest(h, st[n]) = st[n].ra - Links(h[pc].in)
         /\ Linked(h, st, n, st[n].ra, h[pc], m)
         /\ st[n].base = BaseOf(st, n, st[n].ra, h[pc].own)
<1>1. /\ Stacked(h, Len(text), st, n, m) /\ pc = st[n].place /\ sp = Sp(h, st[n])
      /\ r["rbp"] = st[n].base /\ Knowing(h, st, n, h[pc], sp, r)
  BY DEF Good
<1>2. n \in Nat \ {0} /\ n \in 1..n BY <1>1 DEF Stacked
<1>3. /\ Sensible(h[pc]) /\ st[n].ra \in Int /\ st[n].ra % 2 = 1 /\ Sp(h, st[n]) \in Int
      /\ Sp(h, st[n]) <= st[n].ra
  BY <1>1, <1>2, PlacesSensible
<1>4. sp = (st[n].ra + 1) - h[pc].depth /\ Lowest(h, st[n]) = st[n].ra - Links(h[pc].in)
  BY <1>1 DEF Sp, Lowest
<1>5. Linked(h, st, n, st[n].ra, h[pc], m) /\ st[n].base = BaseOf(st, n, st[n].ra, h[pc].own)
  BY <1>1, <1>2 DEF Stacked, Activated
<1> QED BY <1>1, <1>2, <1>3, <1>4, <1>5

LEMMA TopMoves ==
  ASSUME NEW p, NEW text, NEW h, NEW st, NEW n, NEW pc, NEW sp, NEW r, NEW m,
         Sound(p, text, h), Good(h, Len(text), st, n, pc, sp, r, m),
         NEW pc2 \in 1..Len(text), NEW sp2, NEW r2, NEW mm,
         h[pc2].in = h[pc].in,
         sp2 = (st[n].ra + 1) - h[pc2].depth,
         r2["rbp"] = BaseOf(st, n, st[n].ra, h[pc2].own),
         LeftAlone(h, st, n - 1, m, mm),
         Linked(h, st, n, st[n].ra, h[pc2], mm),
         Knowing(h, st, n, h[pc2], sp2, r2)
  PROVE  GoodSomewhere(h, Len(text), pc2, sp2, r2, mm)
<1> DEFINE top == [ra |-> st[n].ra, place |-> pc2, base |-> r2["rbp"]]
           st2 == Replaced(st, n, top)
           N   == Len(text)
<1>1. top.ra = st[n].ra /\ top.place = pc2 /\ top.base = r2["rbp"] OBVIOUS
<1>2. Stacked(h, N, st, n, m) /\ n \in Nat \ {0} /\ pc = st[n].place BY GoodParts
<1> HIDE DEF top, N
<1>3. pc2 \in 1..N BY DEF N
<1>4. GoesTo(h, N, st, n, top, mm) BY <1>1, <1>2, <1>3 DEF GoesTo
<1>5. Stacked(h, N, st2, n, mm) /\ \A x : Free(h, st, n, x) => Free(h, st2, n, x)
  BY <1>2, <1>4, TopGoesOn
<1>6. st2[n] = top BY <1>2, ReplacedIs
<1> HIDE DEF st2
<1>7. sp2 = Sp(h, st2[n]) BY <1>1, <1>6 DEF Sp
<1>8. Knowing(h, st2, n, h[pc2], sp2, r2) BY <1>5 DEF Knowing
<1>9. Good(h, N, st2, n, pc2, sp2, r2, mm) BY <1>1, <1>5, <1>6, <1>7, <1>8 DEF Good
<1> QED BY <1>9 DEF GoodSomewhere, N

(* Deeper than the links, or not deeper than before: the words are there.  *)
LEMMA LinkedElsewhere ==
  ASSUME NEW h, NEW st, NEW k, NEW ra \in Int, NEW s, NEW t, NEW m, NEW mm,
         Linked(h, st, k, ra, s, m), Sensible(s), t.in = s.in, t.depth \in Int,
         t.depth <= s.depth \/ Links(s.in) <= s.depth,
         \A a \in Int : (ra + 1) - s.depth <= a /\ ra - Links(s.in) < a /\ a <= ra => WordOf(mm, a) = WordOf(m, a)
  PROVE  Linked(h, st, k, ra, t, mm)
<1> DEFINE w0 == WordOf(m, ra)  w1 == WordOf(m, ra - 1)  w2 == WordOf(m, ra - 2)
           d == s.depth  e == t.depth  links == Links(s.in)
<1>1. links = 2 \/ links = 3 BY LinksIs
<1>2. d \in Int /\ 1 <= d /\ e \in Int BY SensibleHas
<1>3. e <= d \/ links <= d OBVIOUS
<1>4. \A a \in Int : (ra + 1) - d <= a /\ ra - links < a /\ a <= ra => WordOf(mm, a) = WordOf(m, a)
  OBVIOUS
<1>5. /\ s.in # Nobody
      /\ w0 = <<"return", Caller(st, k).place>>
      /\ d >= 2 /\ s.in[1] = "sub"       => w1 = Caller(st, k).base
      /\ d >= 2 /\ s.in[1] = "init"      => IsPlaceAbove(h, st, k, ra, w1)
      /\ d >= 3 /\ links = 3             => IsPlaceAbove(h, st, k, ra, w2)
  BY DEF Linked
<1>6. t.in = s.in /\ Links(t.in) = links OBVIOUS
<1> HIDE DEF d, e, links
<1>7. WordOf(mm, ra) = w0
  <2>1. ra \in Int /\ (ra + 1) - d <= ra /\ ra - links < ra /\ ra <= ra BY <1>1, <1>2
  <2> QED BY <1>4, <2>1
<1>8. ASSUME e >= 2 PROVE d >= 2 /\ WordOf(mm, ra - 1) = w1
  <2>1. d >= 2 BY <1>1, <1>2, <1>3, <1>8
  <2>2. ra - 1 \in Int /\ (ra + 1) - d <= ra - 1 /\ ra - links < ra - 1 /\ ra - 1 <= ra
    BY <1>1, <1>2, <2>1
  <2> QED BY <1>4, <2>1, <2>2
<1>9. ASSUME e >= 3, links = 3 PROVE d >= 3 /\ WordOf(mm, ra - 2) = w2
  <2>1. d >= 3 BY <1>1, <1>2, <1>3, <1>9
  <2>2. ra - 2 \in Int /\ (ra + 1) - d <= ra - 2 /\ ra - links < ra - 2 /\ ra - 2 <= ra
    BY <1>2, <1>9, <2>1
  <2> QED BY <1>4, <2>1, <2>2
<1> HIDE DEF w0, w1, w2
<1>10. /\ t.in # Nobody
       /\ WordOf(mm, ra) = <<"return", Caller(st, k).place>>
       /\ e >= 2 /\ t.in[1] = "sub"       => WordOf(mm, ra - 1) = Caller(st, k).base
       /\ e >= 2 /\ t.in[1] = "init"      => IsPlaceAbove(h, st, k, ra, WordOf(mm, ra - 1))
       /\ e >= 3 /\ Links(t.in) = 3       => IsPlaceAbove(h, st, k, ra, WordOf(mm, ra - 2))
  BY <1>5, <1>6, <1>7, <1>8, <1>9
<1> QED BY <1>10 DEF Linked, e

LEMMA GoesAlong ==
  ASSUME NEW p, NEW text, NEW h, NEW st, NEW n, NEW pc, NEW sp, NEW r, NEW m,
         Sound(p, text, h), Good(h, Len(text), st, n, pc, sp, r, m),
         NEW pc2 \in 1..Len(text), NEW sp2, NEW r2, NEW mm,
         h[pc2].in = h[pc].in, h[pc2].depth \in Int,
         h[pc2].depth <= h[pc].depth \/ Links(h[pc].in) <= h[pc].depth,
         sp2 = (st[n].ra + 1) - h[pc2].depth,
         r2["rbp"] = BaseOf(st, n, st[n].ra, h[pc2].own),
         Spared(h, st, n, sp, m, mm),
         Knowing(h, st, n, h[pc2], sp2, r2)
  PROVE  GoodSomewhere(h, Len(text), pc2, sp2, r2, mm)
<1> DEFINE ra == st[n].ra  s == h[pc]  t == h[pc2]
<1>1. /\ Stacked(h, Len(text), st, n, m) /\ n \in 1..n /\ pc = st[n].place /\ sp = Sp(h, st[n])
      /\ ra \in Int /\ sp = (ra + 1) - s.depth /\ Lowest(h, st[n]) = ra - Links(s.in)
      /\ Linked(h, st, n, ra, s, m)
  BY GoodParts
<1>2. LeftAlone(h, st, n - 1, m, mm) BY <1>1, SparedBelow
<1>3. Sensible(s) BY GoodHas
<1>4. \A a \in Int : (ra + 1) - s.depth <= a /\ ra - Links(s.in) < a /\ a <= ra => WordOf(mm, a) = WordOf(m, a)
  BY <1>1 DEF Spared, Guarded
<1>5. t.in = s.in /\ t.depth \in Int /\ (t.depth <= s.depth \/ Links(s.in) <= s.depth) OBVIOUS
<1> HIDE DEF ra, s, t
<1>6. Linked(h, st, n, ra, t, mm) BY <1>1, <1>3, <1>4, <1>5, LinkedElsewhere
<1> QED BY <1>2, <1>6, TopMoves DEF ra, s, t

-----------------------------------------------------------------------------
(* Control goes on to the next instruction.                                *)

LEMMA NextPlace ==
  ASSUME NEW p, NEW text, NEW h, NEW st, NEW n, NEW pc, NEW sp, NEW r, NEW m,
         Sound(p, text, h), Good(h, Len(text), st, n, pc, sp, r, m), GoesOn(text[pc])
  PROVE  /\ pc + 1 \in 1..Len(text)
         /\ h[pc + 1].depth = Behind(text[pc], h[pc].depth) /\ h[pc + 1].depth \in Int
         /\ h[pc + 1].in = h[pc].in
         /\ h[pc + 1].own = OwnBehind(text[pc], h[pc].own)
         /\ KnowsBehind(text[pc], h[pc], h[pc + 1].knows)
<1>1. /\ Follows(text[pc], h[pc], h[pc + 1]) /\ pc + 1 \in 1..Len(text) /\ h[pc].in # Nobody
  BY GoodHas
<1>2. /\ h[pc + 1].depth = Behind(text[pc], h[pc].depth)
      /\ h[pc + 1].in = h[pc].in
      /\ h[pc + 1].own = OwnBehind(text[pc], h[pc].own)
      /\ KnowsBehind(text[pc], h[pc], h[pc + 1].knows)
  BY <1>1 DEF Follows
<1> DEFINE i == pc + 1  s == h[i]  odd == OddForeignAt(p, text, i)
<1>3. Fits(p, text[i], h[i], h[i + 1], odd) BY <1>1 DEF Sound, Flows
<1>4. h[i].in # Nobody BY <1>1, <1>2
<1> HIDE DEF odd, i
<1>5. Sensible(s) BY <1>3, <1>4 DEF Fits, InstrFits
<1>6. s.depth \in Int BY <1>5, SensibleHas
<1> QED BY <1>1, <1>2, <1>6 DEF i

(* With rbp as it is.                                                      *)
LEMMA StepsOn ==
  ASSUME NEW p, NEW text, NEW h, NEW st, NEW n, NEW pc, NEW sp, NEW r, NEW m,
         Sound(p, text, h), Good(h, Len(text), st, n, pc, sp, r, m), GoesOn(text[pc]),
         text[pc] # SetsBase, text[pc] # RestoresBase,
         NEW sp2, NEW r2, NEW mm,
         Behind(text[pc], h[pc].depth) <= h[pc].depth \/ Links(h[pc].in) <= h[pc].depth,
         sp2 = (sp + h[pc].depth) - Behind(text[pc], h[pc].depth),
         r2["rbp"] = r["rbp"],
         Spared(h, st, n, sp, m, mm),
         Knowing(h, st, n, h[pc + 1], sp2, r2)
  PROVE  GoodSomewhere(h, Len(text), pc + 1, sp2, r2, mm)
<1> DEFINE ra == st[n].ra  s == h[pc]  t == h[pc + 1]  b == Behind(text[pc], s.depth)
<1>1. /\ pc + 1 \in 1..Len(text) /\ t.depth = b /\ t.depth \in Int /\ t.in = s.in
      /\ t.own = OwnBehind(text[pc], s.own)
  BY NextPlace
<1>2. /\ ra \in Int /\ sp = (ra + 1) - s.depth /\ r["rbp"] = st[n].base
      /\ st[n].base = BaseOf(st, n, ra, s.own)
  BY GoodParts
<1>3. Sensible(s) BY GoodHas
<1>4. s.depth \in Int /\ s.own \in BOOLEAN BY <1>3, SensibleHas
<1>5. t.own = s.own BY <1>1, <1>4 DEF OwnBehind
<1>6. r2["rbp"] = BaseOf(st, n, ra, t.own) BY <1>2, <1>5
<1>7. t.depth <= s.depth \/ Links(s.in) <= s.depth BY <1>1
<1>8. sp2 = (ra + 1) - t.depth
  <2> DEFINE d == s.depth  e == t.depth
  <2>1. sp2 = (sp + d) - e BY <1>1
  <2>2. d \in Int /\ e \in Int /\ ra \in Int /\ sp = (ra + 1) - d BY <1>1, <1>2, <1>4
  <2> HIDE DEF d, e, ra
  <2>3. sp2 = (ra + 1) - e BY <2>1, <2>2
  <2> QED BY <2>3 DEF e
<1> QED BY <1>1, <1>6, <1>7, <1>8, GoesAlong

(* What is known stays known, or nothing is.                               *)
LEMMA KnowsOn ==
  ASSUME NEW p, NEW text, NEW h, NEW st, NEW n, NEW pc, NEW sp, NEW r, NEW m,
         Sound(p, text, h), Good(h, Len(text), st, n, pc, sp, r, m), GoesOn(text[pc]),
         NEW sp2 \in Int, NEW r2,
         ~FindsPlace(text[pc], h[pc]), text[pc] # AsksCode,
         KeepsRdi(text[pc]) => r2["rdi"] = r["rdi"] /\ sp2 <= sp
  PROVE  Knowing(h, st, n, h[pc + 1], sp2, r2)
<1> DEFINE k == h[pc + 1].knows  kk == h[pc].knows  instr == text[pc]  s == h[pc]
<1>1. KnowsBehind(instr, s, k) BY NextPlace
<1>2. Knowing(h, st, n, s, sp, r) /\ sp \in Int BY GoodParts
<1>3. k = "nothing" \/ (k = "place" /\ kk = "place" /\ KeepsRdi(instr))
  BY <1>1 DEF KnowsBehind
<1>4. CASE k = "nothing" BY <1>4 DEF Knowing
<1>5. CASE k = "place" /\ kk = "place" /\ KeepsRdi(instr)
  <2>1. r2["rdi"] = r["rdi"] /\ sp2 <= sp BY <1>5
  <2>2. IsAddress(r["rdi"]) /\ r["rdi"][2] >= sp /\ Free(h, st, n, r["rdi"][2]) BY <1>2, <1>5 DEF Knowing
  <2>3. r["rdi"][2] \in Int BY <2>2 DEF IsAddress
  <2>4. r["rdi"][2] >= sp2 BY <1>2, <2>1, <2>2, <2>3
  <2>5. k # "code" BY <1>5
  <2> QED BY <2>1, <2>2, <2>4, <2>5 DEF Knowing
<1> QED BY <1>3, <1>4, <1>5

LEMMA Plain ==
  ASSUME NEW instr, NEW s, instr[1] \notin {"mov", "lea"}
  PROVE  /\ ~FindsPlace(instr, s) /\ instr # AsksCode /\ instr # SetsBase /\ instr # GivesBack
         /\ KeepsRdi(instr) => instr[1] \in {"push", "label", "sub"}
         /\ instr[1] # "pop" => instr # RestoresBase
BY DEF FindsPlace, KeepsRdi, AsksCode, SetsBase, GivesBack, RestoresBase

(* Nothing happens to the stack.                                           *)
LEMMA StaysThere ==
  ASSUME NEW p, NEW text, NEW h, NEW st, NEW n, NEW pc, NEW sp, NEW r, NEW m,
         Sound(p, text, h), Good(h, Len(text), st, n, pc, sp, r, m),
         text[pc][1] \in {"test", "label", "jnz", "call"}, NEW r2, NEW mm,
         r2["rbp"] = r["rbp"], text[pc][1] = "label" => r2["rdi"] = r["rdi"],
         Spared(h, st, n, sp, m, mm)
  PROVE  GoodSomewhere(h, Len(text), pc + 1, sp, r2, mm)
<1> DEFINE instr == text[pc]  s == h[pc]
<1>1. GoesOn(instr) BY DEF GoesOn
<1>2. instr[1] \notin {"mov", "lea", "pop", "push", "sub"} OBVIOUS
<1>3. /\ ~FindsPlace(instr, s) /\ instr # AsksCode /\ instr # SetsBase /\ instr # GivesBack
      /\ KeepsRdi(instr) => instr[1] = "label"
      /\ instr # RestoresBase
  BY <1>2, Plain
<1>4. sp \in Int BY GoodParts
<1>5. Behind(instr, s.depth) = s.depth BY <1>2, <1>3 DEF Behind
<1>6. Sensible(s) BY GoodHas
<1>7. s.depth \in Int BY <1>6, SensibleHas
<1>8. sp = (sp + s.depth) - Behind(instr, s.depth) /\ Behind(instr, s.depth) <= s.depth
  BY <1>4, <1>5, <1>7
<1>9. sp <= sp BY <1>4
<1>10. Knowing(h, st, n, h[pc + 1], sp, r2) BY <1>1, <1>3, <1>4, <1>9, KnowsOn
<1> QED BY <1>1, <1>3, <1>8, <1>10, StepsOn

-----------------------------------------------------------------------------
(* The steps.                                                              *)

Stands(h, st, n) ==
  /\ Sound(Programs[program], code.text, h)
  /\ Good(h, Len(code.text), st, n, rip, rsp, regs, mem)
  /\ IsRegs(regs)
Continues(h) ==
  /\ IsRegs(regs')
  /\ rip' # 0 => GoodSomewhere(h, Len(code.text), rip', rsp', regs', mem')

LEMMA LoadedIs ==
  /\ \A x : Loaded(Reg(x)) = Register(x)
  /\ \A l : Loaded(Sym(l)) = CodeAt(l)
  /\ \A o : o[1] = "mem" => Loaded(o) = Word(At1(o)) /\ Effective(o) = Address(At1(o))
  /\ Register("rbp") = regs["rbp"] /\ Register("rdi") = regs["rdi"] /\ Register("rax") = regs["rax"]
  /\ Register("rsp") = Address(rsp)
BY DEF Loaded, Effective, Reg, Sym, Register

LEMMA SetReg ==
  ASSUME NEW r, IsRegs(r), NEW x, NEW word
  PROVE  /\ IsRegs([r EXCEPT ![x] = word])
         /\ \A y : y # x => [r EXCEPT ![x] = word][y] = r[y]
         /\ x \in DOMAIN r => [r EXCEPT ![x] = word][x] = word
BY DEF IsRegs

LEMMA PlaceIsAbove ==
  ASSUME NEW h, NEW st, NEW n \in Nat \ {0}, NEW ra \in Int, NEW sp \in Int, NEW word,
         st[n].ra = ra, Lowest(h, st[n]) \in Int, Lowest(h, st[n]) < sp,
         IsAddress(word), word[2] >= sp, Free(h, st, n, word[2])
  PROVE  IsPlaceAbove(h, st, n, ra, word)
<1> DEFINE x == word[2]  low == Lowest(h, st[n])
<1>1. n \in 1..n OBVIOUS
<1>2. x > ra \/ x + 2 <= low BY <1>1 DEF Free
<1>3. x \in Int BY DEF IsAddress
<1>4. x >= sp /\ low \in Int /\ low < sp OBVIOUS
<1> HIDE DEF x, low
<1>5. x > ra BY <1>2, <1>3, <1>4
<1>6. Free(h, st, n - 1, x) BY DEF Free, x
<1> QED BY <1>5, <1>6 DEF IsPlaceAbove, x

(* One more of the words that control depends on.                          *)
LEMMA PushedLink ==
  ASSUME NEW h, NEW st, NEW n, NEW ra \in Int, NEW s, NEW t, NEW m, NEW word,
         Linked(h, st, n, ra, s, m), Sensible(s), s.depth < Links(s.in),
         t.in = s.in, t.depth = s.depth + 1,
         s.depth = 1 /\ s.in[1] = "sub" => word = Caller(st, n).base,
         s.depth = 1 /\ s.in[1] = "init" => IsPlaceAbove(h, st, n, ra, word),
         s.depth = 2 /\ Links(s.in) = 3 => IsPlaceAbove(h, st, n, ra, word)
  PROVE  Linked(h, st, n, ra, t, Extended(m, ra - s.depth, word))
<1> DEFINE d == s.depth  e == t.depth  links == Links(s.in)  mm == Extended(m, ra - d, word)
           w0 == WordOf(m, ra)  w1 == WordOf(m, ra - 1)
<1>1. links = 2 \/ links = 3 BY LinksIs
<1>2. d \in Int /\ 1 <= d BY SensibleHas
<1>3. d < links /\ e = d + 1 /\ t.in = s.in /\ Links(t.in) = links OBVIOUS
<1>4. /\ s.in # Nobody
      /\ w0 = <<"return", Caller(st, n).place>>
      /\ d >= 2 /\ s.in[1] = "sub"       => w1 = Caller(st, n).base
      /\ d >= 2 /\ s.in[1] = "init"      => IsPlaceAbove(h, st, n, ra, w1)
  BY DEF Linked
<1>5. /\ d = 1 /\ s.in[1] = "sub" => word = Caller(st, n).base
      /\ d = 1 /\ s.in[1] = "init" => IsPlaceAbove(h, st, n, ra, word)
      /\ d = 2 /\ links = 3 => IsPlaceAbove(h, st, n, ra, word)
  OBVIOUS
<1>6. WordOf(mm, ra - d) = word /\ \A a : a # ra - d => WordOf(mm, a) = WordOf(m, a) BY WordStored
<1> HIDE DEF d, e, links, mm
<1>7. WordOf(mm, ra) = w0
  <2>1. ra # ra - d BY <1>2
  <2> QED BY <1>6, <2>1
<1>8. CASE d = 1
  <2>1. WordOf(mm, ra - 1) = word /\ ~(e >= 3) BY <1>3, <1>6, <1>8
  <2>2. /\ t.in # Nobody
        /\ WordOf(mm, ra) = <<"return", Caller(st, n).place>>
        /\ e >= 2 /\ t.in[1] = "sub"       => WordOf(mm, ra - 1) = Caller(st, n).base
        /\ e >= 2 /\ t.in[1] = "init"      => IsPlaceAbove(h, st, n, ra, WordOf(mm, ra - 1))
        /\ e >= 3 /\ Links(t.in) = 3       => IsPlaceAbove(h, st, n, ra, WordOf(mm, ra - 2))
    BY <1>3, <1>4, <1>5, <1>7, <1>8, <2>1
  <2> QED BY <2>2 DEF Linked, e, mm, d
<1>9. CASE d # 1
  <2>1. d = 2 /\ links = 3 BY <1>1, <1>2, <1>3, <1>9
  <2>2. ra - 1 # ra - d BY <2>1
  <2>3. WordOf(mm, ra - 1) = w1 /\ WordOf(mm, ra - 2) = word BY <1>6, <2>1, <2>2
  <2>4. d >= 2 BY <2>1
  <2>5. /\ t.in # Nobody
        /\ WordOf(mm, ra) = <<"return", Caller(st, n).place>>
        /\ e >= 2 /\ t.in[1] = "sub"       => WordOf(mm, ra - 1) = Caller(st, n).base
        /\ e >= 2 /\ t.in[1] = "init"      => IsPlaceAbove(h, st, n, ra, WordOf(mm, ra - 1))
        /\ e >= 3 /\ Links(t.in) = 3       => IsPlaceAbove(h, st, n, ra, WordOf(mm, ra - 2))
    BY <1>3, <1>4, <1>5, <1>7, <2>1, <2>3, <2>4
  <2> QED BY <2>5 DEF Linked, e, mm, d
<1> QED BY <1>8, <1>9

LEMMA PushSteps ==
  ASSUME NEW h, NEW st, NEW n, Stands(h, st, n), Push
  PROVE  Continues(h)
<1> DEFINE p == Programs[program]  text == code.text  N == Len(text)  instr == text[rip]  s == h[rip]
           t == h[rip + 1]  d == s.depth  ra == st[n].ra  word == Loaded(instr[2])
<1>1. Sound(p, text, h) /\ Good(h, N, st, n, rip, rsp, regs, mem) /\ IsRegs(regs) BY DEF Stands
<1>2. /\ instr[1] = "push" /\ rsp' = rsp - 1 /\ mem' = Extended(mem, rsp - 1, word)
      /\ rip' = rip + 1 /\ regs' = regs
  BY DEF Push, Is, Instr
<1>3. Sensible(s) /\ InstrFits(p, instr, s, OddForeignAt(p, text, rip)) BY <1>1, GoodHas
<1>4. PushFits(instr, s)
  <2> DEFINE odd == OddForeignAt(p, text, rip)
  <2> HIDE DEF odd, instr, s, p
  <2> QED BY <1>2, <1>3 DEF InstrFits
<1>5. GoesOn(instr) BY <1>2 DEF GoesOn
<1>6. instr[1] \notin {"mov", "lea", "pop"} BY <1>2
<1>7. ~FindsPlace(instr, s) /\ instr # AsksCode /\ instr # SetsBase /\ instr # RestoresBase
      /\ instr # GivesBack
  BY <1>6, Plain
<1>8. /\ n \in Nat \ {0} /\ rsp \in Int /\ rsp <= ra /\ rsp = (ra + 1) - d /\ ra \in Int
      /\ Lowest(h, st[n]) = ra - Links(s.in) /\ Linked(h, st, n, ra, s, mem)
      /\ regs["rbp"] = st[n].base /\ st[n].base = BaseOf(st, n, ra, s.own)
      /\ Stacked(h, N, st, n, mem) /\ Knowing(h, st, n, s, rsp, regs)
      /\ rip = st[n].place /\ rsp = Sp(h, st[n])
  BY <1>1, GoodParts
<1>9. d \in Int /\ 1 <= d /\ s.own \in BOOLEAN /\ (s.own => 2 <= d) /\ (s.own => s.in[1] = "sub")
  BY <1>3, SensibleHas
<1>10. Behind(instr, d) = d + 1 BY <1>2 DEF Behind
<1>11. rsp - 1 \in Int /\ rsp - 1 < rsp /\ rsp - 1 <= rsp BY <1>8
<1>12. Spared(h, st, n, rsp, mem, mem') BY <1>2, <1>8, <1>11, StoredBelow
<1>13. Knowing(h, st, n, t, rsp - 1, regs) BY <1>1, <1>5, <1>7, <1>11, KnowsOn
<1>14. GoodSomewhere(h, N, rip + 1, rsp - 1, regs, mem')
  <2>1. CASE Links(s.in) <= d
    <3>1. rsp - 1 = (rsp + d) - Behind(instr, d) BY <1>8, <1>9, <1>10
    <3> QED BY <1>1, <1>5, <1>7, <1>12, <1>13, <2>1, <3>1, StepsOn
  <2>2. CASE ~(Links(s.in) <= d)
    <3>1. Links(s.in) = 2 \/ Links(s.in) = 3 BY LinksIs
    <3>2. d < Links(s.in) BY <1>9, <2>2, <3>1
    <3>3. /\ rip + 1 \in 1..N /\ t.depth = d + 1 /\ t.in = s.in /\ t.own = OwnBehind(instr, s.own)
      BY <1>1, <1>5, <1>10, NextPlace
    <3>4. t.own = s.own BY <1>7, <1>9, <3>3 DEF OwnBehind
    <3>5. d = 1 /\ s.in[1] = "sub" => word = Caller(st, n).base
      <4>1. ASSUME d = 1, s.in[1] = "sub" PROVE word = Caller(st, n).base
        <5>1. instr[2] = Reg("rbp") BY <1>4, <4>1 DEF PushFits
        <5>2. word = regs["rbp"] BY <5>1, LoadedIs
        <5>3. ~(2 <= d) BY <4>1
        <5>4. ~s.own BY <1>9, <5>3
        <5> QED BY <1>8, <5>2, <5>4 DEF BaseOf
      <4> QED BY <4>1
    <3>6. ASSUME \/ d = 1 /\ s.in[1] = "init"
                 \/ d = 2 /\ Links(s.in) = 3
          PROVE  IsPlaceAbove(h, st, n, ra, word)
      <4>1. instr[2] = Reg("rdi") /\ s.knows = "place" BY <1>4, <3>6 DEF PushFits
      <4>2. word = regs["rdi"] BY <4>1, LoadedIs
      <4>3. IsAddress(word) /\ word[2] >= rsp /\ Free(h, st, n, word[2]) BY <1>8, <4>1, <4>2 DEF Knowing
      <4>4. Lowest(h, st[n]) \in Int /\ Lowest(h, st[n]) < rsp
        <5> DEFINE links == Links(s.in)  low == Lowest(h, st[n])
        <5>1. low = ra - links /\ d < links /\ (links = 2 \/ links = 3) BY <1>8, <3>1, <3>2
        <5> HIDE DEF links, low, d, ra
        <5>2. low \in Int /\ low < rsp BY <1>8, <1>9, <5>1
        <5> QED BY <5>2 DEF low
      <4> HIDE DEF word, ra
      <4>5. st[n].ra = ra BY DEF ra
      <4> QED BY <1>8, <4>3, <4>4, <4>5, PlaceIsAbove
    <3>7. Linked(h, st, n, ra, t, Extended(mem, ra - d, word))
      <4>1. /\ d = 1 /\ s.in[1] = "init" => IsPlaceAbove(h, st, n, ra, word)
            /\ d = 2 /\ Links(s.in) = 3 => IsPlaceAbove(h, st, n, ra, word)
        BY <3>6
      <4>2. t.in = s.in /\ t.depth = s.depth + 1 BY <3>3
      <4> HIDE DEF word, ra, t
      <4> QED BY <1>3, <1>8, <3>2, <3>5, <4>1, <4>2, PushedLink
    <3>8. rsp - 1 = ra - d BY <1>8, <1>9
    <3>9. Linked(h, st, n, ra, t, mem') BY <1>2, <3>7, <3>8
    <3>10. rsp - 1 = (ra + 1) - t.depth
      <4> DEFINE e == t.depth
      <4>1. e = d + 1 BY <3>3
      <4> HIDE DEF d, e, ra
      <4>2. rsp - 1 = (ra + 1) - e BY <1>8, <1>9, <4>1
      <4> QED BY <4>2 DEF e, ra
    <3>11. regs["rbp"] = BaseOf(st, n, ra, t.own) BY <1>8, <3>4
    <3>12. LeftAlone(h, st, n - 1, mem, mem') BY <1>1, <1>8, <1>12, SparedBelow
    <3> QED BY <1>1, <1>13, <3>3, <3>9, <3>10, <3>11, <3>12, TopMoves
  <2> QED BY <2>1, <2>2
<1> QED BY <1>1, <1>2, <1>14 DEF Continues

LEMMA SparedSame ==
  ASSUME NEW h, NEW st, NEW n, NEW sp, NEW m
  PROVE  Spared(h, st, n, sp, m, m)
BY DEF Spared

LEMMA PopSteps ==
  ASSUME NEW h, NEW st, NEW n, Stands(h, st, n), Pop
  PROVE  Continues(h)
<1> DEFINE p == Programs[program]  text == code.text  N == Len(text)  instr == text[rip]  s == h[rip]
           t == h[rip + 1]  d == s.depth  ra == st[n].ra  x == instr[2][2]
<1>1. Sound(p, text, h) /\ Good(h, N, st, n, rip, rsp, regs, mem) /\ IsRegs(regs) BY DEF Stands
<1>2. /\ instr[1] = "pop" /\ rsp' = rsp + 1 /\ mem' = mem
      /\ rip' = rip + 1 /\ regs' = [regs EXCEPT ![x] = Word(rsp)]
  BY DEF Pop, Is, Instr
<1>3. Sensible(s) /\ InstrFits(p, instr, s, OddForeignAt(p, text, rip)) BY <1>1, GoodHas
<1>4. PopFits(instr, s)
  <2> DEFINE odd == OddForeignAt(p, text, rip)
  <2> HIDE DEF odd, instr, s, p
  <2> QED BY <1>2, <1>3 DEF InstrFits
<1>5. GoesOn(instr) BY <1>2 DEF GoesOn
<1>6. instr[1] \notin {"mov", "lea", "push", "label", "sub"} BY <1>2
<1>7. /\ ~FindsPlace(instr, s) /\ instr # AsksCode /\ instr # SetsBase /\ ~KeepsRdi(instr)
      /\ instr # GivesBack
  BY <1>6, Plain
<1>8. /\ n \in Nat \ {0} /\ rsp \in Int /\ rsp = (ra + 1) - d /\ ra \in Int
      /\ Linked(h, st, n, ra, s, mem) /\ Stacked(h, N, st, n, mem)
      /\ regs["rbp"] = st[n].base /\ st[n].base = BaseOf(st, n, ra, s.own)
  BY <1>1, GoodParts
<1>9. d \in Int /\ 2 <= d /\ s.own \in BOOLEAN /\ (s.own => s.in[1] = "sub")
  <2>1. d \in Int /\ s.own \in BOOLEAN /\ (s.own => s.in[1] = "sub") BY <1>3, SensibleHas
  <2>2. d >= 2 BY <1>4 DEF PopFits
  <2> QED BY <2>1, <2>2
<1>10. Behind(instr, d) = d - 1 BY <1>2 DEF Behind
<1>11. rsp + 1 \in Int BY <1>8
<1>12. Spared(h, st, n, rsp, mem, mem') BY <1>2, SparedSame
<1>13. Knowing(h, st, n, t, rsp + 1, regs') BY <1>1, <1>5, <1>7, <1>11, KnowsOn
<1>14. IsRegs(regs') BY <1>1, <1>2, SetReg
<1>15. rsp + 1 = (rsp + d) - (d - 1) BY <1>8, <1>9
<1>16. d - 1 <= d BY <1>9
<1>17. GoodSomewhere(h, N, rip + 1, rsp + 1, regs', mem')
  <2>1. CASE x # "rbp"
    <3>1. regs'["rbp"] = regs["rbp"] BY <1>1, <1>2, <2>1, SetReg
    <3>2. instr # RestoresBase BY <2>1 DEF RestoresBase, Reg
    <3> QED BY <1>1, <1>5, <1>7, <1>10, <1>12, <1>13, <1>15, <1>16, <3>1, <3>2, StepsOn
  <2>2. CASE x = "rbp"
    <3>1. instr = RestoresBase /\ s.own /\ d = 2 BY <1>4, <2>2 DEF PopFits
    <3>2. /\ rip + 1 \in 1..N /\ t.depth = d - 1 /\ t.depth \in Int /\ t.in = s.in
          /\ t.own = OwnBehind(instr, s.own)
      BY <1>1, <1>5, <1>10, NextPlace
    <3>3. ~t.own BY <3>1, <3>2 DEF OwnBehind
    <3>4. rsp = ra - 1 BY <1>8, <3>1
    <3>5. WordOf(mem, ra - 1) = Caller(st, n).base
      <4>1. s.depth >= 2 /\ s.in[1] = "sub" BY <1>9, <3>1
      <4> QED BY <1>8, <4>1 DEF Linked
    <3>6. Word(rsp) = Caller(st, n).base BY <3>4, <3>5 DEF Word, WordOf
    <3>7. "rbp" \in DOMAIN regs BY <1>1 DEF IsRegs
    <3>8. regs'["rbp"] = Word(rsp) BY <1>1, <1>2, <2>2, <3>7, SetReg
    <3>9. regs'["rbp"] = BaseOf(st, n, ra, t.own) BY <3>3, <3>6, <3>8 DEF BaseOf
    <3>10. rsp + 1 = (ra + 1) - t.depth /\ t.depth <= d
      <4> DEFINE e == t.depth
      <4>1. e = d - 1 BY <3>2
      <4> HIDE DEF d, e, ra
      <4>2. rsp + 1 = (ra + 1) - e /\ e <= d BY <1>8, <1>9, <4>1
      <4> QED BY <4>2 DEF e, d, ra
    <3> QED BY <1>1, <1>12, <1>13, <3>2, <3>9, <3>10, GoesAlong
  <2> QED BY <2>1, <2>2
<1> QED BY <1>2, <1>14, <1>17 DEF Continues

LEMMA MoveStackSteps ==
  ASSUME NEW h, NEW st, NEW n, Stands(h, st, n), MoveStack
  PROVE  Continues(h)
<1> DEFINE p == Programs[program]  text == code.text  N == Len(text)  instr == text[rip]  s == h[rip]
           t == h[rip + 1]  d == s.depth  by == instr[2]
<1>1. Sound(p, text, h) /\ Good(h, N, st, n, rip, rsp, regs, mem) /\ IsRegs(regs) BY DEF Stands
<1>2. /\ \/ instr[1] = "sub" /\ rsp' = rsp - by
         \/ instr[1] = "add" /\ rsp' = rsp + by
      /\ mem' = mem /\ rip' = rip + 1 /\ regs' = regs
  BY DEF MoveStack, Is, Instr
<1>3. Sensible(s) /\ InstrFits(p, instr, s, OddForeignAt(p, text, rip)) BY <1>1, GoodHas
<1>4. MoveStackFits(instr, s)
  <2> DEFINE odd == OddForeignAt(p, text, rip)
  <2> HIDE DEF odd, instr, s, p
  <2> QED BY <1>2, <1>3 DEF InstrFits
<1>5. GoesOn(instr) BY <1>2 DEF GoesOn
<1>6. instr[1] \notin {"mov", "lea", "push", "label", "pop"} BY <1>2
<1>7. /\ ~FindsPlace(instr, s) /\ instr # AsksCode /\ instr # SetsBase /\ instr # RestoresBase
      /\ instr # GivesBack /\ (KeepsRdi(instr) => instr[1] = "sub")
  BY <1>6, Plain
<1>8. rsp \in Int BY <1>1, GoodParts
<1>9. d \in Int BY <1>3, SensibleHas
<1>10. by \in Nat \ {0} /\ (instr[1] = "sub" => Links(s.in) <= d) BY <1>4 DEF MoveStackFits
<1>11. Behind(instr, d) = IF instr[1] = "sub" THEN d + by ELSE d - by BY <1>2 DEF Behind
<1>12. rsp' \in Int /\ (instr[1] = "sub" => rsp' <= rsp)
  <2> HIDE DEF by
  <2> QED BY <1>2, <1>8, <1>10
<1>13. Spared(h, st, n, rsp, mem, mem') BY <1>2, SparedSame
<1>14. Knowing(h, st, n, t, rsp', regs) BY <1>1, <1>5, <1>7, <1>12, KnowsOn
<1>15. rsp' = (rsp + d) - Behind(instr, d) /\ (Behind(instr, d) <= d \/ Links(s.in) <= d)
  <2> DEFINE k == instr[1]  links == Links(s.in)
  <2>1. \/ k = "sub" /\ rsp' = rsp - by /\ Behind(instr, d) = d + by /\ links <= d
        \/ k = "add" /\ rsp' = rsp + by /\ Behind(instr, d) = d - by
    <3> HIDE DEF by, d, links, p
    <3>1. CASE instr[1] = "sub"
      <4>1. rsp' = rsp - by BY <1>2, <3>1
      <4>2. links <= d BY <1>10, <3>1 DEF links
      <4>3. Behind(instr, d) = d + by BY <1>11, <3>1
      <4> QED BY <3>1, <4>1, <4>2, <4>3
    <3>2. CASE instr[1] = "add" BY <1>2, <1>11, <3>2
    <3> QED BY <1>2, <3>1, <3>2
  <2> HIDE DEF by, d, k, links
  <2>2. rsp' = (rsp + d) - Behind(instr, d) /\ (Behind(instr, d) <= d \/ links <= d)
    BY <1>8, <1>9, <1>10, <2>1
  <2> QED BY <2>2 DEF links
<1>16. GoodSomewhere(h, N, rip + 1, rsp', regs, mem')
  BY <1>1, <1>5, <1>7, <1>13, <1>14, <1>15, StepsOn
<1> QED BY <1>1, <1>2, <1>16 DEF Continues

LEMMA TestSteps ==
  ASSUME NEW h, NEW st, NEW n, Stands(h, st, n), Test
  PROVE  Continues(h)
<1> DEFINE p == Programs[program]  text == code.text  instr == text[rip]
<1>1. Sound(p, text, h) /\ Good(h, Len(text), st, n, rip, rsp, regs, mem) /\ IsRegs(regs) BY DEF Stands
<1>2. /\ instr[1] = "test" /\ rsp' = rsp /\ mem' = mem /\ rip' = rip + 1
      /\ regs' = [regs EXCEPT !["flag"] = regs["rax"]]
  BY DEF Test, Is, Instr
<1>3. IsRegs(regs') /\ regs'["rbp"] = regs["rbp"]
  <2> DEFINE word == regs["rax"]
  <2>1. regs' = [regs EXCEPT !["flag"] = word] BY <1>2
  <2>2. "rbp" # "flag" OBVIOUS
  <2> DEFINE r2 == [regs EXCEPT !["flag"] = word]
  <2>3. IsRegs(r2) /\ \A y : y # "flag" => r2[y] = regs[y]
    <3> HIDE DEF word
    <3> QED BY <1>1, SetReg
  <2> HIDE DEF r2
  <2> QED BY <2>1, <2>2, <2>3 DEF r2
<1>4. instr[1] \in {"test", "label", "jnz", "call"} /\ instr[1] # "label" BY <1>2
<1>5. Spared(h, st, n, rsp, mem, mem') BY <1>2, SparedSame
<1>6. GoodSomewhere(h, Len(text), rip + 1, rsp, regs', mem') BY <1>1, <1>3, <1>4, <1>5, StaysThere
<1> QED BY <1>2, <1>3, <1>6 DEF Continues

LEMMA PassLabelSteps ==
  ASSUME NEW h, NEW st, NEW n, Stands(h, st, n), PassLabel
  PROVE  Continues(h)
<1> DEFINE p == Programs[program]  text == code.text  instr == text[rip]
<1>1. Sound(p, text, h) /\ Good(h, Len(text), st, n, rip, rsp, regs, mem) /\ IsRegs(regs) BY DEF Stands
<1>2. instr[1] = "label" /\ rsp' = rsp /\ mem' = mem /\ rip' = rip + 1 /\ regs' = regs
  BY DEF PassLabel, Is, Instr
<1>3. instr[1] \in {"test", "label", "jnz", "call"} BY <1>2
<1>4. Spared(h, st, n, rsp, mem, mem') BY <1>2, SparedSame
<1>5. GoodSomewhere(h, Len(text), rip + 1, rsp, regs', mem') BY <1>1, <1>2, <1>3, <1>4, StaysThere
<1> QED BY <1>1, <1>2, <1>5 DEF Continues

LEMMA TargetHas ==
  ASSUME NEW h, NEW label, Sound(Programs[program], code.text, h), IsNoted(label), label[1] # "E"
  PROVE  /\ Target(label) \in 1..Len(code.text)
         /\ code.text[Target(label)][2] = label
         /\ LabelFits(Programs[program], code.text[Target(label)], h[Target(label)])
         /\ h[Target(label)].in # Nobody
         /\ Sensible(h[Target(label)])
<1> DEFINE p == Programs[program]  text == code.text  j == Target(label)  instr == text[j]
           odd == OddForeignAt(p, text, j)
<1>1. j \in DOMAIN text /\ instr[1] = "label" /\ instr[2] = label BY DEF Target, IsNoted
<1>2. j \in 1..Len(text) BY <1>1, SeqHas DEF Sound
<1>3. Fits(p, instr, h[j], h[j + 1], odd) BY <1>2 DEF Sound, Flows
<1> HIDE DEF odd, instr, p, j
<1>4. h[j].in # Nobody BY <1>1, <1>3 DEF Fits
<1>5. InstrFits(p, instr, h[j], odd) BY <1>3, <1>4 DEF Fits
<1>6. LabelFits(p, instr, h[j]) /\ Sensible(h[j]) BY <1>1, <1>5 DEF InstrFits
<1> QED BY <1>1, <1>2, <1>4, <1>6 DEF p, instr, j

LEMMA JumpSteps ==
  ASSUME NEW h, NEW st, NEW n, Stands(h, st, n), Assembled, Jump
  PROVE  Continues(h)
<1> DEFINE p == Programs[program]  text == code.text  N == Len(text)  instr == text[rip]  s == h[rip]
           label == instr[2]  j == Target(label)
<1>1. Sound(p, text, h) /\ Good(h, N, st, n, rip, rsp, regs, mem) /\ IsRegs(regs) BY DEF Stands
<1>2. /\ rsp' = rsp /\ mem' = mem /\ regs' = regs
      /\ \/ instr[1] \in {"jmp", "jnz"} /\ rip' = j
         \/ instr[1] = "jnz" /\ rip' = rip + 1
  BY DEF Jump, Is, Instr
<1>3. Spared(h, st, n, rsp, mem, mem') BY <1>2, SparedSame
<1>4. CASE instr[1] \in {"jmp", "jnz"} /\ rip' = j
  <2>1. rip \in 1..N /\ DOMAIN text = 1..N /\ InstrFits(p, instr, s, OddForeignAt(p, text, rip)) /\ Sensible(s)
    BY <1>1, GoodHas
  <2>2. IsNoted(label) BY <1>4, <2>1 DEF Assembled
  <2>3. JumpFits(p, instr, s)
    <3> DEFINE odd == OddForeignAt(p, text, rip)
    <3> HIDE DEF odd, instr, s, p
    <3> QED BY <1>4, <2>1 DEF InstrFits
  <2>4. InBody(label) /\ s.in = TheBody(label[2]) /\ s.own /\ s.depth = FrameOf(p, label[2])
    BY <2>3 DEF JumpFits
  <2>5. label[1] # "E" BY <2>4 DEF InBody
  <2> DEFINE t == h[j]
  <2>6. /\ j \in 1..N /\ text[j][2] = label /\ LabelFits(p, text[j], t) /\ Sensible(t)
    BY <1>1, <2>2, <2>5, TargetHas
  <2>7. t.depth = FrameOf(p, label[2]) /\ t.in = TheBody(label[2]) /\ t.own /\ t.knows = "nothing"
    BY <2>4, <2>6 DEF LabelFits
  <2>8. t.depth \in Int BY <2>6, SensibleHas
  <2>9. /\ rsp = (st[n].ra + 1) - s.depth /\ regs["rbp"] = st[n].base
        /\ st[n].base = BaseOf(st, n, st[n].ra, s.own)
    BY <1>1, GoodParts
  <2>10. regs["rbp"] = BaseOf(st, n, st[n].ra, t.own) BY <2>4, <2>7, <2>9 DEF BaseOf
  <2>11. Knowing(h, st, n, t, rsp, regs) BY <2>7 DEF Knowing
  <2>12. rsp = (st[n].ra + 1) - t.depth /\ t.depth <= s.depth /\ t.in = s.in BY <2>4, <2>7, <2>8, <2>9
  <2>13. GoodSomewhere(h, N, j, rsp, regs, mem')
    <3> HIDE DEF j
    <3> QED BY <1>1, <1>3, <2>6, <2>8, <2>10, <2>11, <2>12, GoesAlong
  <2> QED BY <1>1, <1>2, <1>4, <2>13 DEF Continues
<1>5. CASE instr[1] = "jnz" /\ rip' = rip + 1
  <2>1. instr[1] \in {"test", "label", "jnz", "call"} /\ instr[1] # "label" BY <1>5
  <2>2. GoodSomewhere(h, N, rip + 1, rsp, regs, mem') BY <1>1, <1>3, <2>1, StaysThere
  <2> QED BY <1>1, <1>2, <1>5, <2>2 DEF Continues
<1> QED BY <1>2, <1>4, <1>5

LEMMA FreeBelowTop ==
  ASSUME NEW p, NEW text, NEW h, NEW st, NEW n, NEW m, NEW x \in Int,
         Sound(p, text, h), Stacked(h, Len(text), st, n, m), x + 2 <= Lowest(h, st[n])
  PROVE  Free(h, st, n, x)
<1>1. ASSUME NEW j \in 1..n PROVE x + 2 <= Lowest(h, st[j])
  <2>1. Lowest(h, st[n]) <= Lowest(h, st[j]) /\ Lowest(h, st[n]) \in Int /\ Lowest(h, st[j]) \in Int
    BY OnStack
  <2> HIDE DEF Lowest
  <2> QED BY <2>1
<1> QED BY <1>1 DEF Free

LEMMA AddressIs ==
  ASSUME NEW x \in Int
  PROVE  IsAddress(Address(x)) /\ Address(x)[2] = x /\ ToAddress(Address(x)) = x
BY DEF IsAddress, Address, ToAddress

(* The place of a value that an instruction finds.                         *)
LEMMA PlaceFound ==
  ASSUME NEW h, NEW st, NEW n, Stands(h, st, n), NEW instr, instr = code.text[rip],
         FindsPlace(instr, h[rip])
  PROVE  \E word : /\ instr[1] = "lea" => Effective(instr[2]) = word
                   /\ instr[1] = "mov" => Loaded(instr[2]) = word
                   /\ IsAddress(word) /\ word[2] >= rsp /\ Free(h, st, n, word[2])
<1> DEFINE p == Programs[program]  text == code.text  N == Len(text)  s == h[rip]  d == s.depth
           ra == st[n].ra  o == instr[2]  x == At1(o)  links == Links(s.in)
<1>1. Sound(p, text, h) /\ Good(h, N, st, n, rip, rsp, regs, mem) BY DEF Stands
<1>2. Sensible(s) BY <1>1, GoodHas
<1>3. d \in Int /\ 1 <= d BY <1>2, SensibleHas
<1>4. /\ n \in Nat \ {0} /\ n \in 1..n /\ rsp \in Int /\ rsp = (ra + 1) - d /\ ra \in Int /\ rsp <= ra
      /\ Linked(h, st, n, ra, s, mem) /\ Stacked(h, N, st, n, mem)
      /\ regs["rbp"] = st[n].base /\ st[n].base = BaseOf(st, n, ra, s.own)
      /\ Lowest(h, st[n]) = ra - links
  BY <1>1, GoodParts
<1>5. links = 2 \/ links = 3 BY LinksIs
<1>6. o[1] = "mem" /\ o[2] \in Int BY DEF FindsPlace
<1>7. Loaded(o) = Word(x) /\ Effective(o) = Address(x) BY <1>6, LoadedIs
<1>8. o[3] = "rsp" => x = rsp + o[2] BY <1>4, LoadedIs, AddressIs DEF At1
<1>9. o[3] = "rbp" /\ s.own => x = (ra - 1) + o[2]
  <2>1. ra - 1 \in Int BY <1>4
  <2>2. s.own => ToAddress(regs["rbp"]) = ra - 1 BY <1>4, <2>1, AddressIs DEF BaseOf
  <2> QED BY <2>2, LoadedIs DEF At1
<1>10. CASE instr[1] = "lea"
  <2>1. OfFrame(o, s) \/ OfTop(o, s) BY <1>10 DEF FindsPlace
  <2>2. x \in Int /\ x >= rsp /\ x + 2 <= ra - links
    <3> DEFINE k == o[2]
    <3>1. CASE OfFrame(o, s)
      <4>1. x = (ra - 1) + k /\ 2 - d <= k /\ k + links < 0 BY <1>9, <3>1 DEF OfFrame
      <4>2. k \in Int BY <1>6
      <4> HIDE DEF x, d, links, ra, k
      <4> QED BY <1>3, <1>4, <1>5, <4>1, <4>2
    <3>2. CASE OfTop(o, s)
      <4>1. x = rsp + k /\ 0 <= k /\ k + 3 + links <= d BY <1>8, <3>2 DEF OfTop, SizeOfValue
      <4>2. k \in Int BY <1>6
      <4> HIDE DEF x, d, links, ra, k
      <4> QED BY <1>3, <1>4, <1>5, <4>1, <4>2
    <3> QED BY <2>1, <3>1, <3>2
  <2>3. x + 2 <= Lowest(h, st[n]) BY <1>4, <2>2
  <2> HIDE DEF x
  <2>4. Free(h, st, n, x) BY <1>1, <1>4, <2>2, <2>3, FreeBelowTop
  <2>5. IsAddress(Address(x)) /\ Address(x)[2] = x BY <2>2, AddressIs
  <2> QED BY <1>7, <1>10, <2>2, <2>4, <2>5
<1>11. CASE instr[1] # "lea"
  <2>1. OfCaller(o, s) BY <1>11 DEF FindsPlace
  <2>2. IsPlaceAbove(h, st, n, ra, Word(x))
    <3>1. CASE o = Mem(-1, "rbp") /\ s.own /\ Links(s.in) = 3 /\ s.depth >= 3
      <4>1. o[2] = -1 /\ o[3] = "rbp" BY <3>1 DEF Mem
      <4>2. x = ra - 2
        <5>1. x = (ra - 1) + (-1) BY <1>9, <3>1, <4>1
        <5> QED BY <1>4, <5>1
      <4>3. IsPlaceAbove(h, st, n, ra, WordOf(mem, ra - 2)) BY <1>4, <3>1 DEF Linked
      <4> QED BY <4>2, <4>3 DEF Word, WordOf
    <3>2. CASE o = Mem(s.depth - 2, "rsp") /\ s.in[1] = "init" /\ s.depth >= 2
      <4>1. o[2] = d - 2 /\ o[3] = "rsp" BY <3>2 DEF Mem
      <4>2. x = ra - 1
        <5>1. x = rsp + (d - 2) BY <1>8, <4>1
        <5> HIDE DEF x, d, ra
        <5> QED BY <1>3, <1>4, <5>1
      <4>3. IsPlaceAbove(h, st, n, ra, WordOf(mem, ra - 1)) BY <1>4, <3>2 DEF Linked
      <4> QED BY <4>2, <4>3 DEF Word, WordOf
    <3> QED BY <2>1, <3>1, <3>2 DEF OfCaller
  <2> DEFINE word == Word(x)  y == word[2]
  <2>3. IsAddress(word) /\ y > ra /\ Free(h, st, n - 1, y) /\ y \in Int BY <2>2 DEF IsPlaceAbove, IsAddress
  <2> HIDE DEF word
  <2>4. Free(h, st, n, y)
    <3>1. ASSUME NEW k \in 1..n PROVE y > st[k].ra \/ y + 2 <= Lowest(h, st[k])
      <4>1. CASE k = n BY <2>3, <4>1
      <4>2. CASE k # n
        <5>1. k \in 1..(n - 1) BY <1>4, <4>2
        <5> QED BY <2>3, <5>1 DEF Free
      <4> QED BY <4>1, <4>2
    <3> QED BY <3>1 DEF Free
  <2>5. y >= rsp BY <1>4, <2>3
  <2>6. instr[1] = "mov" => Loaded(o) = word BY <1>7 DEF word
  <2> QED BY <1>11, <2>3, <2>4, <2>5, <2>6
<1> QED BY <1>10, <1>11

LEMMA CodeAsked ==
  \/ Loaded(Entry("op_call")) = Junk
  \/ Loaded(Entry("op_call"))[1] = "entry" /\ Loaded(Entry("op_call"))[2] = "op_call"
<1> DEFINE o == Entry("op_call")  word == Loaded(o)  table == Register(o[3])
<1>1. o[1] = "op" /\ o[2] = "op_call" BY DEF Entry
<1> HIDE DEF o
<1>2. word = IF table[1] = "part" /\ table[2] = 1 THEN <<"entry", o[2], table[3]>> ELSE Junk
  BY <1>1 DEF Loaded
<1> HIDE DEF word
<1> QED BY <1>1, <1>2 DEF word, o

LEMMA StoredIs ==
  ASSUME NEW o, NEW word, Stored(o, word)
  PROVE  /\ o[1] = "mem" => mem' = Extended(mem, At1(o), word) /\ regs' = regs /\ rsp' = rsp
         /\ o = Reg("rsp") => rsp' = ToAddress(word) /\ regs' = regs /\ mem' = mem
         /\ o[1] = "reg" /\ o[2] # "rsp" =>
              regs' = [regs EXCEPT ![o[2]] = word] /\ rsp' = rsp /\ mem' = mem
<1>1. CASE o[1] = "mem" BY <1>1 DEF Stored, Reg
<1>2. CASE o[1] = "reg" /\ o[2] = "rsp" BY <1>2 DEF Stored, Reg
<1>3. CASE o[1] = "reg" /\ o[2] # "rsp"
  <2>1. o[1] # "mem" BY <1>3
  <2>2. regs' = [regs EXCEPT ![o[2]] = word] /\ UNCHANGED <<mem, rsp>> BY <1>3, <2>1 DEF Stored
  <2>3. o # Reg("rsp") BY <1>3 DEF Reg
  <2> QED BY <2>1, <2>2, <2>3
<1>4. o = Reg("rsp") => o[1] = "reg" /\ o[2] = "rsp" BY DEF Reg
<1> QED BY <1>1, <1>2, <1>3, <1>4

(* A word is moved to a register other than rbp and rsp.                   *)
LEMMA RegSteps ==
  ASSUME NEW h, NEW st, NEW n, Stands(h, st, n), NEW instr, instr = code.text[rip],
         instr[1] \in {"mov", "lea"}, SetsReg(instr[3]),
         NEW word, instr[1] = "mov" => word = Loaded(instr[2]), instr[1] = "lea" => word = Effective(instr[2]),
         regs' = [regs EXCEPT ![instr[3][2]] = word], rsp' = rsp, mem' = mem, rip' = rip + 1
  PROVE  Continues(h)
<1> DEFINE p == Programs[program]  text == code.text  N == Len(text)  s == h[rip]
           t == h[rip + 1]  d == s.depth  k == t.knows  x == instr[3][2]
<1>1. Sound(p, text, h) /\ Good(h, N, st, n, rip, rsp, regs, mem) /\ IsRegs(regs) BY DEF Stands
<1>2. x \notin {"rbp", "rsp"} /\ regs' = [regs EXCEPT ![x] = word] BY DEF SetsReg
<1>3. instr # SetsBase /\ instr # GivesBack /\ instr # RestoresBase
  BY <1>2 DEF SetsBase, GivesBack, RestoresBase, Reg
<1>4. GoesOn(instr) BY DEF GoesOn
<1>5. rsp \in Int /\ Knowing(h, st, n, s, rsp, regs) BY <1>1, GoodParts
<1>6. Sensible(s) BY <1>1, GoodHas
<1>7. d \in Int BY <1>6, SensibleHas
<1>8. Behind(instr, d) = d BY <1>3 DEF Behind
<1>9. KnowsBehind(instr, s, k) BY <1>1, <1>4, NextPlace
<1>10. /\ IsRegs(regs') /\ \A y : y # x => regs'[y] = regs[y]
       /\ x \in DOMAIN regs => regs'[x] = word
  <2> DEFINE r2 == [regs EXCEPT ![x] = word]
  <2> HIDE DEF x
  <2>1. IsRegs(r2) /\ (\A y : y # x => r2[y] = regs[y]) /\ (x \in DOMAIN regs => r2[x] = word)
    BY <1>1, SetReg, ZenonT(30)
  <2> HIDE DEF r2
  <2>2. regs' = r2 BY <1>2 DEF r2
  <2> QED BY <2>1, <2>2
<1>11. "rdi" \in DOMAIN regs /\ "rax" \in DOMAIN regs BY <1>1 DEF IsRegs
<1>12. regs'["rbp"] = regs["rbp"] BY <1>2, <1>10
<1>13. Knowing(h, st, n, t, rsp, regs')
  <2>1. CASE k = "nothing" BY <2>1 DEF Knowing
  <2>2. CASE k = "place" /\ FindsPlace(instr, s)
    <3>1. PICK y : /\ instr[1] = "lea" => Effective(instr[2]) = y
                   /\ instr[1] = "mov" => Loaded(instr[2]) = y
                   /\ IsAddress(y) /\ y[2] >= rsp /\ Free(h, st, n, y[2])
      BY <2>2, PlaceFound
    <3>2. word = y BY <3>1
    <3>3. x = "rdi" BY <2>2 DEF FindsPlace, Reg
    <3>4. regs'["rdi"] = y BY <1>10, <1>11, <3>2, <3>3
    <3>5. k # "code" BY <2>2
    <3> QED BY <3>1, <3>4, <3>5 DEF Knowing
  <2>3. CASE k = "place" /\ s.knows = "place" /\ KeepsRdi(instr)
    <3>1. x # "rdi" BY <2>3 DEF KeepsRdi, SetsReg
    <3>2. regs'["rdi"] = regs["rdi"] BY <1>10, <3>1
    <3>3. k # "code" BY <2>3
    <3> QED BY <1>5, <2>3, <3>2, <3>3 DEF Knowing
  <2>4. CASE k = "code" /\ instr = AsksCode
    <3>1. x = "rax" /\ instr[1] = "mov" /\ instr[2] = Entry("op_call") BY <2>4 DEF AsksCode, Reg
    <3>2. regs'["rax"] = Loaded(Entry("op_call")) BY <1>10, <1>11, <3>1
    <3>3. k # "place" BY <2>4
    <3> DEFINE asked == Loaded(Entry("op_call"))  found == regs'["rax"]
    <3>4. asked = Junk \/ (asked[1] = "entry" /\ asked[2] = "op_call") BY CodeAsked
    <3> HIDE DEF asked
    <3>5. found = asked BY <3>2 DEF asked
    <3>6. found = Junk \/ (found[1] = "entry" /\ found[2] = "op_call") BY <3>4, <3>5
    <3> QED BY <3>3, <3>6 DEF Knowing
  <2> QED BY <1>9, <2>1, <2>2, <2>3, <2>4 DEF KnowsBehind
<1>14. rsp = (rsp + d) - Behind(instr, d) /\ Behind(instr, d) <= d BY <1>5, <1>7, <1>8
<1>15. Spared(h, st, n, rsp, mem, mem') BY SparedSame
<1>16. GoodSomewhere(h, N, rip + 1, rsp, regs', mem')
  BY <1>1, <1>3, <1>4, <1>12, <1>13, <1>14, <1>15, StepsOn
<1> QED BY <1>10, <1>16 DEF Continues

LEMMA MoveSteps ==
  ASSUME NEW h, NEW st, NEW n, Stands(h, st, n), Move
  PROVE  Continues(h)
<1> DEFINE p == Programs[program]  text == code.text  N == Len(text)  instr == text[rip]  s == h[rip]
           t == h[rip + 1]  d == s.depth  ra == st[n].ra  o == instr[3]
<1>1. Sound(p, text, h) /\ Good(h, N, st, n, rip, rsp, regs, mem) /\ IsRegs(regs) BY DEF Stands
<1>2. /\ \/ instr[1] = "mov" /\ Stored(o, Loaded(instr[2]))
         \/ instr[1] = "lea" /\ Stored(o, Effective(instr[2]))
      /\ rip' = rip + 1
  BY DEF Move, Is, Instr
<1>3. Sensible(s) /\ InstrFits(p, instr, s, OddForeignAt(p, text, rip)) BY <1>1, GoodHas
<1>4. (instr[1] = "mov" => MoveFits(instr, s)) /\ (instr[1] = "lea" => SetsReg(o))
  <2> DEFINE odd == OddForeignAt(p, text, rip)
  <2>1. InstrFits(p, instr, s, odd) BY <1>3
  <2> HIDE DEF odd, instr, s, p, o
  <2>2. instr[1] = "lea" => SetsReg(instr[3]) BY <2>1 DEF InstrFits
  <2>3. instr[1] = "mov" => MoveFits(instr, s) BY <2>1 DEF InstrFits
  <2> QED BY <2>2, <2>3 DEF o
<1>5. GoesOn(instr) BY <1>2 DEF GoesOn
<1>6. /\ n \in Nat \ {0} /\ rsp \in Int /\ rsp = (ra + 1) - d /\ ra \in Int
      /\ Linked(h, st, n, ra, s, mem) /\ Stacked(h, N, st, n, mem)
      /\ regs["rbp"] = st[n].base /\ st[n].base = BaseOf(st, n, ra, s.own)
      /\ Lowest(h, st[n]) = ra - Links(s.in) /\ Knowing(h, st, n, s, rsp, regs)
  BY <1>1, GoodParts
<1>7. d \in Int /\ 1 <= d /\ s.own \in BOOLEAN /\ (s.own => 2 <= d) /\ (s.own => s.in[1] = "sub")
  BY <1>3, SensibleHas
<1>8. CASE SetsReg(o)
  <2>1. o[1] = "reg" /\ o[2] # "rsp" BY <1>8 DEF SetsReg
  <2>2. CASE instr[1] = "mov"
    <3> DEFINE word == Loaded(instr[2])
    <3>1. Stored(o, word) BY <1>2, <2>2
    <3> HIDE DEF word, o
    <3>2. regs' = [regs EXCEPT ![o[2]] = word] /\ rsp' = rsp /\ mem' = mem BY <2>1, <3>1, StoredIs
    <3>3. word = Loaded(instr[2]) BY DEF word
    <3>4. instr[1] # "lea" BY <2>2
    <3>5. regs' = [regs EXCEPT ![instr[3][2]] = word] /\ SetsReg(instr[3]) BY <1>8, <3>2 DEF o
    <3> QED BY <1>2, <2>2, <3>2, <3>3, <3>4, <3>5, RegSteps
  <2>3. CASE instr[1] # "mov"
    <3> DEFINE word == Effective(instr[2])
    <3>1. Stored(o, word) /\ instr[1] = "lea" BY <1>2, <2>3
    <3> HIDE DEF word, o
    <3>2. regs' = [regs EXCEPT ![o[2]] = word] /\ rsp' = rsp /\ mem' = mem BY <2>1, <3>1, StoredIs
    <3>3. word = Effective(instr[2]) BY DEF word
    <3>4. regs' = [regs EXCEPT ![instr[3][2]] = word] /\ SetsReg(instr[3]) BY <1>8, <3>2 DEF o
    <3> QED BY <1>2, <2>3, <3>1, <3>2, <3>3, <3>4, RegSteps
  <2> QED BY <2>2, <2>3
<1>9. CASE instr = SetsBase /\ ~s.own /\ s.in[1] = "sub" /\ s.depth = 2
  <2>1. /\ instr[1] = "mov" /\ instr[2] = Reg("rsp") /\ o = Reg("rbp") /\ instr # GivesBack
        /\ instr # RestoresBase
    BY <1>9 DEF SetsBase, GivesBack, RestoresBase, Reg
  <2>2. Stored(o, Address(rsp)) BY <1>2, <2>1, LoadedIs
  <2>3. o[1] = "reg" /\ o[2] = "rbp" BY <2>1 DEF Reg
  <2>4. regs' = [regs EXCEPT !["rbp"] = Address(rsp)] /\ rsp' = rsp /\ mem' = mem
    <3> HIDE DEF o
    <3> QED BY <2>2, <2>3, StoredIs
  <2>5. "rbp" \in DOMAIN regs BY <1>1 DEF IsRegs
  <2>6. IsRegs(regs') /\ regs'["rbp"] = Address(rsp) BY <1>1, <2>4, <2>5, SetReg
  <2>7. Behind(instr, d) = d BY <2>1 DEF Behind
  <2>8. /\ rip + 1 \in 1..N /\ t.depth = d /\ t.depth \in Int /\ t.in = s.in
        /\ t.own = OwnBehind(instr, s.own) /\ KnowsBehind(instr, s, t.knows)
    BY <1>1, <1>5, <2>7, NextPlace
  <2>9. t.own BY <1>9, <2>1, <2>8 DEF OwnBehind
  <2>10. rsp = ra - 1 /\ rsp = (ra + 1) - t.depth /\ t.depth <= d
    <3> DEFINE e == t.depth
    <3>1. e = d /\ d = 2 BY <1>9, <2>8
    <3> HIDE DEF d, e, ra
    <3>2. rsp = ra - 1 /\ rsp = (ra + 1) - e /\ e <= d BY <1>6, <3>1
    <3> QED BY <3>2 DEF e, d, ra
  <2>11. regs'["rbp"] = BaseOf(st, n, ra, t.own) BY <2>6, <2>9, <2>10 DEF BaseOf
  <2>12. regs'["rdi"] = regs["rdi"] BY <1>1, <2>4, SetReg
  <2>13. ~FindsPlace(instr, s) /\ instr # AsksCode
    <3>1. o # Reg("rdi") /\ instr[2] # Entry("op_call") BY <2>1 DEF Reg, Entry
    <3> QED BY <3>1 DEF FindsPlace, AsksCode
  <2>14. rsp <= rsp BY <1>6
  <2>15. Knowing(h, st, n, t, rsp, regs') BY <1>1, <1>5, <1>6, <2>12, <2>13, <2>14, KnowsOn
  <2>16. Spared(h, st, n, rsp, mem, mem') BY <2>4, SparedSame
  <2>17. GoodSomewhere(h, N, rip + 1, rsp, regs', mem')
    BY <1>1, <2>8, <2>10, <2>11, <2>15, <2>16, GoesAlong
  <2> QED BY <1>2, <2>4, <2>6, <2>17 DEF Continues
<1>10. CASE instr = GivesBack /\ s.own
  <2>1. instr[1] = "mov" /\ instr[2] = Reg("rbp") /\ o = Reg("rsp") /\ instr # SetsBase /\ instr # RestoresBase
    BY <1>10 DEF SetsBase, GivesBack, RestoresBase, Reg
  <2>2. regs["rbp"] = Address(ra - 1) BY <1>6, <1>10 DEF BaseOf
  <2>3. Stored(o, Address(ra - 1)) BY <1>2, <2>1, <2>2, LoadedIs
  <2>4. rsp' = ToAddress(Address(ra - 1)) /\ regs' = regs /\ mem' = mem
    <3> HIDE DEF o
    <3> QED BY <2>1, <2>3, StoredIs
  <2>5. ra - 1 \in Int BY <1>6
  <2>6. rsp' = ra - 1 BY <2>4, <2>5, AddressIs
  <2>7. Behind(instr, d) = 2 BY <1>10, <2>1 DEF Behind
  <2>8. rsp' = (rsp + d) - Behind(instr, d) /\ Behind(instr, d) <= d
    BY <1>6, <1>7, <1>10, <2>6, <2>7
  <2>9. ~FindsPlace(instr, s) /\ instr # AsksCode /\ ~KeepsRdi(instr)
    <3>1. o # Reg("rdi") /\ instr[2] # Entry("op_call") BY <2>1 DEF Reg, Entry
    <3>2. o[1] = "reg" /\ o[2] = "rsp" BY <2>1 DEF Reg
    <3>3. instr[1] \notin {"push", "label", "sub"} BY <2>1
    <3> QED BY <3>1, <3>2, <3>3 DEF FindsPlace, AsksCode, KeepsRdi
  <2>10. rsp' \in Int BY <2>5, <2>6
  <2>11. Knowing(h, st, n, t, rsp', regs) BY <1>1, <1>5, <2>9, <2>10, KnowsOn
  <2>12. Spared(h, st, n, rsp, mem, mem') BY <2>4, SparedSame
  <2>13. GoodSomewhere(h, N, rip + 1, rsp', regs, mem')
    BY <1>1, <1>5, <2>1, <2>8, <2>11, <2>12, StepsOn
  <2> QED BY <1>1, <1>2, <2>4, <2>13 DEF Continues
<1>11. CASE /\ instr[1] = "mov" /\ o[1] = "mem" /\ o[3] = "rsp" /\ o[2] \in Nat
            /\ o[2] + 1 + Links(s.in) <= s.depth
  <2> DEFINE at == At1(o)  word == Loaded(instr[2])  links == Links(s.in)  k == o[2]
  <2>1. Stored(o, word) BY <1>2, <1>11
  <2>2. mem' = Extended(mem, at, word) /\ regs' = regs /\ rsp' = rsp
    <3> HIDE DEF o, word
    <3> QED BY <1>11, <2>1, StoredIs
  <2>3. at = rsp + k BY <1>6, <1>11, LoadedIs, AddressIs DEF At1
  <2>4. links = 2 \/ links = 3 BY LinksIs
  <2>5. at \in Int /\ at <= Lowest(h, st[n])
    <3> DEFINE low == Lowest(h, st[n])
    <3>1. low = ra - links /\ k \in Nat /\ k + 1 + links <= d BY <1>6, <1>11
    <3> HIDE DEF at, k, links, d, ra, low
    <3>2. at \in Int /\ at <= low BY <1>6, <1>7, <2>3, <2>4, <3>1, SMTT(30)
    <3> QED BY <3>2 DEF low
  <2>6. Spared(h, st, n, rsp, mem, mem')
    <3> HIDE DEF at, word
    <3>1. Spared(h, st, n, rsp, mem, Extended(mem, at, word)) BY <1>1, <1>6, <2>5, StoredLow
    <3> QED BY <2>2, <3>1
  <2>7. /\ o # Reg("rdi") /\ o # Reg("rax") /\ o # Reg("rbp") /\ o # Reg("rsp")
    BY <1>11 DEF Reg
  <2>8. ~FindsPlace(instr, s) /\ instr # AsksCode /\ instr # SetsBase /\ instr # GivesBack
    BY <2>7 DEF FindsPlace, AsksCode, SetsBase, GivesBack
  <2>9. instr # RestoresBase BY <1>11 DEF RestoresBase
  <2>10. Behind(instr, d) = d BY <1>11, <2>8 DEF Behind
  <2>11. rsp = (rsp + d) - Behind(instr, d) /\ Behind(instr, d) <= d /\ rsp <= rsp BY <1>6, <1>7, <2>10
  <2>12. Knowing(h, st, n, t, rsp, regs) BY <1>1, <1>5, <1>6, <2>8, <2>11, KnowsOn
  <2>13. GoodSomewhere(h, N, rip + 1, rsp, regs, mem')
    BY <1>1, <1>5, <2>6, <2>8, <2>9, <2>11, <2>12, StepsOn
  <2> QED BY <1>1, <1>2, <2>2, <2>13 DEF Continues
<1>12. \/ SetsReg(o)
       \/ instr = SetsBase /\ ~s.own /\ s.in[1] = "sub" /\ s.depth = 2
       \/ instr = GivesBack /\ s.own
       \/ /\ instr[1] = "mov" /\ o[1] = "mem" /\ o[3] = "rsp" /\ o[2] \in Nat
          /\ o[2] + 1 + Links(s.in) <= s.depth
  <2>1. CASE instr[1] = "mov" BY <1>4, <2>1 DEF MoveFits
  <2>2. CASE instr[1] # "mov" BY <1>2, <1>4, <2>2
  <2> QED BY <2>1, <2>2
<1> QED BY <1>8, <1>9, <1>10, <1>11, <1>12

-----------------------------------------------------------------------------
(* Calls of the runtime.                                                   *)

LEMMA CallPlace ==
  ASSUME NEW h, NEW st, NEW n, Stands(h, st, n), Is("call")
  PROVE  /\ code.text[rip][1] = "call"
         /\ CallFits(code.text[rip], h[rip], OddForeignAt(Programs[program], code.text, rip))
         /\ Called[1] = "label" =>
              \/ Called[2][1] = "extern"
              \/ Called[2][1] = "runtime" /\ Called[2][2][1] \in Quiet
              \/ h[rip].knows = "place"
         /\ Called[1] = "entry" => Called[2] = "op_call" \/ h[rip].knows = "place"
<1> DEFINE p == Programs[program]  text == code.text  instr == text[rip]  s == h[rip]
           odd == OddForeignAt(p, text, rip)  to == instr[2]
<1>1. Sound(p, text, h) /\ Good(h, Len(text), st, n, rip, rsp, regs, mem) BY DEF Stands
<1>2. instr[1] = "call" /\ Called = Loaded(to) BY DEF Is, Instr, Called
<1>3. InstrFits(p, instr, s, odd) BY <1>1, GoodHas
<1>4. Knowing(h, st, n, s, rsp, regs) BY <1>1, GoodParts
<1> HIDE DEF odd, instr, p, s
<1>5. CallFits(instr, s, odd) BY <1>2, <1>3 DEF InstrFits
<1>6. MayCall(to, s) BY <1>5 DEF CallFits
<1>7. to[1] = "sym" => Called[1] = "label" /\ Called[2] = to[2]
  <2>1. to[1] = "sym" => Loaded(to) = CodeAt(to[2])
    <3> HIDE DEF to
    <3> QED BY DEF Loaded
  <2> QED BY <1>2, <2>1 DEF CodeAt
<1>8. CASE to = Reg("rax") /\ s.knows = "code"
  <2> DEFINE word == regs["rax"]
  <2>1. word = Junk \/ (word[1] = "entry" /\ word[2] = "op_call") BY <1>4, <1>8 DEF Knowing
  <2>2. Called = word BY <1>2, <1>8, LoadedIs
  <2> HIDE DEF word
  <2>3. word[1] # "label" /\ (word[1] = "entry" => word[2] = "op_call") BY <2>1 DEF Junk
  <2> QED BY <1>2, <1>5, <2>2, <2>3 DEF odd, instr, p, s
<1>9. CASE ~(to = Reg("rax") /\ s.knows = "code")
  <2>1. \/ to[1] = "sym" /\ to[2][1] = "extern"
        \/ to[1] = "sym" /\ to[2][1] = "runtime" /\ to[2][2][1] \in Quiet
        \/ s.knows = "place"
    BY <1>6, <1>9 DEF MayCall
  <2>2. \/ Called[1] = "label" /\ Called[2][1] = "extern"
        \/ Called[1] = "label" /\ Called[2][1] = "runtime" /\ Called[2][2][1] \in Quiet
        \/ s.knows = "place"
    BY <1>7, <2>1
  <2> QED BY <1>2, <1>5, <2>2 DEF odd, instr, p, s
<1> QED BY <1>8, <1>9

LEMMA FinishedContinues ==
  ASSUME NEW h, NEW st, NEW n, Stands(h, st, n), Is("call"), NEW rax, NEW memory,
         Finished(rax, memory), Spared(h, st, n, rsp, mem, memory)
  PROVE  Continues(h)
<1> DEFINE p == Programs[program]  text == code.text
           kept == [a \in {b \in DOMAIN memory : b >= rsp} |-> memory[a]]
           now  == [x \in DOMAIN regs |-> IF x = "rbp" THEN regs[x] ELSE IF x = "rax" THEN rax ELSE Junk]
<1>1. Sound(p, text, h) /\ Good(h, Len(text), st, n, rip, rsp, regs, mem) /\ IsRegs(regs) BY DEF Stands
<1>2. regs' = now /\ mem' = kept /\ rip' = rip + 1 /\ rsp' = rsp BY DEF Finished
<1>3. IsRegs(now) /\ now["rbp"] = regs["rbp"] BY <1>1 DEF IsRegs
<1>4. rsp \in Int BY <1>1, GoodParts
<1>5. rsp <= rsp BY <1>4
<1>6. Spared(h, st, n, rsp, memory, kept) BY <1>4, <1>5, LostBelow
<1> HIDE DEF now, kept
<1>7. Spared(h, st, n, rsp, mem, mem') BY <1>2, <1>6, SparedTwice
<1>8. text[rip][1] \in {"test", "label", "jnz", "call"} /\ text[rip][1] # "label" BY DEF Is, Instr
<1>9. regs'["rbp"] = regs["rbp"] BY <1>2, <1>3
<1>10. GoodSomewhere(h, Len(text), rip + 1, rsp, regs', mem') BY <1>1, <1>7, <1>8, <1>9, StaysThere
<1> QED BY <1>2, <1>3, <1>10 DEF Continues

LEMMA ReturnsContinues ==
  ASSUME NEW h, NEW st, NEW n, Stands(h, st, n), Is("call"), NEW rax, Returns(rax)
  PROVE  Continues(h)
<1>1. Finished(rax, mem) BY DEF Returns
<1> QED BY <1>1, SparedSame, FinishedContinues

LEMMA WritesContinues ==
  ASSUME NEW h, NEW st, NEW n, Stands(h, st, n), Is("call"), NEW v, Writes(v), h[rip].knows = "place"
  PROVE  Continues(h)
<1> DEFINE p == Programs[program]  text == code.text  word == regs["rdi"]  x == ToAddress(Arg(1))
           memory == Written(x, v)
<1>1. Sound(p, text, h) /\ Good(h, Len(text), st, n, rip, rsp, regs, mem) BY DEF Stands
<1>2. Knowing(h, st, n, h[rip], rsp, regs) /\ Stacked(h, Len(text), st, n, mem) BY <1>1, GoodParts
<1>3. IsAddress(word) /\ Free(h, st, n, word[2]) BY <1>2 DEF Knowing
<1>4. Arg(1) = word BY DEF Arg, ArgRegs
<1>5. x = word[2] /\ word[2] \in Int BY <1>3, <1>4 DEF IsAddress, ToAddress
<1> HIDE DEF x
<1>6. Spared(h, st, n, rsp, mem, memory) BY <1>1, <1>2, <1>3, <1>5, WrittenFree
<1>7. Finished(Junk, memory) BY DEF Writes, x
<1> HIDE DEF memory
<1> QED BY <1>6, <1>7, FinishedContinues

LEMMA RuntimeSteps ==
  ASSUME NEW h, NEW st, NEW n, Stands(h, st, n), Make \/ Unwrap \/ PrintCalled \/ CallOp \/ CallForeign
  PROVE  Continues(h)
<1>1. CASE Make
  <2>1. PICK v : Is("call") /\ Called[1] = "label" /\ Called[2][1] = "runtime"
                 /\ Called[2][2][1] \in {"make", "make_array", "make_object_setup"} /\ Writes(v)
    <3>1. CASE IsRuntime("make") /\ Writes(IF RuntimeType = "void" THEN Void ELSE Made(RuntimeType, Arg(2)))
      BY <3>1 DEF IsRuntime
    <3>2. CASE IsRuntime("make_array") /\ Writes(Array(Listed))
      BY <3>2 DEF IsRuntime
    <3>3. CASE IsRuntime("make_object_setup") /\ \E v : Writes(v)
      BY <3>3 DEF IsRuntime
    <3> QED BY <1>1, <3>1, <3>2, <3>3 DEF Make
  <2>2. Called[2][1] # "extern" /\ Called[2][2][1] \notin Quiet BY <2>1 DEF Quiet
  <2>3. h[rip].knows = "place" BY <2>1, <2>2, CallPlace
  <2> QED BY <2>1, <2>3, WritesContinues
<1>2. CASE Unwrap
  <2>1. Is("call") /\ \E rax : Returns(rax) BY <1>2 DEF Unwrap, IsRuntime
  <2> QED BY <2>1, ReturnsContinues
<1>3. CASE PrintCalled
  <2>1. Is("call") /\ \E rax : Returns(rax) BY <1>3 DEF PrintCalled, IsRuntime
  <2> QED BY <2>1, ReturnsContinues
<1>4. CASE CallOp
  <2>1. Is("call") /\ Called[1] = "entry" BY <1>4 DEF CallOp
  <2>2. CASE Called[2] = "op_call"
    <3>1. \E rax : Returns(rax) BY <1>4, <2>2 DEF CallOp
    <3> QED BY <2>1, <3>1, ReturnsContinues
  <2>3. CASE Called[2] # "op_call"
    <3>1. \E v : Writes(v) BY <1>4, <2>3 DEF CallOp
    <3>2. h[rip].knows = "place" BY <2>1, <2>3, CallPlace
    <3> QED BY <2>1, <3>1, <3>2, WritesContinues
  <2> QED BY <2>2, <2>3
<1>5. CASE CallForeign
  <2>1. Is("call") /\ \E rax : Returns(rax) BY <1>5 DEF CallForeign
  <2> QED BY <2>1, ReturnsContinues
<1> QED BY <1>1, <1>2, <1>3, <1>4, <1>5

-----------------------------------------------------------------------------
(* Calls of subroutines and of the initialisation of classes, and returns. *)

Grown(st, n, a) == [k \in 1..(n + 1) |-> IF k = n + 1 THEN a ELSE st[k]]
IsGrown(st, n, a, st2, n2) == st2 = Grown(st, n, a) /\ n2 = n + 1

LEMMA GrownIs ==
  ASSUME NEW st, NEW n \in Nat \ {0}, NEW a
  PROVE  /\ Grown(st, n, a)[n + 1] = a /\ Same(st, Grown(st, n, a), n)
         /\ \A k \in 1..(n + 1) : k = n + 1 \/ (k \in 1..n /\ Grown(st, n, a)[k] = st[k])
         /\ n + 1 \in Nat \ {0} /\ n + 1 \in 1..(n + 1)
BY DEF Grown, Same

(* An activation at the beginning of its code.                             *)
IsCallee(h, N, st, n, m, a) ==
  /\ a.ra \in Int /\ a.ra % 2 = 1 /\ a.place \in 1..N
  /\ h[a.place].in # Nobody /\ h[a.place].depth = 1 /\ ~h[a.place].own
  /\ WordOf(m, a.ra) = <<"return", st[n].place>>
  /\ a.base = st[n].base
  /\ Waits(h, st[n], a.ra)
  /\ \A j \in 1..n : a.ra <= Lowest(h, st[j])

LEMMA CalleePut ==
  ASSUME NEW h, NEW N, NEW st, NEW n, NEW m, NEW a, Stacked(h, N, st, n, m), IsCallee(h, N, st, n, m, a),
         NEW st2, NEW n2, IsGrown(st, n, a, st2, n2)
  PROVE  Stacked(h, N, st2, n2, m)
<1>1. n \in Nat \ {0} BY DEF Stacked
<1>2. /\ st2[n + 1] = a /\ Same(st, st2, n)
      /\ \A k \in 1..(n + 1) : k = n + 1 \/ (k \in 1..n /\ st2[k] = st[k])
      /\ n + 1 \in Nat \ {0} /\ n + 1 \in 1..(n + 1) /\ n \in 1..n
  <2> DEFINE g == Grown(st, n, a)
  <2>1. g[n + 1] = a BY <1>1, GrownIs
  <2>2. Same(st, g, n) BY <1>1, GrownIs
  <2>3. /\ \A k \in 1..(n + 1) : k = n + 1 \/ (k \in 1..n /\ g[k] = st[k])
        /\ n + 1 \in Nat \ {0} /\ n + 1 \in 1..(n + 1)
    BY <1>1, GrownIs
  <2>4. st2 = g BY DEF IsGrown
  <2>5. n \in 1..n BY <1>1
  <2> HIDE DEF g
  <2> QED BY <2>1, <2>2, <2>3, <2>4, <2>5
<1>3. Caller(st2, n + 1) = st[n]
  <2>1. n + 1 # 1 /\ (n + 1) - 1 = n BY <1>1
  <2> QED BY <1>2, <2>1 DEF Caller, Same
<1>4. Activated(h, N, st2, n + 1, m)
  <2> DEFINE s == h[a.place]
  <2>1. s.in # Nobody /\ s.depth = 1 /\ ~s.own BY DEF IsCallee
  <2>2. ~(s.depth >= 2) /\ ~(s.depth >= 3) BY <2>1
  <2>3. Linked(h, st2, n + 1, a.ra, s, m) BY <1>3, <2>1, <2>2 DEF Linked, IsCallee
  <2>4. a.base = BaseOf(st2, n + 1, a.ra, s.own) BY <1>3, <2>1 DEF BaseOf, IsCallee
  <2> QED BY <1>2, <2>3, <2>4 DEF Activated, IsCallee
<1>5. ASSUME NEW k \in 1..(n + 1) PROVE Activated(h, N, st2, k, m)
  <2>1. CASE k = n + 1 BY <1>4, <2>1
  <2>2. CASE k # n + 1
    <3>1. k \in 1..n /\ k \in Nat \ {0} BY <1>2, <2>2
    <3>2. Same(st, st2, k) BY <1>1, <1>2, <3>1 DEF Same
    <3>3. Activated(h, N, st, k, m) BY <3>1 DEF Stacked
    <3> QED BY <3>1, <3>2, <3>3, ActivatedStays
  <2> QED BY <2>1, <2>2
<1>6. ASSUME NEW k \in 1..n PROVE Waits(h, st2[k], st2[k + 1].ra)
  <2>1. st2[k] = st[k] BY <1>2 DEF Same
  <2>2. CASE k = n BY <1>2, <2>1, <2>2 DEF IsCallee
  <2>3. CASE k # n
    <3>1. k \in 1..(n - 1) /\ k + 1 \in 1..n BY <1>1, <2>3
    <3>2. st2[k + 1] = st[k + 1] BY <1>2, <3>1 DEF Same
    <3> QED BY <2>1, <3>1, <3>2 DEF Stacked
  <2> QED BY <2>2, <2>3
<1>7. ASSUME NEW j \in 1..(n + 1), NEW k \in 1..(n + 1), j < k PROVE st2[k].ra <= Lowest(h, st2[j])
  <2>1. j \in 1..n BY <1>1, <1>7
  <2>2. st2[j] = st[j] BY <1>2, <2>1 DEF Same
  <2>3. CASE k = n + 1 BY <1>2, <2>1, <2>2, <2>3 DEF IsCallee
  <2>4. CASE k # n + 1
    <3>1. k \in 1..n /\ st2[k] = st[k] BY <1>2, <2>4
    <3> QED BY <1>7, <2>1, <2>2, <3>1 DEF Stacked
  <2> QED BY <2>3, <2>4
<1>8. (n + 1) - 1 = n BY <1>1
<1> QED BY <1>2, <1>5, <1>6, <1>7, <1>8 DEF Stacked, IsGrown

LEMMA OddForeignIs ==
  ASSUME NEW p, NEW text, NEW i, OddForeignAt(p, text, i)
  PROVE  text[i][2][1] = "sym" /\ text[i][2][2][1] \in {"extern", "runtime"}
BY DEF OddForeignAt, OddForeignCall, MakesResult

LEMMA CallSubSteps ==
  ASSUME NEW h, NEW st, NEW n, Stands(h, st, n), CallSub
  PROVE  Continues(h)
<1> DEFINE p == Programs[program]  text == code.text  N == Len(text)  instr == text[rip]  s == h[rip]
           t == h[rip + 1]  d == s.depth  ra == st[n].ra  label == Called[2]  j == Target(label)
           b == rsp - 1  word == <<"return", rip + 1>>  mm == Extended(mem, b, word)
           odd == OddForeignAt(p, text, rip)  links == Links(s.in)
<1>1. Sound(p, text, h) /\ Good(h, N, st, n, rip, rsp, regs, mem) /\ IsRegs(regs) BY DEF Stands
<1>2. /\ Is("call") /\ Called[1] = "label" /\ HasCode(label)
      /\ rsp' = b /\ mem' = mm /\ rip' = j /\ regs' = regs
  BY DEF CallSub
<1>3. label[1] \in {"sub", "init"} /\ IsNoted(label) BY <1>2 DEF HasCode
<1>4. instr[1] = "call" /\ CallFits(instr, s, odd) /\ s.knows = "place"
  <2>1. Called[2][1] \notin {"extern", "runtime"} BY <1>3
  <2> QED BY <1>2, <2>1, CallPlace
<1>5. GoesOn(instr) BY <1>4 DEF GoesOn
<1>6. instr[1] \notin {"mov", "lea", "pop", "push", "label", "sub", "add"} BY <1>4
<1>7. /\ instr # AsksCode /\ instr # SetsBase /\ instr # RestoresBase /\ instr # GivesBack
      /\ ~KeepsRdi(instr) /\ ~FindsPlace(instr, s)
  BY <1>6, Plain
<1>8. /\ n \in Nat \ {0} /\ n \in 1..n /\ rsp \in Int /\ rsp = (ra + 1) - d /\ ra \in Int /\ ra % 2 = 1
      /\ Linked(h, st, n, ra, s, mem) /\ Stacked(h, N, st, n, mem) /\ rip = st[n].place
      /\ regs["rbp"] = st[n].base /\ st[n].base = BaseOf(st, n, ra, s.own)
      /\ Lowest(h, st[n]) = ra - links /\ Knowing(h, st, n, s, rsp, regs) /\ rsp = Sp(h, st[n])
  BY <1>1, GoodParts
<1>9. Sensible(s) BY <1>1, GoodHas
<1>10. d \in Int /\ 1 <= d /\ s.own \in BOOLEAN BY <1>9, SensibleHas
<1>11. Behind(instr, d) = d BY <1>6, <1>7 DEF Behind
<1>12. /\ rip + 1 \in 1..N /\ t.depth = d /\ t.in = s.in /\ t.own = OwnBehind(instr, s.own)
       /\ KnowsBehind(instr, s, t.knows)
  BY <1>1, <1>5, <1>11, NextPlace
<1>13. t.own = s.own /\ t.knows = "nothing"
  <2>1. t.own = s.own BY <1>7, <1>10, <1>12 DEF OwnBehind
  <2>2. t.knows = "nothing" BY <1>7, <1>12 DEF KnowsBehind
  <2> QED BY <2>1, <2>2
<1>14. ~odd
  <2>1. ASSUME odd PROVE FALSE
    <3>1. instr[2][1] = "sym" /\ instr[2][2][1] \in {"extern", "runtime"} BY <2>1, OddForeignIs
    <3>2. Called = CodeAt(instr[2][2])
      <4>1. Called = Loaded(instr[2]) BY DEF Called, Instr
      <4> HIDE DEF instr
      <4> QED BY <3>1, <4>1 DEF Loaded
    <3>3. label = instr[2][2] BY <3>2 DEF CodeAt
    <3> QED BY <1>3, <3>1, <3>3
  <2> QED BY <2>1
<1>15. links <= d /\ d % 2 = 0 BY <1>4, <1>14 DEF CallFits
<1>16. links = 2 \/ links = 3 BY LinksIs
<1>17. /\ b \in Int /\ b < rsp /\ b % 2 = 1 /\ b = ra - d /\ b <= ra - links
  <2> HIDE DEF d, links, ra
  <2> QED BY <1>8, <1>10, <1>15, <1>16
<1>18. Spared(h, st, n, rsp, mem, mm) BY <1>8, <1>17, StoredBelow
(* The caller.                                                             *)
<1> DEFINE top == [ra |-> ra, place |-> rip + 1, base |-> st[n].base]
           st1 == Replaced(st, n, top)
<1>19. top.ra = ra /\ top.place = rip + 1 /\ top.base = st[n].base OBVIOUS
<1>20. GoesTo(h, N, st, n, top, mm)
  <2>1. Linked(h, st, n, ra, t, mm)
    <3>1. \A a \in Int : (ra + 1) - s.depth <= a /\ ra - Links(s.in) < a /\ a <= ra => WordOf(mm, a) = WordOf(mem, a)
      BY <1>8, <1>18 DEF Spared, Guarded
    <3>2. t.depth \in Int /\ t.in = s.in /\ Links(s.in) <= s.depth BY <1>10, <1>12, <1>15
    <3> HIDE DEF mm, ra, s, t
    <3> QED BY <1>8, <1>9, <3>1, <3>2, LinkedElsewhere
  <2> HIDE DEF top, mm, N
  <2> QED BY <1>8, <1>12, <1>13, <1>19, <2>1 DEF GoesTo
<1>21. LeftAlone(h, st, n - 1, mem, mm)
  <2> HIDE DEF mm
  <2> QED BY <1>1, <1>8, <1>18, SparedBelow
<1>22. Stacked(h, N, st1, n, mm) /\ (\A x : Free(h, st, n, x) => Free(h, st1, n, x))
  <2> HIDE DEF top, mm, N
  <2> QED BY <1>8, <1>20, <1>21, TopGoesOn
<1>23. st1[n] = top
  <2> HIDE DEF top
  <2> QED BY <1>8, ReplacedIs
(* The one that is called.                                                 *)
<1> DEFINE callee == [ra |-> b, place |-> j, base |-> regs["rbp"]]  u == h[j]
           st2 == Grown(st1, n, callee)
<1>24. callee.ra = b /\ callee.place = j /\ callee.base = regs["rbp"] OBVIOUS
<1>25. /\ j \in 1..N /\ text[j][2] = label /\ LabelFits(p, text[j], u) /\ u.in # Nobody
  <2>1. label[1] # "E" BY <1>3
  <2> QED BY <1>1, <1>3, <2>1, TargetHas
<1>26. u.depth = 1 /\ ~u.own /\ u.knows \in {"nothing", "place"}
  <2>1. IsStart(label) BY <1>3 DEF IsStart
  <2> HIDE DEF u, label, j
  <2> QED BY <1>25, <2>1 DEF LabelFits
<1> HIDE DEF top, callee, mm, st1
<1>27. Lowest(h, st1[n]) = ra - links /\ Sp(h, st1[n]) = rsp BY <1>8, <1>12, <1>19, <1>23 DEF Lowest, Sp
<1>28. IsCallee(h, N, st1, n, mm, callee)
  <2>1. WordOf(mm, b) = word BY WordStored DEF mm
  <2>2. Waits(h, st1[n], b) BY <1>12, <1>13, <1>15, <1>19, <1>23, <1>27 DEF Waits
  <2>3. ASSUME NEW k \in 1..n PROVE b <= Lowest(h, st1[k])
    <3>1. Lowest(h, st1[n]) <= Lowest(h, st1[k]) /\ Lowest(h, st1[k]) \in Int /\ Lowest(h, st1[n]) \in Int
      BY <1>1, <1>22, OnStack
    <3>2. b <= Lowest(h, st1[n]) BY <1>17, <1>27
    <3> HIDE DEF b
    <3> QED BY <1>17, <3>1, <3>2
  <2>4. st1[n].place = rip + 1 /\ st1[n].base = regs["rbp"] BY <1>8, <1>19, <1>23
  <2>5. callee.ra \in Int /\ callee.ra % 2 = 1 /\ callee.place \in 1..N BY <1>17, <1>24, <1>25
  <2>6. h[callee.place].in # Nobody /\ h[callee.place].depth = 1 /\ ~h[callee.place].own BY <1>24, <1>25, <1>26
  <2>7. WordOf(mm, callee.ra) = <<"return", st1[n].place>> BY <1>24, <2>1, <2>4
  <2>8. callee.base = st1[n].base /\ Waits(h, st1[n], callee.ra) /\ \A k \in 1..n : callee.ra <= Lowest(h, st1[k])
    BY <1>24, <2>2, <2>3, <2>4
  <2> HIDE DEF N
  <2> QED BY <2>5, <2>6, <2>7, <2>8 DEF IsCallee
<1> HIDE DEF st2
<1>29. Stacked(h, N, st2, n + 1, mm)
  <2> HIDE DEF N
  <2> DEFINE n2 == n + 1
  <2>1. IsGrown(st1, n, callee, st2, n2) BY DEF IsGrown, st2
  <2> HIDE DEF n2
  <2>2. Stacked(h, N, st2, n2, mm) BY <1>22, <1>28, <2>1, CalleePut
  <2> QED BY <2>2 DEF n2
<1>30. st2[n + 1] = callee /\ Same(st1, st2, n)
  <2>0. n \in Nat \ {0} BY <1>8
  <2>1. Grown(st1, n, callee)[n + 1] = callee BY <2>0, GrownIs
  <2>2. Same(st1, Grown(st1, n, callee), n) BY <2>0, GrownIs
  <2> QED BY <2>1, <2>2 DEF st2
<1>31. b = Sp(h, st2[n + 1]) BY <1>17, <1>24, <1>26, <1>30 DEF Sp
<1>32. Knowing(h, st2, n + 1, u, b, regs)
  <2> DEFINE x == regs["rdi"][2]
  <2>1. IsAddress(regs["rdi"]) /\ x >= rsp /\ Free(h, st, n, x) BY <1>4, <1>8 DEF Knowing
  <2>2. x \in Int BY <2>1 DEF IsAddress
  <2>3. x > b /\ x >= b BY <1>8, <1>17, <2>1, <2>2
  <2>4. Free(h, st2, n, x) BY <1>22, <1>30, <2>1, FreeStays
  <2> HIDE DEF x
  <2>5. Free(h, st2, n + 1, x)
    <3>1. ASSUME NEW k \in 1..(n + 1) PROVE x > st2[k].ra \/ x + 2 <= Lowest(h, st2[k])
      <4>1. CASE k = n + 1 BY <1>24, <1>30, <2>3, <4>1
      <4>2. CASE k # n + 1
        <5>1. k \in 1..n BY <1>8, <4>2
        <5> QED BY <2>4, <5>1 DEF Free
      <4> QED BY <4>1, <4>2
    <3> QED BY <3>1 DEF Free
  <2>6. u.knows # "code" BY <1>26
  <2> QED BY <2>1, <2>3, <2>5, <2>6 DEF Knowing, x
<1>33. Good(h, N, st2, n + 1, j, b, regs, mm) BY <1>24, <1>29, <1>30, <1>31, <1>32 DEF Good
<1>34. GoodSomewhere(h, N, j, b, regs, mm) BY <1>33 DEF GoodSomewhere
<1> QED BY <1>1, <1>2, <1>34 DEF Continues

LEMMA RetSteps ==
  ASSUME NEW h, NEW st, NEW n, Stands(h, st, n), Ret
  PROVE  Continues(h)
<1> DEFINE p == Programs[program]  text == code.text  N == Len(text)  instr == text[rip]  s == h[rip]
           ra == st[n].ra
<1>1. Sound(p, text, h) /\ Good(h, N, st, n, rip, rsp, regs, mem) /\ IsRegs(regs) BY DEF Stands
<1>2. instr[1] = "ret" /\ rip' = Word(rsp)[2] /\ rsp' = rsp + 1 /\ regs' = regs /\ mem' = mem
  BY DEF Ret, Is, Instr
<1>3. Sensible(s) /\ InstrFits(p, instr, s, OddForeignAt(p, text, rip)) BY <1>1, GoodHas
<1>4. s.depth = 1
  <2> DEFINE odd == OddForeignAt(p, text, rip)
  <2> HIDE DEF odd, instr, s, p
  <2> QED BY <1>2, <1>3 DEF InstrFits
<1>5. ~s.own
  <2>1. s.own => 2 <= s.depth BY <1>3, SensibleHas
  <2>2. ~(2 <= s.depth) BY <1>4
  <2> QED BY <2>1, <2>2
<1>6. /\ n \in Nat \ {0} /\ n \in 1..n /\ rsp \in Int /\ rsp = (ra + 1) - s.depth /\ ra \in Int
      /\ Linked(h, st, n, ra, s, mem) /\ Stacked(h, N, st, n, mem)
      /\ regs["rbp"] = st[n].base /\ st[n].base = BaseOf(st, n, ra, s.own)
  BY <1>1, GoodParts
<1>7. rsp = ra BY <1>4, <1>6
<1>8. Word(rsp) = <<"return", Caller(st, n).place>> BY <1>6, <1>7 DEF Linked, Word, WordOf
<1>9. rip' = Caller(st, n).place BY <1>2, <1>8
<1>10. regs["rbp"] = Caller(st, n).base BY <1>5, <1>6 DEF BaseOf
<1>11. CASE n = 1
  <2>1. rip' = 0 BY <1>9, <1>11 DEF Caller, Outermost
  <2> QED BY <1>1, <1>2, <2>1 DEF Continues
<1>12. CASE n # 1
  <2> DEFINE k == n - 1
  <2>1. k \in Nat \ {0} /\ k \in 1..k /\ k + 1 = n /\ k \in 1..n BY <1>6, <1>12
  <2>2. Caller(st, n) = st[k] BY <1>12 DEF Caller
  <2> HIDE DEF k
  <2>3. Stacked(h, N, st, k, mem)
    <3> DEFINE last == k - 1
    <3>1. n - 1 = k BY <1>6, <2>1
    <3>2. /\ \A i \in 1..n : Activated(h, N, st, i, mem)
          /\ \A i \in 1..k : Waits(h, st[i], st[i + 1].ra)
          /\ \A i, j \in 1..n : i < j => st[j].ra <= Lowest(h, st[i])
      BY <1>6, <3>1 DEF Stacked
    <3>3. (\A i \in 1..k : i \in 1..n) /\ \A i \in 1..(k - 1) : i \in 1..k BY <1>6, <2>1
    <3> HIDE DEF N
    <3> QED BY <2>1, <3>2, <3>3 DEF Stacked
  <2>4. Waits(h, st[k], st[k + 1].ra)
    <3>1. k \in 1..(n - 1) BY <1>6, <2>1
    <3> QED BY <1>6, <3>1 DEF Stacked
  <2>5. ra = Sp(h, st[k]) - 1 /\ h[st[k].place].knows = "nothing" BY <2>1, <2>4 DEF Waits
  <2>6. Sp(h, st[k]) \in Int BY <1>1, <1>6, <2>1, PlacesSensible
  <2>7. rsp + 1 = Sp(h, st[k]) BY <1>6, <1>7, <2>5, <2>6
  <2>8. Knowing(h, st, k, h[st[k].place], rsp + 1, regs) BY <2>5 DEF Knowing
  <2>9. Good(h, N, st, k, rip', rsp + 1, regs, mem) BY <1>9, <1>10, <2>2, <2>3, <2>7, <2>8 DEF Good
  <2>10. GoodSomewhere(h, N, rip', rsp', regs', mem') BY <1>2, <2>9 DEF GoodSomewhere
  <2> QED BY <1>1, <1>2, <2>10 DEF Continues
<1> QED BY <1>11, <1>12

LEMMA ExitSteps ==
  ASSUME NEW h, NEW st, NEW n, Stands(h, st, n), ExitCall
  PROVE  Continues(h)
<1>1. IsRegs(regs) /\ regs' = regs /\ rip' = 0 BY DEF Stands, ExitCall
<1> QED BY <1>1 DEF Continues

-----------------------------------------------------------------------------
(* Commands of the debugger, which call the runtime below the stack.       *)

LEMMA InspectionSteps ==
  ASSUME NEW h, NEW st, NEW n, Stands(h, st, n), CmdPrint \/ CmdWhere
  PROVE  Continues(h)
<1> DEFINE p == Programs[program]  text == code.text  low == ResultAt + SizeOfValue
<1>1. Sound(p, text, h) /\ Good(h, Len(text), st, n, rip, rsp, regs, mem) /\ IsRegs(regs) BY DEF Stands
<1>2. /\ mem' = [a \in {b \in DOMAIN mem : b >= low} |-> mem[a]]
      /\ rip' = rip /\ rsp' = rsp /\ regs' = regs
  BY DEF CmdPrint, CmdWhere, CallInside
<1>3. rsp \in Int BY <1>1, GoodParts
<1>4. low \in Int /\ low <= rsp BY <1>3 DEF ResultAt, SizeOfValue
<1> HIDE DEF low
<1>5. Spared(h, st, n, rsp, mem, mem') BY <1>2, <1>3, <1>4, LostBelow
<1>6. /\ regs["rbp"] = st[n].base /\ st[n].base = BaseOf(st, n, st[n].ra, h[rip].own)
      /\ rsp = (st[n].ra + 1) - h[rip].depth /\ Knowing(h, st, n, h[rip], rsp, regs)
  BY <1>1, GoodParts
<1>7. rip \in 1..Len(text) /\ Sensible(h[rip]) BY <1>1, GoodHas
<1>8. h[rip].depth \in Int BY <1>7, SensibleHas
<1>9. h[rip].depth <= h[rip].depth BY <1>8
<1>10. GoodSomewhere(h, Len(text), rip, rsp, regs, mem')
  BY <1>1, <1>5, <1>6, <1>7, <1>8, <1>9, GoesAlong
<1> QED BY <1>1, <1>2, <1>10 DEF Continues

-----------------------------------------------------------------------------
(* Execution is an invariant.                                              *)

LEMMA ExecutionBegins ==
  ASSUME InspectInit
  PROVE  Execution
<1> DEFINE p == Programs[program]  text == code.text  N == Len(text)
<1>1. /\ program \in DOMAIN Programs /\ code = CgInst(p) /\ Assembled
      /\ rip = Target(<<"sub", "main">>) /\ rsp = -1
      /\ regs = [r \in ToSet(ArgRegs) \cup {"rax", "rbp", "flag"} |-> IF r = "rbp" THEN Raw("1") ELSE Junk]
      /\ mem = [a \in {-1} |-> <<"return", 0>>]
  BY DEF InspectInit, Init
<1>2. IsProgram(p) BY <1>1, ProgramsAssumption
<1>3. PICK h : Sound(p, text, h)
  <2>1. Balanced(p, text) BY <1>1, <1>2, StackIsBalanced
  <2>2. IsSeq(text)
    <3>1. Between(p, CgInst(p)) BY <1>2, CgInstIs
    <3> QED BY <1>1, <3>1 DEF Between, LeadsTo
  <2> QED BY <2>1, <2>2 DEF Balanced, Sound
<1>4. IsRegs(regs) /\ regs["rbp"] = Raw("1")
  <2>1. "rdi" \in ToSet(ArgRegs)
    <3>1. ArgRegs[1] = "rdi" /\ 1 \in DOMAIN ArgRegs BY DEF ArgRegs
    <3> QED BY <3>1 DEF ToSet
  <2> QED BY <1>1, <2>1 DEF IsRegs
<1> DEFINE label == <<"sub", "main">>  j == Target(label)  s == h[j]
           st == [k \in 1..1 |-> [ra |-> -1, place |-> j, base |-> Raw("1")]]
<1>5. label[1] = "sub" /\ label = TheBody("main") /\ IsNoted(label) BY <1>1 DEF Assembled, TheBody
<1>6. j \in 1..N /\ text[j][2] = label /\ LabelFits(p, text[j], s) /\ s.in # Nobody
  <2>1. label[1] # "E" BY <1>5
  <2> HIDE DEF label
  <2> QED BY <1>3, <1>5, <2>1, TargetHas
<1>7. s.depth = 1 /\ ~s.own /\ s.knows = "nothing"
  <2>1. IsStart(label) BY <1>5 DEF IsStart
  <2> HIDE DEF s, j, label
  <2> QED BY <1>5, <1>6, <2>1 DEF LabelFits
<1>8. st[1].ra = -1 /\ st[1].place = j /\ st[1].base = Raw("1") OBVIOUS
<1> HIDE DEF st, N, j, label
<1>9. Caller(st, 1) = Outermost BY DEF Caller
<1>10. WordOf(mem, -1) = <<"return", 0>> BY <1>1 DEF WordOf
<1>11. Linked(h, st, 1, -1, s, mem)
  <2>1. ~(s.depth >= 2) /\ ~(s.depth >= 3) BY <1>7
  <2> HIDE DEF s
  <2> QED BY <1>6, <1>9, <1>10, <2>1 DEF Linked, Outermost, s
<1>12. BaseOf(st, 1, -1, s.own) = Raw("1") BY <1>7, <1>9 DEF BaseOf, Outermost
<1>13. Activated(h, N, st, 1, mem)
  <2>1. -1 \in Int /\ -1 + 1 = 0 OBVIOUS
  <2>2. \A x \in Int : x + 1 = 0 => x % 2 = 1 OBVIOUS
  <2> QED BY <1>6, <1>8, <1>11, <1>12, <2>1, <2>2 DEF Activated
<1>14. Stacked(h, N, st, 1, mem)
  <2>1. \A k \in 1..1 : k = 1 OBVIOUS
  <2>2. \A k \in 1..1 : Activated(h, N, st, k, mem) BY <1>13, <2>1
  <2>3. 1..(1 - 1) = {} OBVIOUS
  <2>4. \A i, k \in 1..1 : ~(i < k) OBVIOUS
  <2>5. 1 \in Nat \ {0} OBVIOUS
  <2> QED BY <2>2, <2>3, <2>4, <2>5 DEF Stacked
<1>15. rsp = Sp(h, st[1])
  <2>1. Sp(h, st[1]) = (-1 + 1) - 1 BY <1>7, <1>8 DEF Sp
  <2> QED BY <1>1, <2>1
<1>16. rip = j BY <1>1 DEF j, label
<1>17. Knowing(h, st, 1, h[rip], rsp, regs) BY <1>7, <1>16 DEF Knowing
<1>18. Good(h, N, st, 1, rip, rsp, regs, mem) BY <1>4, <1>8, <1>14, <1>15, <1>16, <1>17 DEF Good
<1> QED BY <1>1, <1>3, <1>4, <1>18 DEF Execution, N

LEMMA ExecutionGoesOn ==
  ASSUME Execution, [InspectNext]_inspected
  PROVE  Execution'
<1>1. /\ program \in DOMAIN Programs /\ code = CgInst(Programs[program]) /\ Assembled /\ IsRegs(regs)
  BY DEF Execution
<1>2. PICK h : /\ Sound(Programs[program], code.text, h)
               /\ Running => \E st, n : Good(h, Len(code.text), st, n, rip, rsp, regs, mem)
  BY DEF Execution
<1>3. CASE UNCHANGED inspected
  <2>1. UNCHANGED <<program, code, rip, rsp, regs, mem>> BY <1>3 DEF inspected, vars
  <2>2. Assembled' BY <1>1, <2>1 DEF Assembled, IsNoted
  <2>3. program' \in DOMAIN Programs /\ code' = CgInst(Programs[program']) /\ IsRegs(regs') BY <1>1, <2>1
  <2>4. Sound(Programs[program'], code'.text, h) BY <1>2, <2>1
  <2>5. rip' # 0 => \E st, n : Good(h, Len(code'.text), st, n, rip', rsp', regs', mem')
    BY <1>2, <2>1 DEF Running
  <2> QED BY <2>2, <2>3, <2>4, <2>5 DEF Execution, Running
<1>4. CASE InspectNext
  <2>1. Running /\ UNCHANGED <<program, code>>
    BY <1>4 DEF InspectNext, Next, Move, Push, Pop, MoveStack, Jump, Test, CallSub, Ret, Make, Unwrap,
                PrintCalled, CallOp, CallForeign, ExitCall, PassLabel, CmdPrint, CmdWhere, CallInside,
                Stopped, IsRuntime, Is, Returns, Writes, Finished
  <2>2. PICK st, n : Good(h, Len(code.text), st, n, rip, rsp, regs, mem) BY <1>2, <2>1
  <2>3. Stands(h, st, n) BY <1>1, <1>2, <2>2 DEF Stands
  <2>4. Continues(h)
    <3>1. CASE Move BY <2>3, <3>1, MoveSteps
    <3>2. CASE Push BY <2>3, <3>2, PushSteps
    <3>3. CASE Pop BY <2>3, <3>3, PopSteps
    <3>4. CASE MoveStack BY <2>3, <3>4, MoveStackSteps
    <3>5. CASE Jump BY <1>1, <2>3, <3>5, JumpSteps
    <3>6. CASE Test BY <2>3, <3>6, TestSteps
    <3>7. CASE CallSub BY <2>3, <3>7, CallSubSteps
    <3>8. CASE Ret BY <2>3, <3>8, RetSteps
    <3>9. CASE Make \/ Unwrap \/ PrintCalled \/ CallOp \/ CallForeign BY <2>3, <3>9, RuntimeSteps
    <3>10. CASE ExitCall BY <2>3, <3>10, ExitSteps
    <3>11. CASE PassLabel BY <2>3, <3>11, PassLabelSteps
    <3>12. CASE CmdPrint \/ CmdWhere BY <2>3, <3>12, InspectionSteps
    <3> QED BY <1>4, <3>1, <3>2, <3>3, <3>4, <3>5, <3>6, <3>7, <3>8, <3>9, <3>10, <3>11, <3>12
            DEF InspectNext, Next
  <2>5. Assembled' BY <1>1, <2>1 DEF Assembled, IsNoted
  <2>6. program' \in DOMAIN Programs /\ code' = CgInst(Programs[program']) BY <1>1, <2>1
  <2>7. Sound(Programs[program'], code'.text, h) BY <1>2, <2>1
  <2>8. IsRegs(regs') BY <2>4 DEF Continues
  <2>9. rip' # 0 => \E st2, n2 : Good(h, Len(code'.text), st2, n2, rip', rsp', regs', mem')
    BY <2>1, <2>4 DEF Continues, GoodSomewhere
  <2> QED BY <2>5, <2>6, <2>7, <2>8, <2>9 DEF Execution, Running
<1> QED BY <1>3, <1>4

(* The words of the stack are those of activations, whatever the program   *)
(* does and the debugger asks.                                             *)
THEOREM StackHoldsActivations == InspectSpec => []Execution
<1>1. InspectInit => Execution BY ExecutionBegins
<1>2. Execution /\ [InspectNext]_inspected => Execution' BY ExecutionGoesOn
<1> QED BY <1>1, <1>2, PTL DEF InspectSpec

(* At every label the stack pointer is where the generator believes it to  *)
(* be (ctx.frame_size), for every program and however often its            *)
(* subroutines call each other: inst_bb.c, inst_sub.c.                     *)
THEOREM FrameSizeIsTrue == InspectSpec => []FrameSizeTrue
<1>1. ASSUME Execution PROVE FrameSizeTrue
  <2> SUFFICES ASSUME Is("label"), IsPlace(Instr[2])
               PROVE  rsp = ToAddress(regs["rbp"]) + (2 - Instr[3])
    BY DEF FrameSizeTrue
  <2> DEFINE p == Programs[program]  text == code.text  instr == text[rip]  label == instr[2]
  <2>1. PICK h, st, n : Sound(p, text, h) /\ Good(h, Len(text), st, n, rip, rsp, regs, mem)
    BY <1>1 DEF Execution, Is
  <2> DEFINE s == h[rip]  d == s.depth  ra == st[n].ra  odd == OddForeignAt(p, text, rip)
  <2>2. instr[1] = "label" /\ Instr = instr BY DEF Is, Instr
  <2>3. InstrFits(p, instr, s, odd) /\ Sensible(s) BY <2>1, GoodHas
  <2>4. LabelFits(p, instr, s)
    <3> HIDE DEF odd, instr, s, p
    <3> QED BY <2>2, <2>3 DEF InstrFits
  <2>5. label[1] \in {"bb", "line", "at"} BY <2>2 DEF IsPlace
  <2>6. instr[3] = d /\ s.own
    <3> HIDE DEF s, label, p
    <3>1. instr[3] = s.depth /\ (InBody(label) => s.own) /\ (label[1] = "at" => s.own)
      BY <2>4 DEF LabelFits, label
    <3>2. label[1] \in {"bb", "line"} => InBody(label) BY DEF InBody
    <3> QED BY <2>5, <3>1, <3>2
  <2>7. /\ rsp = (ra + 1) - d /\ ra \in Int
        /\ regs["rbp"] = st[n].base /\ st[n].base = BaseOf(st, n, ra, s.own)
    BY <2>1, GoodParts
  <2>8. ra - 1 \in Int BY <2>7
  <2>9. ToAddress(regs["rbp"]) = ra - 1 BY <2>6, <2>7, <2>8, AddressIs DEF BaseOf
  <2>10. d \in Int BY <2>3, SensibleHas
  <2> HIDE DEF d, ra
  <2>11. (ra - 1) + (2 - d) = (ra + 1) - d BY <2>7, <2>10
  <2> QED BY <2>2, <2>6, <2>7, <2>9, <2>11
<1> QED BY <1>1, StackHoldsActivations, PTL

(* The stack is aligned to 16 bytes at every call, but where an odd number *)
(* of the arguments of an external function was popped: inst_bb.c:475.     *)
THEOREM AlignedAtCalls == InspectSpec => []CallsAligned
<1>1. ASSUME Execution PROVE CallsAligned
  <2> SUFFICES ASSUME Is("call")
               PROVE  rsp % 2 = 0 \/ OddForeignAt(Programs[program], code.text, rip)
    BY DEF CallsAligned
  <2> DEFINE p == Programs[program]  text == code.text  instr == text[rip]
  <2>1. PICK h, st, n : Sound(p, text, h) /\ Good(h, Len(text), st, n, rip, rsp, regs, mem)
    BY <1>1 DEF Execution, Is
  <2> DEFINE s == h[rip]  d == s.depth  ra == st[n].ra  odd == OddForeignAt(p, text, rip)
  <2>2. Stands(h, st, n) BY <1>1, <2>1 DEF Stands, Execution
  <2>3. CallFits(instr, s, odd) BY <2>2, CallPlace
  <2>4. d % 2 = 0 \/ odd BY <2>3 DEF CallFits
  <2>5. rsp = (ra + 1) - d /\ ra \in Int /\ ra % 2 = 1 BY <2>1, GoodParts
  <2>6. Sensible(s) BY <2>1, GoodHas
  <2>7. d \in Int BY <2>6, SensibleHas
  <2> HIDE DEF d, ra
  <2>8. d % 2 = 0 => rsp % 2 = 0 BY <2>5, <2>7
  <2> QED BY <2>4, <2>8
<1> QED BY <1>1, StackHoldsActivations, PTL

-----------------------------------------------------------------------------
(* Debug information: what the compiler writes is what the debugger reads. *)

BeginsWith(t, s) ==
  IsSeq(s) /\ IsSeq(t) /\ Len(s) <= Len(t) /\ \A i \in 1..Len(s) : t[i] = s[i]

(* The string with an index, counted from 0.                               *)
Names(strs, id, name) == id \in Nat /\ id < Len(strs) /\ strs[id + 1] = name

LEMMA ConcatLen ==
  ASSUME NEW s, NEW t, IsSeq(s), IsSeq(t)
  PROVE  /\ IsSeq(s \o t) /\ Len(s \o t) = Len(s) + Len(t)
         /\ Len(s) \in Nat /\ Len(t) \in Nat /\ DOMAIN (s \o t) = 1..(Len(s) + Len(t))
<1>1. IsSeq(s \o t) /\ Len(s \o t) = Len(s) + Len(t) BY ConcatIs
<1> QED BY <1>1, SeqHas

LEMMA ConcatAt ==
  ASSUME NEW s, NEW t, IsSeq(s), IsSeq(t), NEW k \in 1..Len(t)
  PROVE  (s \o t)[Len(s) + k] = t[k]
BY ConcatIs

LEMMA BeginsWithSelf == ASSUME NEW s, IsSeq(s) PROVE BeginsWith(s, s)
<1>1. Len(s) \in Nat BY SeqHas
<1> QED BY <1>1 DEF BeginsWith

LEMMA BeginsWithOn ==
  ASSUME NEW s, NEW t, NEW u, BeginsWith(t, s), BeginsWith(u, t)
  PROVE  BeginsWith(u, s)
<1>1. Len(s) \in Nat /\ Len(t) \in Nat /\ Len(u) \in Nat BY SeqHas DEF BeginsWith
<1>2. Len(s) <= Len(t) /\ Len(t) <= Len(u) BY DEF BeginsWith
<1>3. ASSUME NEW i \in 1..Len(s) PROVE u[i] = s[i]
  <2>1. i \in 1..Len(t) BY <1>1, <1>2
  <2> QED BY <2>1 DEF BeginsWith
<1> QED BY <1>1, <1>2, <1>3 DEF BeginsWith

LEMMA ConcatBegins ==
  ASSUME NEW s, NEW t, IsSeq(s), IsSeq(t)
  PROVE  BeginsWith(s \o t, s)
<1>1. Len(s) \in Nat /\ Len(t) \in Nat BY SeqHas
<1>2. IsSeq(s \o t) /\ Len(s \o t) = Len(s) + Len(t) /\ \A i \in 1..Len(s) : (s \o t)[i] = s[i]
  BY ConcatIs
<1> QED BY <1>1, <1>2 DEF BeginsWith

LEMMA NamesStay ==
  ASSUME NEW s, NEW t, NEW id, NEW name, BeginsWith(t, s), Names(s, id, name)
  PROVE  Names(t, id, name)
<1>1. Len(s) \in Nat /\ Len(t) \in Nat BY SeqHas DEF BeginsWith
<1>2. id \in Nat /\ id < Len(s) /\ Len(s) <= Len(t) /\ s[id + 1] = name BY DEF Names, BeginsWith
<1>3. id + 1 \in 1..Len(s) BY <1>1, <1>2
<1>4. t[id + 1] = s[id + 1] BY <1>3 DEF BeginsWith
<1> QED BY <1>1, <1>2, <1>4 DEF Names

(* A name is entered once, names that are there keep their index.          *)
LEMMA EnteredIs ==
  ASSUME NEW names, NEW name, IsSeq(names)
  PROVE  /\ BeginsWith(Entered(names, name), names)
         /\ Names(Entered(names, name), Idx(Entered(names, name), name), name)
<1> DEFINE entered == Entered(names, name)
<1>1. BeginsWith(entered, names) /\ \E i \in DOMAIN entered : entered[i] = name
  <2>1. CASE name \in ToSet(names)
    <3>1. entered = names BY <2>1 DEF Entered
    <3>2. \E i \in DOMAIN names : names[i] = name BY <2>1 DEF ToSet
    <3> QED BY <3>1, <3>2, BeginsWithSelf
  <2>2. CASE name \notin ToSet(names)
    <3>1. entered = Append(names, name) BY <2>2 DEF Entered
    <3>2. names \in Seq(ToSet(names)) BY DEF IsSeq
    <3>3. Append(names, name) = names \o <<name>>
      <4>1. names \in Seq(ToSet(names) \cup {name}) BY <3>2
      <4> QED BY <4>1
    <3>4. IsSeq(<<name>>) /\ Len(<<name>>) = 1 /\ <<name>>[1] = name BY TupleIs
    <3> DEFINE more == <<name>>
    <3> HIDE DEF more, entered
    <3>5. IsSeq(more) /\ Len(more) = 1 /\ more[1] = name /\ entered = names \o more
      BY <3>1, <3>3, <3>4 DEF more
    <3>6. BeginsWith(entered, names) BY <3>5, ConcatBegins
    <3>7. entered[Len(names) + 1] = name BY <3>5, ConcatNext
    <3>8. IsSeq(entered) /\ Len(entered) = Len(names) + 1 BY <3>5, ConcatLen
    <3>9. Len(names) \in Nat /\ DOMAIN entered = 1..Len(entered) BY <3>8, SeqHas
    <3>10. Len(names) + 1 \in DOMAIN entered BY <3>8, <3>9
    <3> QED BY <3>6, <3>7, <3>10
  <2> QED BY <2>1, <2>2
<1>2. IsSeq(entered) BY <1>1 DEF BeginsWith
<1> HIDE DEF entered
<1>3. DOMAIN entered = 1..Len(entered) /\ Len(entered) \in Nat BY <1>2, SeqHas
<1> DEFINE i == CHOOSE x \in DOMAIN entered : entered[x] = name
<1>4. i \in DOMAIN entered /\ entered[i] = name BY <1>1
<1>5. Idx(entered, name) = i - 1 BY DEF Idx
<1> HIDE DEF i
<1>6. i \in Int /\ 1 <= i /\ i <= Len(entered) BY <1>3, <1>4
<1>7. i - 1 \in Nat /\ i - 1 < Len(entered) /\ (i - 1) + 1 = i BY <1>3, <1>6
<1>8. Names(entered, i - 1, name) BY <1>4, <1>7 DEF Names
<1> QED BY <1>1, <1>5, <1>8 DEF entered

-----------------------------------------------------------------------------
(* What is written of lines: three words each, behind their number.        *)

IsOut(e) == {"text", "files", "strs", "line", "info"} \subseteq DOMAIN e

LEMMA EmitLineIs ==
  ASSUME NEW e, NEW l, IsOut(e)
  PROVE  LET f == EmitLine(e, l)  files == Entered(e.files, l.file)
         IN  /\ IsOut(f) /\ f.text = e.text /\ f.info = e.info
             /\ f.files = files
             /\ f.strs = Entered(e.strs, l.file)
             /\ f.line = e.line \o <<AddressOf(e.text, l.label), Idx(files, l.file), l.line>>
<1> DEFINE files == Entered(e.files, l.file)  strs == Entered(e.strs, l.file)
           line == e.line \o <<AddressOf(e.text, l.label), Idx(files, l.file), l.line>>
<1>1. EmitLine(e, l) = [e EXCEPT !.files = files, !.strs = strs, !.line = line] BY DEF EmitLine
<1> HIDE DEF files, strs, line
<1>2. LET f == [e EXCEPT !.files = files, !.strs = strs, !.line = line]
      IN  /\ IsOut(f) /\ f.text = e.text /\ f.info = e.info
          /\ f.files = files /\ f.strs = strs /\ f.line = line
  BY DEF IsOut
<1> QED BY <1>1, <1>2 DEF files, strs, line

LineWritten(cg, files, line, j) ==
  /\ line[3 * j - 1] = AddressOf(cg.text, cg.lines[j].label)
  /\ Names(files, line[3 * j], cg.lines[j].file)
  /\ line[3 * j + 1] = cg.lines[j].line

LinesGood(cg, i, e) ==
  /\ IsOut(e) /\ e.text = cg.text
  /\ IsSeq(e.files) /\ e.strs = e.files
  /\ IsSeq(e.line) /\ Len(e.line) = 3 * i + 1 /\ e.line[1] = Len(cg.lines)
  /\ \A j \in 1..i : LineWritten(cg, e.files, e.line, j)
Lining == INSTANCE Folding WITH op <- EmitLine, Good <- LinesGood

LEMMA EmitLineWrites ==
  ASSUME NEW cg, NEW i \in Nat \ {0}, NEW e, LinesGood(cg, i - 1, e)
  PROVE  LinesGood(cg, i, EmitLine(e, cg.lines[i]))
<1> DEFINE l == cg.lines[i]  f == EmitLine(e, l)  files == Entered(e.files, l.file)
           more == <<AddressOf(e.text, l.label), Idx(files, l.file), l.line>>
<1>1. /\ IsOut(f) /\ f.text = e.text
      /\ f.files = files /\ f.strs = Entered(e.strs, l.file) /\ f.line = e.line \o more
  <2> HIDE DEF l
  <2> QED BY EmitLineIs DEF LinesGood
<1>2. /\ e.text = cg.text /\ IsSeq(e.files) /\ e.strs = e.files
      /\ IsSeq(e.line) /\ Len(e.line) = 3 * (i - 1) + 1 /\ e.line[1] = Len(cg.lines)
      /\ \A j \in 1..(i - 1) : LineWritten(cg, e.files, e.line, j)
  BY DEF LinesGood
<1>3. BeginsWith(files, e.files) /\ Names(files, Idx(files, l.file), l.file)
  <2> HIDE DEF l
  <2> QED BY <1>2, EnteredIs
<1>4. /\ IsSeq(more) /\ Len(more) = 3
      /\ more[1] = AddressOf(cg.text, l.label) /\ more[2] = Idx(files, l.file) /\ more[3] = l.line
  <2>1. IsSeq(more) /\ Len(more) = 3 BY TupleIs
  <2> HIDE DEF files, l
  <2> QED BY <1>2, <2>1
<1> HIDE DEF f, files, more
<1>5. /\ IsSeq(f.line) /\ Len(f.line) = Len(e.line) + 3
      /\ \A k \in 1..Len(e.line) : f.line[k] = e.line[k]
      /\ \A k \in 1..3 : f.line[Len(e.line) + k] = more[k]
  <2> DEFINE s == e.line
  <2>1. f.line = s \o more /\ IsSeq(s) BY <1>1, <1>2
  <2> HIDE DEF s
  <2>2. IsSeq(s \o more) /\ Len(s \o more) = Len(s) + Len(more) BY <1>4, <2>1, ConcatLen
  <2>3. \A k \in 1..Len(s) : (s \o more)[k] = s[k] BY <1>4, <2>1, ConcatIs
  <2>4. \A k \in 1..Len(more) : (s \o more)[Len(s) + k] = more[k] BY <1>4, <2>1, ConcatAt
  <2> QED BY <1>4, <2>1, <2>2, <2>3, <2>4 DEF s
<1> DEFINE N == 3 * (i - 1) + 1
<1>6. Len(e.line) = N /\ N \in Nat /\ N + 1 = 3 * i - 1 /\ N + 2 = 3 * i /\ N + 3 = 3 * i + 1
      /\ 1 \in 1..N /\ 1 \in 1..3 /\ 2 \in 1..3 /\ 3 \in 1..3
  BY <1>2
<1>7. f.line[3 * i - 1] = more[1] /\ f.line[3 * i] = more[2] /\ f.line[3 * i + 1] = more[3]
  <2> HIDE DEF N
  <2>1. f.line[N + 1] = more[1] /\ f.line[N + 2] = more[2] /\ f.line[N + 3] = more[3]
    BY <1>5, <1>6
  <2> QED BY <1>6, <2>1
<1>8. LineWritten(cg, files, f.line, i) BY <1>3, <1>4, <1>7 DEF LineWritten
<1>9. ASSUME NEW j \in 1..(i - 1) PROVE LineWritten(cg, files, f.line, j)
  <2>1. LineWritten(cg, e.files, e.line, j) BY <1>2
  <2>2. 3 * j - 1 \in 1..N /\ 3 * j \in 1..N /\ 3 * j + 1 \in 1..N OBVIOUS
  <2> HIDE DEF N
  <2>3. f.line[3 * j - 1] = e.line[3 * j - 1] /\ f.line[3 * j] = e.line[3 * j]
        /\ f.line[3 * j + 1] = e.line[3 * j + 1]
    BY <1>5, <1>6, <2>2
  <2>4. Names(files, e.line[3 * j], cg.lines[j].file) BY <1>3, <2>1, NamesStay DEF LineWritten
  <2> QED BY <2>1, <2>3, <2>4 DEF LineWritten
<1>10. f.line[1] = Len(cg.lines) /\ Len(f.line) = 3 * i + 1 /\ i \in 1..i
  <2> HIDE DEF N
  <2> QED BY <1>2, <1>5, <1>6
<1>11. ASSUME NEW j \in 1..i PROVE LineWritten(cg, files, f.line, j)
  <2>1. j = i \/ j \in 1..(i - 1) OBVIOUS
  <2> QED BY <1>8, <1>9, <2>1
<1>12. IsSeq(files) BY <1>3 DEF BeginsWith
<1>13. f.strs = files BY <1>1, <1>2 DEF files
<1>14. LinesGood(cg, i, f) BY <1>1, <1>2, <1>5, <1>10, <1>11, <1>12, <1>13 DEF LinesGood
<1> QED BY <1>14 DEF f

LEMMA EmitLinesWrites ==
  ASSUME NEW cg, IsSeq(cg.lines)
  PROVE  LinesGood(cg, Len(cg.lines), EmitLines(cg))
<1> DEFINE start == [text |-> cg.text, files |-> <<>>, strs |-> <<>>, line |-> <<Len(cg.lines)>>,
                     info |-> <<>>]
<1>1. EmitLines(cg) = Lining!Folded(start, cg.lines) BY DEF EmitLines, Through, Lining!Folded
<1>2. Len(cg.lines) \in Nat BY SeqHas
<1>3. LinesGood(cg, 0, start)
  <2>1. IsSeq(<<>>) /\ IsSeq(<<Len(cg.lines)>>) /\ Len(<<Len(cg.lines)>>) = 1 BY TupleIs
  <2>2. IsOut(start) BY DEF IsOut
  <2> QED BY <2>1, <2>2 DEF LinesGood
<1>4. \A i \in 1..Len(cg.lines) : \A e : LinesGood(cg, i - 1, e) => LinesGood(cg, i, EmitLine(e, cg.lines[i]))
  <2> SUFFICES ASSUME NEW i \in 1..Len(cg.lines), NEW e, LinesGood(cg, i - 1, e)
               PROVE  LinesGood(cg, i, EmitLine(e, cg.lines[i]))
    OBVIOUS
  <2>1. i \in Nat \ {0} BY <1>2
  <2> QED BY <2>1, EmitLineWrites
<1> HIDE DEF start
<1> QED BY <1>1, <1>2, <1>3, <1>4, Lining!Folds

-----------------------------------------------------------------------------
(* What is written of a subroutine: five words, and two for each parameter *)
(* and each variable.                                                      *)

LEMMA EmitValueIs ==
  ASSUME NEW e, NEW v, IsOut(e)
  PROVE  LET f == EmitValue(e, v)  strs == Entered(e.strs, v.name)
         IN  /\ IsOut(f) /\ f.text = e.text /\ f.files = e.files /\ f.line = e.line
             /\ f.strs = strs
             /\ f.info = e.info \o <<v.offset, Idx(strs, v.name)>>
<1> DEFINE strs == Entered(e.strs, v.name)  info == e.info \o <<v.offset, Idx(strs, v.name)>>
<1>1. EmitValue(e, v) = [e EXCEPT !.strs = strs, !.info = info] BY DEF EmitValue
<1> HIDE DEF strs, info
<1>2. LET f == [e EXCEPT !.strs = strs, !.info = info]
      IN  /\ IsOut(f) /\ f.text = e.text /\ f.files = e.files /\ f.line = e.line
          /\ f.strs = strs /\ f.info = info
  BY DEF IsOut
<1> QED BY <1>1, <1>2 DEF strs, info

ValueWritten(strs, info, cur, j, v) ==
  /\ info[cur + 2 * (j - 1)] = v.offset
  /\ Names(strs, info[cur + 2 * (j - 1) + 1], v.name)

(* e2 has what e has written, and more.                                    *)
OnlyAdds(e2, e) ==
  /\ IsOut(e2) /\ e2.text = e.text /\ e2.files = e.files /\ e2.line = e.line
  /\ BeginsWith(e2.strs, e.strs) /\ BeginsWith(e2.info, e.info)

LEMMA OnlyAddsTwice ==
  ASSUME NEW e, NEW e2, NEW e3, OnlyAdds(e2, e), OnlyAdds(e3, e2)
  PROVE  OnlyAdds(e3, e)
BY BeginsWithOn DEF OnlyAdds

ValuesGood(given, i, e) ==
  /\ OnlyAdds(e, given.from) /\ Len(e.info) = Len(given.from.info) + 2 * i
  /\ \A j \in 1..i : ValueWritten(e.strs, e.info, Len(given.from.info) + 1, j, given.values[j])
Valuing == INSTANCE Folding WITH op <- EmitValue, Good <- ValuesGood

LEMMA ValueStays ==
  ASSUME NEW strs, NEW info, NEW strs2, NEW info2, NEW cur \in Nat \ {0}, NEW j \in Nat \ {0}, NEW v,
         BeginsWith(strs2, strs), BeginsWith(info2, info),
         cur + 2 * (j - 1) + 1 <= Len(info), ValueWritten(strs, info, cur, j, v)
  PROVE  ValueWritten(strs2, info2, cur, j, v)
<1> DEFINE at == cur + 2 * (j - 1)
<1>1. at \in Nat \ {0} /\ at + 1 <= Len(info) OBVIOUS
<1>2. Len(info) \in Nat BY SeqHas DEF BeginsWith
<1>3. info[at] = v.offset /\ Names(strs, info[at + 1], v.name) BY DEF ValueWritten
<1> HIDE DEF at
<1>4. at \in 1..Len(info) /\ at + 1 \in 1..Len(info) BY <1>1, <1>2
<1>5. info2[at] = info[at] /\ info2[at + 1] = info[at + 1] BY <1>4 DEF BeginsWith
<1>6. Names(strs2, info[at + 1], v.name) BY <1>3, NamesStay
<1> QED BY <1>3, <1>5, <1>6 DEF ValueWritten, at

LEMMA EmitValueWrites ==
  ASSUME NEW given, NEW i \in Nat \ {0}, NEW e, ValuesGood(given, i - 1, e)
  PROVE  ValuesGood(given, i, EmitValue(e, given.values[i]))
<1> DEFINE v == given.values[i]  f == EmitValue(e, v)  strs == Entered(e.strs, v.name)
           more == <<v.offset, Idx(strs, v.name)>>  e0 == given.from  N == Len(e.info)
           L == Len(e0.info)
<1>1. OnlyAdds(e, e0) /\ N = L + 2 * (i - 1) BY DEF ValuesGood
<1>2. \A j \in 1..(i - 1) : ValueWritten(e.strs, e.info, L + 1, j, given.values[j]) BY DEF ValuesGood
<1>3. IsSeq(e.strs) /\ IsSeq(e.info) /\ IsSeq(e0.info) BY <1>1 DEF OnlyAdds, BeginsWith
<1>4. N \in Nat /\ L \in Nat BY <1>3, SeqHas
<1>5. /\ IsOut(f) /\ f.text = e.text /\ f.files = e.files /\ f.line = e.line
      /\ f.strs = strs /\ f.info = e.info \o more
  <2> HIDE DEF v
  <2>1. IsOut(e) BY <1>1 DEF OnlyAdds
  <2> QED BY <2>1, EmitValueIs
<1>6. BeginsWith(strs, e.strs) /\ Names(strs, Idx(strs, v.name), v.name)
  <2> HIDE DEF v
  <2> QED BY <1>3, EnteredIs
<1>7. IsSeq(more) /\ Len(more) = 2 /\ more[1] = v.offset /\ more[2] = Idx(strs, v.name)
  <2>1. IsSeq(more) /\ Len(more) = 2 BY TupleIs
  <2> HIDE DEF v, strs
  <2> QED BY <2>1
<1> HIDE DEF f, strs, more
<1>8. /\ BeginsWith(f.info, e.info) /\ Len(f.info) = N + 2
      /\ f.info[N + 1] = v.offset /\ f.info[N + 2] = Idx(strs, v.name)
  <2> DEFINE s == e.info
  <2>1. IsSeq(s) /\ f.info = s \o more /\ Len(s) = N BY <1>3, <1>5
  <2> HIDE DEF s, N, v
  <2>2. BeginsWith(s \o more, s) BY <1>7, <2>1, ConcatBegins
  <2>3. Len(s \o more) = Len(s) + Len(more) BY <1>7, <2>1, ConcatLen
  <2>4. \A k \in 1..Len(more) : (s \o more)[Len(s) + k] = more[k] BY <1>7, <2>1, ConcatAt, SMTT(30)
  <2>5. 1 \in 1..Len(more) /\ 2 \in 1..Len(more) BY <1>7
  <2> QED BY <1>7, <2>1, <2>2, <2>3, <2>4, <2>5 DEF s
<1>9. OnlyAdds(f, e) BY <1>5, <1>6, <1>8 DEF OnlyAdds
<1>10. OnlyAdds(f, e0) BY <1>1, <1>9, OnlyAddsTwice
<1> HIDE DEF N, L
<1>11. Len(f.info) = L + 2 * i BY <1>1, <1>4, <1>8
<1>12. ValueWritten(f.strs, f.info, L + 1, i, v)
  <2>1. (L + 1) + 2 * (i - 1) = N + 1 /\ (L + 1) + 2 * (i - 1) + 1 = N + 2 BY <1>1, <1>4
  <2> HIDE DEF v
  <2> QED BY <1>5, <1>6, <1>8, <2>1 DEF ValueWritten
<1>13. ASSUME NEW j \in 1..(i - 1) PROVE ValueWritten(f.strs, f.info, L + 1, j, given.values[j])
  <2>1. L + 1 \in Nat \ {0} /\ j \in Nat \ {0} /\ (L + 1) + 2 * (j - 1) + 1 <= N BY <1>1, <1>4
  <2>2. ValueWritten(e.strs, e.info, L + 1, j, given.values[j]) BY <1>2
  <2>3. BeginsWith(f.strs, e.strs) BY <1>5, <1>6
  <2> QED BY <1>8, <2>1, <2>2, <2>3, ValueStays DEF N
<1>14. ASSUME NEW j \in 1..i PROVE ValueWritten(f.strs, f.info, L + 1, j, given.values[j])
  <2>1. j = i \/ j \in 1..(i - 1) OBVIOUS
  <2> QED BY <1>12, <1>13, <2>1
<1>15. ValuesGood(given, i, f) BY <1>10, <1>11, <1>14 DEF ValuesGood, L
<1> QED BY <1>15 DEF f

LEMMA EmitValuesWrites ==
  ASSUME NEW e, NEW values, IsOut(e), IsSeq(e.strs), IsSeq(e.info), IsSeq(values)
  PROVE  ValuesGood([from |-> e, values |-> values], Len(values), Through(EmitValue, e, values))
<1> DEFINE given == [from |-> e, values |-> values]
<1>1. Through(EmitValue, e, values) = Valuing!Folded(e, values) BY DEF Through, Valuing!Folded
<1>2. Len(values) \in Nat /\ Len(e.info) \in Nat BY SeqHas
<1>3. ValuesGood(given, 0, e)
  <2>1. OnlyAdds(e, e) BY BeginsWithSelf DEF OnlyAdds
  <2> QED BY <1>2, <2>1 DEF ValuesGood
<1>4. \A i \in 1..Len(values) : \A x : ValuesGood(given, i - 1, x) => ValuesGood(given, i, EmitValue(x, values[i]))
  <2> SUFFICES ASSUME NEW i \in 1..Len(values), NEW x, ValuesGood(given, i - 1, x)
               PROVE  ValuesGood(given, i, EmitValue(x, values[i]))
    OBVIOUS
  <2>1. i \in Nat \ {0} /\ given.values = values BY <1>2
  <2> HIDE DEF given
  <2>2. ValuesGood(given, i, EmitValue(x, given.values[i])) BY <2>1, EmitValueWrites
  <2> QED BY <2>1, <2>2
<1> HIDE DEF given
<1>5. ValuesGood(given, Len(values), Valuing!Folded(e, values)) BY <1>2, <1>3, <1>4, Valuing!Folds
<1> QED BY <1>1, <1>5 DEF given

SubWritten(text, strs, info, at, s) ==
  /\ info[at] = AddressOf(text, s.start) /\ info[at + 1] = AddressOf(text, s.end)
  /\ Names(strs, info[at + 2], s.name)
  /\ info[at + 3] = Len(s.params) /\ info[at + 4] = Len(s.vars)
  /\ \A j \in 1..Len(s.params) : ValueWritten(strs, info, at + 5, j, s.params[j])
  /\ \A j \in 1..Len(s.vars) : ValueWritten(strs, info, at + 5 + 2 * Len(s.params), j, s.vars[j])
SizeOfSub(s) == 5 + 2 * (Len(s.params) + Len(s.vars))

LEMMA SizeIsNat ==
  ASSUME NEW s, IsSeq(s.params), IsSeq(s.vars)
  PROVE  SizeOfSub(s) \in Nat
<1> DEFINE P == Len(s.params)  V == Len(s.vars)
<1>1. P \in Nat /\ V \in Nat BY SeqHas
<1>2. SizeOfSub(s) = 5 + 2 * (P + V) BY DEF SizeOfSub
<1> HIDE DEF P, V
<1> QED BY <1>1, <1>2

LEMMA SubStays ==
  ASSUME NEW text, NEW strs, NEW info, NEW strs2, NEW info2, NEW at \in Nat \ {0}, NEW s,
         BeginsWith(strs2, strs), BeginsWith(info2, info), IsSeq(s.params), IsSeq(s.vars),
         at + SizeOfSub(s) <= Len(info) + 1, SubWritten(text, strs, info, at, s)
  PROVE  SubWritten(text, strs2, info2, at, s)
<1> DEFINE P == Len(s.params)  V == Len(s.vars)  N == Len(info)
<1>1. P \in Nat /\ V \in Nat /\ N \in Nat BY SeqHas DEF BeginsWith
<1>2. (at + 5) + 2 * (P + V) <= N + 1
  <2>1. at + (5 + 2 * (P + V)) <= N + 1 BY DEF SizeOfSub
  <2> HIDE DEF N, P, V
  <2> QED BY <1>1, <2>1
<1>3. \A k \in 1..N : info2[k] = info[k] BY DEF BeginsWith
<1>4. /\ info[at] = AddressOf(text, s.start) /\ info[at + 1] = AddressOf(text, s.end)
      /\ Names(strs, info[at + 2], s.name)
      /\ info[at + 3] = P /\ info[at + 4] = V
      /\ \A j \in 1..P : ValueWritten(strs, info, at + 5, j, s.params[j])
      /\ \A j \in 1..V : ValueWritten(strs, info, at + 5 + 2 * P, j, s.vars[j])
  BY DEF SubWritten
<1>5. Names(strs2, info[at + 2], s.name) BY <1>4, NamesStay
<1>6. ASSUME NEW j \in 1..P PROVE ValueWritten(strs2, info2, at + 5, j, s.params[j])
  <2>1. at + 5 \in Nat \ {0} /\ j \in Nat \ {0} /\ (at + 5) + 2 * (j - 1) + 1 <= N
    <3> HIDE DEF N, P, V
    <3> QED BY <1>1, <1>2
  <2>2. ValueWritten(strs, info, at + 5, j, s.params[j]) BY <1>4
  <2> QED BY <2>1, <2>2, ValueStays
<1>7. ASSUME NEW j \in 1..V PROVE ValueWritten(strs2, info2, at + 5 + 2 * P, j, s.vars[j])
  <2> DEFINE cur == at + 5 + 2 * P
  <2>1. cur \in Nat \ {0} /\ j \in Nat \ {0} /\ cur + 2 * (j - 1) + 1 <= N
    <3> HIDE DEF N, P, V
    <3> QED BY <1>1, <1>2
  <2>2. ValueWritten(strs, info, cur, j, s.vars[j]) BY <1>4
  <2> HIDE DEF cur
  <2>3. ValueWritten(strs2, info2, cur, j, s.vars[j]) BY <2>1, <2>2, ValueStays
  <2> QED BY <2>3 DEF cur
<1>8. {at, at + 1, at + 2, at + 3, at + 4} \subseteq 1..N
  <2> HIDE DEF N, P, V
  <2> QED BY <1>1, <1>2
<1>9. /\ info2[at] = info[at] /\ info2[at + 1] = info[at + 1] /\ info2[at + 2] = info[at + 2]
      /\ info2[at + 3] = info[at + 3] /\ info2[at + 4] = info[at + 4]
  BY <1>3, <1>8
<1> QED BY <1>4, <1>5, <1>6, <1>7, <1>9 DEF SubWritten

LEMMA EmitSubWrites ==
  ASSUME NEW e, NEW s, IsOut(e), IsSeq(e.strs), IsSeq(e.info), IsSeq(s.params), IsSeq(s.vars)
  PROVE  LET f == EmitSub(e, s)
         IN  /\ OnlyAdds(f, e) /\ Len(f.info) = Len(e.info) + SizeOfSub(s)
             /\ SubWritten(e.text, f.strs, f.info, Len(e.info) + 1, s)
<1> DEFINE strs == Entered(e.strs, s.name)
           start == AddressOf(e.text, s.start)  end == AddressOf(e.text, s.end)
           id == Idx(strs, s.name)  P == Len(s.params)  V == Len(s.vars)  N == Len(e.info)
           head == <<start, end, id, P, V>>  info == e.info \o head
           values == s.params \o s.vars
           e1 == [e EXCEPT !.strs = strs, !.info = info]
           f == EmitSub(e, s)
           given == [from |-> e1, values |-> values]
<1>1. f = Through(EmitValue, e1, values) BY DEF EmitSub
<1>2. N \in Nat /\ P \in Nat /\ V \in Nat BY SeqHas
<1>3. BeginsWith(strs, e.strs) /\ Names(strs, id, s.name) BY EnteredIs
<1>4. /\ IsSeq(head) /\ Len(head) = 5
      /\ head[1] = start /\ head[2] = end /\ head[3] = id /\ head[4] = P /\ head[5] = V
  <2>1. IsSeq(head) /\ Len(head) = 5 BY TupleIs
  <2> HIDE DEF start, end, id, P, V
  <2> QED BY <2>1
<1> HIDE DEF head
<1>5. BeginsWith(info, e.info) /\ Len(info) = N + 5 /\ \A k \in 1..5 : info[N + k] = head[k]
  <2>1. BeginsWith(info, e.info) BY <1>4, ConcatBegins
  <2>2. Len(info) = N + Len(head) BY <1>4, ConcatLen
  <2>3. \A k \in 1..Len(head) : info[N + k] = head[k]
    <3> DEFINE s0 == e.info
    <3>1. IsSeq(s0) OBVIOUS
    <3> HIDE DEF s0, info, N
    <3>2. ASSUME NEW k \in 1..Len(head) PROVE (s0 \o head)[Len(s0) + k] = head[k]
      BY <1>4, <3>1, ConcatAt, SMTT(30)
    <3> QED BY <3>2 DEF s0, info, N
  <2> QED BY <1>4, <2>1, <2>2, <2>3
<1> HIDE DEF info, strs
<1>6. /\ IsOut(e1) /\ e1.text = e.text /\ e1.files = e.files /\ e1.line = e.line
      /\ e1.strs = strs /\ e1.info = info
  BY DEF IsOut
<1> HIDE DEF e1
<1>7. OnlyAdds(e1, e) BY <1>3, <1>5, <1>6 DEF OnlyAdds
<1>8. IsSeq(values) /\ Len(values) = P + V BY ConcatLen
<1>9. (\A j \in 1..P : values[j] = s.params[j]) /\ (\A j \in 1..V : values[P + j] = s.vars[j])
  <2> DEFINE ps == s.params  vs == s.vars
  <2>1. IsSeq(ps) /\ IsSeq(vs) OBVIOUS
  <2> HIDE DEF ps, vs
  <2>2. ASSUME NEW j \in 1..Len(ps) PROVE (ps \o vs)[j] = ps[j] BY <2>1, ConcatIs
  <2>3. ASSUME NEW j \in 1..Len(vs) PROVE (ps \o vs)[Len(ps) + j] = vs[j] BY <2>1, ConcatAt
  <2> QED BY <2>2, <2>3 DEF ps, vs
<1>10. IsSeq(strs) /\ IsSeq(info) BY <1>3, <1>5 DEF BeginsWith
<1> HIDE DEF values
<1>11. ValuesGood(given, Len(values), f) BY <1>1, <1>6, <1>8, <1>10, EmitValuesWrites
<1> HIDE DEF f
<1>12. /\ OnlyAdds(f, e1) /\ Len(f.info) = (N + 5) + 2 * (P + V)
       /\ \A j \in 1..(P + V) : ValueWritten(f.strs, f.info, (N + 5) + 1, j, values[j])
  <2>1. given.from = e1 /\ given.values = values OBVIOUS
  <2> HIDE DEF given
  <2> QED BY <1>5, <1>6, <1>8, <1>11, <2>1 DEF ValuesGood
<1>13. OnlyAdds(f, e) BY <1>7, <1>12, OnlyAddsTwice
<1>14. Len(f.info) = N + SizeOfSub(s)
  <2>1. SizeOfSub(s) = 5 + 2 * (P + V) BY DEF SizeOfSub
  <2> HIDE DEF N, P, V
  <2> QED BY <1>2, <1>12, <2>1
<1> HIDE DEF N, P, V
<1>15. /\ f.info[N + 1] = start /\ f.info[N + 2] = end /\ f.info[N + 3] = id
       /\ f.info[N + 4] = P /\ f.info[N + 5] = V
  <2>1. \A k \in 1..(N + 5) : f.info[k] = info[k] BY <1>5, <1>6, <1>12 DEF OnlyAdds, BeginsWith
  <2>2. \A k \in 1..5 : N + k \in 1..(N + 5) BY <1>2
  <2>3. \A k \in 1..5 : f.info[N + k] = head[k] BY <1>5, <2>1, <2>2
  <2>4. 1 \in 1..5 /\ 2 \in 1..5 /\ 3 \in 1..5 /\ 4 \in 1..5 /\ 5 \in 1..5 OBVIOUS
  <2> HIDE DEF start, end, id
  <2> QED BY <1>4, <2>3, <2>4
<1>16. Names(f.strs, id, s.name)
  <2>1. BeginsWith(f.strs, strs) BY <1>6, <1>12 DEF OnlyAdds
  <2> HIDE DEF id
  <2> QED BY <1>3, <2>1, NamesStay
<1>17. ASSUME NEW j \in 1..P PROVE ValueWritten(f.strs, f.info, (N + 1) + 5, j, s.params[j])
  <2>1. j \in 1..(P + V) /\ (N + 1) + 5 = (N + 5) + 1 BY <1>2
  <2>2. values[j] = s.params[j] BY <1>9
  <2>3. ValueWritten(f.strs, f.info, (N + 5) + 1, j, values[j]) BY <1>12, <2>1
  <2> QED BY <2>1, <2>2, <2>3
<1>18. ASSUME NEW j \in 1..V PROVE ValueWritten(f.strs, f.info, (N + 1) + 5 + 2 * P, j, s.vars[j])
  <2>1. /\ P + j \in 1..(P + V)
        /\ ((N + 5) + 1) + 2 * ((P + j) - 1) = ((N + 1) + 5 + 2 * P) + 2 * (j - 1)
    BY <1>2
  <2>2. values[P + j] = s.vars[j] BY <1>9
  <2>3. ValueWritten(f.strs, f.info, (N + 5) + 1, P + j, values[P + j]) BY <1>12, <2>1
  <2> QED BY <2>1, <2>2, <2>3 DEF ValueWritten
<1>19. (N + 1) + 1 = N + 2 /\ (N + 1) + 2 = N + 3 /\ (N + 1) + 3 = N + 4 /\ (N + 1) + 4 = N + 5
  BY <1>2
<1>20. SubWritten(e.text, f.strs, f.info, N + 1, s)
  <2> DEFINE at == N + 1
  <2>1. /\ f.info[at] = start /\ f.info[at + 1] = end /\ f.info[at + 2] = id
        /\ f.info[at + 3] = P /\ f.info[at + 4] = V
    BY <1>15, <1>19
  <2> HIDE DEF at
  <2> QED BY <1>16, <1>17, <1>18, <2>1 DEF SubWritten, at, P, V
<1> QED BY <1>13, <1>14, <1>20 DEF f, N

(* Subroutines are written behind each other, at says where.               *)
Laid(text, subs, at, i, strs, info) ==
  /\ at = [k \in 1..(i + 1) |-> at[k]] /\ at[1] = 3 /\ at[i + 1] = Len(info) + 1
  /\ \A k \in 1..i : /\ at[k] \in Nat \ {0} /\ at[k + 1] = at[k] + SizeOfSub(subs[k])
                     /\ at[k + 1] <= Len(info) + 1
                     /\ SubWritten(text, strs, info, at[k], subs[k])

SubsGood(given, i, e) ==
  OnlyAdds(e, given.from) /\ \E at : Laid(e.text, given.subs, at, i, e.strs, e.info)
Subbing == INSTANCE Folding WITH op <- EmitSub, Good <- SubsGood

LEMMA EmitSubStep ==
  ASSUME NEW given, NEW i \in Nat \ {0}, NEW e, AreSubs(given.subs), i <= Len(given.subs),
         SubsGood(given, i - 1, e)
  PROVE  SubsGood(given, i, EmitSub(e, given.subs[i]))
<1> DEFINE subs == given.subs  s == subs[i]  f == EmitSub(e, s)  N == Len(e.info)  M == Len(f.info)
<1>1. OnlyAdds(e, given.from) BY DEF SubsGood
<1>2. PICK at : Laid(e.text, subs, at, i - 1, e.strs, e.info) BY DEF SubsGood
<1>3. IsOut(e) /\ IsSeq(e.strs) /\ IsSeq(e.info) BY <1>1 DEF OnlyAdds, BeginsWith
<1>4. \A k \in 1..i : IsSeq(subs[k].params) /\ IsSeq(subs[k].vars)
  <2>1. Len(subs) \in Nat BY SeqHas DEF AreSubs
  <2>2. \A k \in 1..i : k \in 1..Len(subs) BY <2>1
  <2> QED BY <2>2 DEF AreSubs
<1>5. i \in 1..i OBVIOUS
<1>6. /\ OnlyAdds(f, e) /\ M = N + SizeOfSub(s)
      /\ SubWritten(e.text, f.strs, f.info, N + 1, s)
  <2>1. IsSeq(s.params) /\ IsSeq(s.vars) BY <1>4, <1>5
  <2> HIDE DEF s
  <2> QED BY <1>3, <2>1, EmitSubWrites
<1>7. N \in Nat BY <1>3, SeqHas
<1>8. SizeOfSub(s) \in Nat
  <2>1. IsSeq(s.params) /\ IsSeq(s.vars) BY <1>4, <1>5
  <2> HIDE DEF s
  <2> QED BY <2>1, SizeIsNat
<1> HIDE DEF f, M
<1>9. f.text = e.text /\ BeginsWith(f.strs, e.strs) /\ BeginsWith(f.info, e.info) BY <1>6 DEF OnlyAdds
<1>10. OnlyAdds(f, given.from) BY <1>1, <1>6, OnlyAddsTwice
<1> DEFINE at2 == [k \in 1..(i + 1) |-> IF k = i + 1 THEN M + 1 ELSE at[k]]
<1>11. /\ at[1] = 3 /\ at[i] = N + 1
       /\ \A k \in 1..(i - 1) : /\ at[k] \in Nat \ {0} /\ at[k + 1] = at[k] + SizeOfSub(subs[k])
                                /\ at[k + 1] <= N + 1
                                /\ SubWritten(e.text, e.strs, e.info, at[k], subs[k])
  <2>1. (i - 1) + 1 = i OBVIOUS
  <2> QED BY <1>2, <2>1 DEF Laid
<1>12. (\A k \in 1..i : at2[k] = at[k]) /\ at2[i + 1] = M + 1
  <2>1. \A k \in 1..i : k \in 1..(i + 1) /\ k # i + 1 OBVIOUS
  <2>2. i + 1 \in 1..(i + 1) OBVIOUS
  <2> QED BY <2>1, <2>2
<1>13. at2 = [k \in 1..(i + 1) |-> at2[k]] OBVIOUS
<1> HIDE DEF at2, N
<1>14. 1 \in 1..i OBVIOUS
<1>15. ASSUME NEW k \in 1..(i - 1)
       PROVE  /\ at2[k] \in Nat \ {0} /\ at2[k + 1] = at2[k] + SizeOfSub(subs[k])
              /\ at2[k + 1] <= M + 1
              /\ SubWritten(f.text, f.strs, f.info, at2[k], subs[k])
  <2>1. k \in 1..i /\ k + 1 \in 1..i OBVIOUS
  <2>2. at2[k] = at[k] /\ at2[k + 1] = at[k + 1] BY <1>12, <2>1
  <2>3. /\ at[k] \in Nat \ {0} /\ at[k + 1] = at[k] + SizeOfSub(subs[k]) /\ at[k + 1] <= N + 1
        /\ SubWritten(e.text, e.strs, e.info, at[k], subs[k])
    BY <1>11
  <2>4. IsSeq(subs[k].params) /\ IsSeq(subs[k].vars) BY <1>4, <2>1
  <2> DEFINE a == at[k]  b == at[k + 1]  sk == subs[k]
  <2>5. SizeOfSub(sk) \in Nat
    <3>1. IsSeq(sk.params) /\ IsSeq(sk.vars) BY <2>4
    <3> HIDE DEF sk
    <3> QED BY <3>1, SizeIsNat
  <2>6. a \in Nat \ {0} /\ b = a + SizeOfSub(sk) /\ b <= N + 1 /\ SubWritten(e.text, e.strs, e.info, a, sk)
    BY <2>3
  <2>7. IsSeq(sk.params) /\ IsSeq(sk.vars) BY <2>4
  <2> HIDE DEF a, b, sk
  <2>8. SubWritten(e.text, f.strs, f.info, a, sk)
    <3>1. a + SizeOfSub(sk) <= Len(e.info) + 1 BY <2>6 DEF N
    <3> QED BY <1>9, <2>6, <2>7, <3>1, SubStays
  <2>9. b <= M + 1
    <3> DEFINE z == SizeOfSub(s)
    <3>1. z \in Nat /\ M = N + z BY <1>6, <1>8 DEF M, N
    <3>2. b \in Int BY <2>5, <2>6
    <3> HIDE DEF z
    <3> QED BY <1>7, <2>6, <3>1, <3>2
  <2> QED BY <1>9, <2>2, <2>6, <2>8, <2>9 DEF a, b, sk
<1>16. /\ at2[i] \in Nat \ {0} /\ at2[i + 1] = at2[i] + SizeOfSub(subs[i]) /\ at2[i + 1] <= M + 1
       /\ SubWritten(f.text, f.strs, f.info, at2[i], subs[i])
  <2>1. at2[i] = N + 1 /\ at2[i + 1] = M + 1 BY <1>5, <1>11, <1>12
  <2> DEFINE z == SizeOfSub(s)
  <2>2. z \in Nat /\ M = N + z /\ SubWritten(f.text, f.strs, f.info, N + 1, s)
    BY <1>6, <1>8, <1>9 DEF M, N
  <2> HIDE DEF z
  <2>3. N + 1 \in Nat \ {0} /\ M + 1 = (N + 1) + z /\ M + 1 <= M + 1 BY <1>7, <2>2
  <2> QED BY <2>1, <2>2, <2>3 DEF z
<1>17. ASSUME NEW k \in 1..i
       PROVE  /\ at2[k] \in Nat \ {0} /\ at2[k + 1] = at2[k] + SizeOfSub(subs[k])
              /\ at2[k + 1] <= M + 1
              /\ SubWritten(f.text, f.strs, f.info, at2[k], subs[k])
  <2>1. k = i \/ k \in 1..(i - 1) OBVIOUS
  <2> QED BY <1>15, <1>16, <2>1
<1>18. at2[1] = 3 BY <1>11, <1>12, <1>14
<1>19. Laid(f.text, subs, at2, i, f.strs, f.info) BY <1>12, <1>13, <1>17, <1>18 DEF Laid, M
<1>20. SubsGood(given, i, f) BY <1>10, <1>19 DEF SubsGood
<1> QED BY <1>20 DEF f

LEMMA EmitSubsWrites ==
  ASSUME NEW e, NEW subs, IsOut(e), IsSeq(e.strs), AreSubs(subs)
  PROVE  LET f == EmitSubs(e, subs)
         IN  /\ IsOut(f) /\ f.text = e.text /\ f.files = e.files /\ f.line = e.line
             /\ BeginsWith(f.strs, e.strs) /\ IsSeq(f.info)
             /\ 2 <= Len(f.info) /\ f.info[1] = Len(subs) /\ f.info[2] = Len(e.files)
             /\ \E at : Laid(e.text, subs, at, Len(subs), f.strs, f.info)
<1> DEFINE head == <<Len(subs), Len(e.files)>>  e1 == [e EXCEPT !.info = head]
           given == [from |-> e1, subs |-> subs]  f == EmitSubs(e, subs)
<1>1. f = Subbing!Folded(e1, subs) BY DEF EmitSubs, Through, Subbing!Folded
<1>2. Len(subs) \in Nat BY SeqHas DEF AreSubs
<1>3. IsSeq(head) /\ Len(head) = 2 /\ head[1] = Len(subs) /\ head[2] = Len(e.files) BY TupleIs
<1> HIDE DEF head
<1>4. /\ IsOut(e1) /\ e1.text = e.text /\ e1.files = e.files /\ e1.line = e.line
      /\ e1.strs = e.strs /\ e1.info = head
  BY DEF IsOut
<1> HIDE DEF e1, f
<1>5. OnlyAdds(e1, e1) BY <1>3, <1>4, BeginsWithSelf DEF OnlyAdds
<1>6. SubsGood(given, 0, e1)
  <2> DEFINE at == [k \in 1..(0 + 1) |-> 3]
  <2>1. 1 \in 1..(0 + 1) OBVIOUS
  <2>2. at[1] = 3 /\ at = [k \in 1..(0 + 1) |-> at[k]] BY <2>1
  <2>3. Len(e1.info) + 1 = 3
    <3>1. Len(e1.info) = 2 BY <1>3, <1>4
    <3> QED BY <3>1
  <2> HIDE DEF at
  <2>4. Laid(e1.text, subs, at, 0, e1.strs, e1.info) BY <2>2, <2>3 DEF Laid
  <2> QED BY <1>5, <2>4 DEF SubsGood
<1>7. \A i \in 1..Len(subs) : \A x : SubsGood(given, i - 1, x) => SubsGood(given, i, EmitSub(x, subs[i]))
  <2> SUFFICES ASSUME NEW i \in 1..Len(subs), NEW x, SubsGood(given, i - 1, x)
               PROVE  SubsGood(given, i, EmitSub(x, subs[i]))
    OBVIOUS
  <2>1. i \in Nat \ {0} /\ given.subs = subs /\ i <= Len(subs) BY <1>2
  <2> HIDE DEF given
  <2>2. SubsGood(given, i, EmitSub(x, given.subs[i])) BY <2>1, EmitSubStep
  <2> QED BY <2>1, <2>2
<1>8. given.from = e1 /\ given.subs = subs OBVIOUS
<1> HIDE DEF given
<1>9. SubsGood(given, Len(subs), f) BY <1>1, <1>2, <1>6, <1>7, Subbing!Folds
<1>10. OnlyAdds(f, e1) BY <1>8, <1>9 DEF SubsGood
<1>11. \E at : Laid(f.text, subs, at, Len(subs), f.strs, f.info) BY <1>8, <1>9 DEF SubsGood
<1>12. /\ IsOut(f) /\ f.text = e.text /\ f.files = e.files /\ f.line = e.line
       /\ BeginsWith(f.strs, e.strs) /\ BeginsWith(f.info, head)
  BY <1>4, <1>10 DEF OnlyAdds
<1>13. IsSeq(f.info) /\ 2 <= Len(f.info) /\ f.info[1] = Len(subs) /\ f.info[2] = Len(e.files)
  <2>1. 1 \in 1..2 /\ 2 \in 1..2 OBVIOUS
  <2> QED BY <1>3, <1>12, <2>1 DEF BeginsWith
<1> QED BY <1>11, <1>12, <1>13 DEF f

(* What is written of the files: their numbers.                            *)
LEMMA EmitFilesWrites ==
  ASSUME NEW e, IsOut(e), IsSeq(e.files), IsSeq(e.info)
  PROVE  LET f == EmitFiles(e)
         IN  /\ f.text = e.text /\ f.files = e.files /\ f.line = e.line /\ f.strs = e.strs
             /\ BeginsWith(f.info, e.info)
             /\ \A i \in 1..Len(e.files) : f.info[Len(e.info) + i] = i - 1
<1> DEFINE numbers == [i \in DOMAIN e.files |-> i - 1]  info == e.info \o numbers  f == EmitFiles(e)
           N == Len(e.files)
<1>1. f = [e EXCEPT !.info = info] BY DEF EmitFiles
<1>2. DOMAIN e.files = 1..N /\ N \in Nat BY SeqHas
<1>3. \A i \in 1..N : numbers[i] = i - 1 BY <1>2
<1>4. numbers = [i \in 1..N |-> numbers[i]] BY <1>2
<1> HIDE DEF numbers, f, N
<1>5. IsSeq(numbers) /\ Len(numbers) = N BY <1>2, <1>4, SeqBuilt
<1>6. BeginsWith(info, e.info) BY <1>5, ConcatBegins
<1>7. ASSUME NEW i \in 1..N PROVE info[Len(e.info) + i] = i - 1
  <2>1. i \in 1..Len(numbers) BY <1>5
  <2>2. info[Len(e.info) + i] = numbers[i]
    <3> DEFINE s0 == e.info
    <3>1. IsSeq(s0) OBVIOUS
    <3> HIDE DEF s0
    <3>2. (s0 \o numbers)[Len(s0) + i] = numbers[i] BY <1>5, <2>1, <3>1, ConcatAt
    <3> QED BY <3>2 DEF s0
  <2> QED BY <1>3, <2>2
<1> HIDE DEF info
<1>8. f.text = e.text /\ f.files = e.files /\ f.line = e.line /\ f.strs = e.strs /\ f.info = info
  BY <1>1 DEF IsOut
<1> QED BY <1>6, <1>7, <1>8 DEF f, N

-----------------------------------------------------------------------------
(* The sections as a whole.                                                *)

SectionsHold(cg, sections, at, files, strs) ==
  /\ IsSeq(strs) /\ sections.str = <<Len(strs)>> \o strs /\ BeginsWith(strs, files)
  /\ sections.line[1] = Len(cg.lines)
  /\ \A j \in 1..Len(cg.lines) : LineWritten(cg, files, sections.line, j)
  /\ sections.info[1] = Len(cg.subs) /\ sections.info[2] = Len(files)
  /\ at = [k \in 1..(Len(cg.subs) + 1) |-> at[k]] /\ at[1] = 3
  /\ \A k \in 1..Len(cg.subs) : /\ at[k] \in Nat \ {0} /\ at[k + 1] = at[k] + SizeOfSub(cg.subs[k])
                                /\ SubWritten(cg.text, strs, sections.info, at[k], cg.subs[k])
  /\ at[Len(cg.subs) + 1] \in Nat
  /\ \A i \in 1..Len(files) : sections.info[(at[Len(cg.subs) + 1] - 1) + i] = i - 1

LEMMA DebugEmitWrites ==
  ASSUME NEW cg, IsSeq(cg.lines), AreSubs(cg.subs)
  PROVE  \E at, files, strs : SectionsHold(cg, DebugEmit(cg), at, files, strs)
<1> DEFINE e1 == EmitLines(cg)  e2 == EmitSubs(e1, cg.subs)  e3 == EmitFiles(e2)  n == Len(cg.subs)
           sections == DebugEmit(cg)
<1>1. sections = [info |-> e3.info, line |-> e3.line, str |-> <<Len(e3.strs)>> \o e3.strs]
  BY DEF DebugEmit
<1>2. LinesGood(cg, Len(cg.lines), e1) BY EmitLinesWrites
<1> HIDE DEF e1
<1>3. /\ IsOut(e1) /\ e1.text = cg.text /\ IsSeq(e1.files) /\ e1.strs = e1.files
      /\ e1.line[1] = Len(cg.lines)
      /\ \A j \in 1..Len(cg.lines) : LineWritten(cg, e1.files, e1.line, j)
  BY <1>2 DEF LinesGood
<1> DEFINE subs == cg.subs
<1>4. /\ IsOut(e2) /\ e2.text = e1.text /\ e2.files = e1.files /\ e2.line = e1.line
      /\ BeginsWith(e2.strs, e1.strs) /\ IsSeq(e2.info)
      /\ 2 <= Len(e2.info) /\ e2.info[1] = n /\ e2.info[2] = Len(e1.files)
      /\ \E at : Laid(e1.text, subs, at, n, e2.strs, e2.info)
  <2>1. AreSubs(subs) /\ n = Len(subs) /\ e2 = EmitSubs(e1, subs) /\ IsSeq(e1.strs) BY <1>3
  <2> HIDE DEF subs, e2, n
  <2> QED BY <1>3, <2>1, EmitSubsWrites
<1> HIDE DEF e2
<1>5. /\ e3.line = e1.line /\ e3.strs = e2.strs /\ BeginsWith(e3.info, e2.info)
      /\ \A i \in 1..Len(e1.files) : e3.info[Len(e2.info) + i] = i - 1
  <2>1. IsSeq(e2.files) /\ Len(e2.files) = Len(e1.files) BY <1>3, <1>4
  <2> QED BY <1>4, <2>1, EmitFilesWrites
<1> HIDE DEF e3
<1> DEFINE files == e1.files  strs == e2.strs  info == e3.info  L == Len(e2.info)
<1>6. PICK at : Laid(cg.text, subs, at, n, strs, e2.info) BY <1>3, <1>4
<1>7. /\ n \in Nat /\ L \in Nat /\ \A k \in 1..n : IsSeq(subs[k].params) /\ IsSeq(subs[k].vars)
  BY <1>4, SeqHas DEF AreSubs
<1>8. /\ at = [k \in 1..(n + 1) |-> at[k]] /\ at[1] = 3 /\ at[n + 1] = L + 1
      /\ \A k \in 1..n : /\ at[k] \in Nat \ {0} /\ at[k + 1] = at[k] + SizeOfSub(subs[k])
                         /\ at[k + 1] <= L + 1
                         /\ SubWritten(cg.text, strs, e2.info, at[k], subs[k])
  BY <1>6 DEF Laid
<1>9. IsSeq(strs) BY <1>4 DEF BeginsWith
<1>10. ASSUME NEW k \in 1..n PROVE SubWritten(cg.text, strs, info, at[k], subs[k])
  <2> DEFINE a == at[k]  s == subs[k]
  <2>1. a \in Nat \ {0} /\ a + SizeOfSub(s) <= L + 1 /\ SubWritten(cg.text, strs, e2.info, a, s)
    BY <1>8
  <2>2. IsSeq(s.params) /\ IsSeq(s.vars) BY <1>7
  <2>3. BeginsWith(info, e2.info) /\ BeginsWith(strs, strs) BY <1>5, <1>9, BeginsWithSelf
  <2> HIDE DEF a, s, info, strs
  <2>4. SubWritten(cg.text, strs, info, a, s) BY <2>1, <2>2, <2>3, SubStays DEF L
  <2> QED BY <2>4 DEF a, s
<1>11. e2.info[1] = n /\ info[1] = n /\ info[2] = Len(files)
  <2>1. 1 \in 1..L /\ 2 \in 1..L BY <1>4, <1>7
  <2>2. info[1] = e2.info[1] /\ info[2] = e2.info[2] BY <1>5, <2>1 DEF BeginsWith
  <2> QED BY <1>4, <2>2
<1>12. \A i \in 1..Len(files) : info[(at[n + 1] - 1) + i] = i - 1
  <2>1. (at[n + 1] - 1) = L /\ at[n + 1] \in Nat BY <1>7, <1>8
  <2> QED BY <1>5, <2>1
<1>13. at[n + 1] \in Nat BY <1>7, <1>8
<1>14. /\ sections.info = info /\ sections.line = e1.line /\ sections.str = <<Len(strs)>> \o strs
  BY <1>1, <1>5
<1>15. BeginsWith(strs, files) BY <1>3, <1>4
<1> HIDE DEF files, strs, info, sections
<1>16. SectionsHold(cg, sections, at, files, strs)
  BY <1>3, <1>8, <1>9, <1>10, <1>11, <1>12, <1>13, <1>14, <1>15 DEF SectionsHold, files
<1> QED BY <1>16 DEF sections

-----------------------------------------------------------------------------
(* What is read.                                                           *)

LineRead(tables, text, found, l) ==
  /\ found.address = AddressOf(text, l.label) /\ found.line = l.line
  /\ FileById(tables, found.file_id) = l.file
ValuesAreRead(tables, found, values) ==
  /\ Len(found) = Len(values)
  /\ \A j \in 1..Len(values) : /\ found[j].offset = values[j].offset
                               /\ StrById(tables, found[j].debug_str_id) = values[j].name
SubIsRead(tables, text, found, s) ==
  /\ found.address_start = AddressOf(text, s.start) /\ found.address_end = AddressOf(text, s.end)
  /\ StrById(tables, found.debug_str_id) = s.name
  /\ ValuesAreRead(tables, found.params, s.params) /\ ValuesAreRead(tables, found.vars, s.vars)

(* The debugger's tables are those of the compiler, with labels as         *)
(* addresses and names as strings.                                         *)
InfoRead(cg, tables) ==
  /\ Len(tables.lines) = Len(cg.lines)
  /\ \A i \in 1..Len(cg.lines) : LineRead(tables, cg.text, tables.lines[i], cg.lines[i])
  /\ Len(tables.subroutines) = Len(cg.subs)
  /\ \A i \in 1..Len(cg.subs) : SubIsRead(tables, cg.text, tables.subroutines[i], cg.subs[i])

LEMMA StrIs ==
  ASSUME NEW tables, NEW id, NEW name, Names(tables.strs, id, name)
  PROVE  StrById(tables, id) = name
BY DEF StrById, Names

LEMMA ValuesRead ==
  ASSUME NEW tables, NEW info, NEW cur \in Nat, NEW values, NEW n, IsSeq(values), n = Len(values),
         \A j \in 1..n : ValueWritten(tables.strs, info, cur, j, values[j])
  PROVE  ValuesAreRead(tables, ReadValues(info, cur, n), values)
<1> DEFINE found == ReadValues(info, cur, n)
<1>1. n \in Nat BY SeqHas
<1>2. /\ found = [j \in 1..n |-> found[j]]
      /\ \A j \in 1..n : found[j] = [offset |-> info[cur + 2 * (j - 1)],
                                     debug_str_id |-> info[cur + 2 * (j - 1) + 1]]
  BY DEF ReadValues
<1> HIDE DEF found
<1>3. Len(found) = n BY <1>1, <1>2, SeqBuilt
<1>4. ASSUME NEW j \in 1..n
      PROVE  found[j].offset = values[j].offset /\ StrById(tables, found[j].debug_str_id) = values[j].name
  <2> DEFINE a == info[cur + 2 * (j - 1)]  b == info[cur + 2 * (j - 1) + 1]
  <2>1. a = values[j].offset /\ Names(tables.strs, b, values[j].name) BY DEF ValueWritten
  <2>2. found[j] = [offset |-> a, debug_str_id |-> b] BY <1>2
  <2> HIDE DEF a, b
  <2>3. found[j].offset = a /\ found[j].debug_str_id = b BY <2>2
  <2> QED BY <2>1, <2>3, StrIs
<1>5. ValuesAreRead(tables, found, values) BY <1>3, <1>4 DEF ValuesAreRead
<1> QED BY <1>5 DEF found

LEMMA SubRead ==
  ASSUME NEW tables, NEW text, NEW info, NEW at \in Nat, NEW s, IsSeq(s.params), IsSeq(s.vars),
         SubWritten(text, tables.strs, info, at, s)
  PROVE  SubIsRead(tables, text, ReadSub(info, at), s) /\ BehindSub(info, at) = at + SizeOfSub(s)
<1> DEFINE P == Len(s.params)  V == Len(s.vars)  found == ReadSub(info, at)
           start == AddressOf(text, s.start)  end == AddressOf(text, s.end)
<1>1. /\ info[at] = start /\ info[at + 1] = end /\ Names(tables.strs, info[at + 2], s.name)
      /\ info[at + 3] = P /\ info[at + 4] = V
      /\ \A j \in 1..P : ValueWritten(tables.strs, info, at + 5, j, s.params[j])
      /\ \A j \in 1..V : ValueWritten(tables.strs, info, at + 5 + 2 * P, j, s.vars[j])
  BY DEF SubWritten
<1>2. P \in Nat /\ V \in Nat BY SeqHas
<1>3. /\ found.address_start = start /\ found.address_end = end
      /\ found.debug_str_id = info[at + 2]
      /\ found.params = ReadValues(info, at + 5, P)
      /\ found.vars = ReadValues(info, at + 5 + 2 * P, V)
  <2>1. found = [address_start |-> start, address_end |-> end, debug_str_id |-> info[at + 2],
                 params |-> ReadValues(info, at + 5, P), vars |-> ReadValues(info, at + 5 + 2 * P, V)]
    BY <1>1 DEF ReadSub
  <2> HIDE DEF found, start, end, P, V
  <2> QED BY <2>1
<1>4. ValuesAreRead(tables, found.params, s.params)
  <2> DEFINE cur == at + 5  values == s.params
  <2>1. cur \in Nat /\ IsSeq(values) /\ P = Len(values)
        /\ \A j \in 1..P : ValueWritten(tables.strs, info, cur, j, values[j])
    BY <1>1
  <2> HIDE DEF cur, values, P, found
  <2>2. ValuesAreRead(tables, ReadValues(info, cur, P), values) BY <2>1, ValuesRead
  <2> QED BY <1>3, <2>2 DEF cur, values
<1>5. ValuesAreRead(tables, found.vars, s.vars)
  <2> DEFINE cur == at + 5 + 2 * P  values == s.vars
  <2>1. IsSeq(values) /\ V = Len(values)
        /\ \A j \in 1..V : ValueWritten(tables.strs, info, cur, j, values[j])
    BY <1>1
  <2>2. cur \in Nat
    <3> HIDE DEF P
    <3> QED BY <1>2
  <2> HIDE DEF cur, values, V, found
  <2>3. ValuesAreRead(tables, ReadValues(info, cur, V), values) BY <2>1, <2>2, ValuesRead
  <2> QED BY <1>3, <2>3 DEF cur, values
<1>6. StrById(tables, info[at + 2]) = s.name BY <1>1, StrIs
<1>7. SubIsRead(tables, text, found, s)
  <2> HIDE DEF found
  <2> QED BY <1>3, <1>4, <1>5, <1>6 DEF SubIsRead
<1>8. BehindSub(info, at) = at + SizeOfSub(s)
  <2>1. BehindSub(info, at) = at + 5 + 2 * (P + V) /\ SizeOfSub(s) = 5 + 2 * (P + V)
    BY <1>1 DEF BehindSub, SizeOfSub
  <2> HIDE DEF P, V
  <2> QED BY <1>2, <2>1
<1> QED BY <1>7, <1>8 DEF found

(* The cursor comes to the places where the subroutines were written.      *)
NextCursor(info, n, g) == [i \in 1..(n + 1) |-> IF i = 1 THEN 3 ELSE BehindSub(info, g[i - 1])]
Cursor(info, n) == CHOOSE g : g = NextCursor(info, n, g)

FollowsEachOther(info, n, at) ==
  /\ at = [k \in 1..(n + 1) |-> at[k]] /\ at[1] = 3
  /\ \A k \in 1..n : at[k + 1] = BehindSub(info, at[k])

LEMMA CursorIs ==
  ASSUME NEW info, NEW n \in Nat, NEW at, FollowsEachOther(info, n, at)
  PROVE  Cursor(info, n) = at
<1>0. /\ at = [k \in 1..(n + 1) |-> at[k]] /\ at[1] = 3
      /\ \A k \in 1..n : at[k + 1] = BehindSub(info, at[k])
  BY DEF FollowsEachOther
<1> DEFINE cur == Cursor(info, n)
<1>1. at = NextCursor(info, n, at)
  <2> DEFINE other == NextCursor(info, n, at)
  <2>1. other = [k \in 1..(n + 1) |-> other[k]] BY DEF NextCursor
  <2>2. ASSUME NEW k \in 1..(n + 1) PROVE at[k] = other[k]
    <3>1. other[k] = IF k = 1 THEN 3 ELSE BehindSub(info, at[k - 1]) BY DEF NextCursor
    <3>2. CASE k = 1 BY <1>0, <3>1, <3>2
    <3>3. CASE k # 1
      <4>1. k - 1 \in 1..n /\ (k - 1) + 1 = k BY <3>3
      <4>2. at[(k - 1) + 1] = BehindSub(info, at[k - 1]) BY <1>0, <4>1
      <4> QED BY <3>1, <3>3, <4>1, <4>2
    <3> QED BY <3>2, <3>3
  <2> HIDE DEF other
  <2>3. at = other BY <1>0, <2>1, <2>2
  <2> QED BY <2>3 DEF other
<1>2. cur = NextCursor(info, n, cur) BY <1>1 DEF Cursor
<1> HIDE DEF cur
<1>3. cur = [k \in 1..(n + 1) |-> cur[k]] BY <1>2 DEF NextCursor
<1>4. ASSUME NEW k \in 1..(n + 1) PROVE cur[k] = IF k = 1 THEN 3 ELSE BehindSub(info, cur[k - 1])
  BY <1>2 DEF NextCursor
<1> DEFINE Not == {k \in Nat : k \in 1..(n + 1) /\ cur[k] # at[k]}
<1>5. Not = {}
  <2> SUFFICES ASSUME Not # {} PROVE FALSE OBVIOUS
  <2>1. PICK m \in Not : \A k \in Not : m <= k BY Subbing!LeastOf
  <2>2. m \in 1..(n + 1) /\ cur[m] # at[m] BY <2>1
  <2>3. CASE m = 1 BY <1>0, <1>4, <2>2, <2>3
  <2>4. CASE m # 1
    <3>1. m - 1 \in 1..n /\ m - 1 \in 1..(n + 1) /\ (m - 1) + 1 = m /\ m - 1 \in Nat /\ ~(m <= m - 1)
      BY <2>2, <2>4
    <3>2. cur[m - 1] = at[m - 1] BY <2>1, <3>1
    <3>3. at[m] = BehindSub(info, at[m - 1]) BY <1>0, <3>1
    <3>4. cur[m] = BehindSub(info, cur[m - 1]) BY <1>4, <2>2, <2>4
    <3> QED BY <2>2, <3>2, <3>3, <3>4
  <2> QED BY <2>3, <2>4
<1>6. \A k \in 1..(n + 1) : cur[k] = at[k]
  <2>1. \A k \in 1..(n + 1) : k \in Nat OBVIOUS
  <2> QED BY <1>5, <2>1
<1>7. cur = at BY <1>0, <1>3, <1>6
<1> QED BY <1>7 DEF cur

LEMMA ReadsWritten ==
  ASSUME NEW cg, NEW sections, NEW at, NEW files, NEW strs,
         IsSeq(cg.lines), AreSubs(cg.subs), SectionsHold(cg, sections, at, files, strs)
  PROVE  InfoRead(cg, CtxDbgInit(sections))
<1> DEFINE info == sections.info  line == sections.line  n == Len(cg.subs)  m == Len(cg.lines)
           text == cg.text  subs == cg.subs  lines == cg.lines
           cur == Cursor(info, n)  tables == CtxDbgInit(sections)
           SubsRead(c) == [i \in 1..n |-> ReadSub(info, c[i])]
           FilesRead(c) == [i \in 1..Len(files) |-> info[c[n + 1] + i - 1]]
           linesRead == [i \in 1..m |-> [address |-> line[3 * i - 1], file_id |-> line[3 * i],
                                         line |-> line[3 * i + 1]]]
<1>1. /\ IsSeq(strs) /\ sections.str = <<Len(strs)>> \o strs /\ BeginsWith(strs, files)
      /\ line[1] = m /\ \A j \in 1..m : LineWritten(cg, files, line, j)
      /\ info[1] = n /\ info[2] = Len(files)
      /\ at = [k \in 1..(n + 1) |-> at[k]] /\ at[1] = 3
      /\ \A k \in 1..n : /\ at[k] \in Nat \ {0} /\ at[k + 1] = at[k] + SizeOfSub(subs[k])
                         /\ SubWritten(text, strs, info, at[k], subs[k])
      /\ at[n + 1] \in Nat
      /\ \A i \in 1..Len(files) : info[(at[n + 1] - 1) + i] = i - 1
  BY DEF SectionsHold
<1>2. n \in Nat /\ m \in Nat /\ Len(files) \in Nat BY <1>1, SeqHas DEF AreSubs, BeginsWith
<1>3. tables = [subroutines |-> SubsRead(cur), files |-> FilesRead(cur), lines |-> linesRead,
             strs |-> Tail(sections.str)]
  BY <1>1 DEF CtxDbgInit, Cursor, NextCursor
<1> HIDE DEF linesRead
<1>4. tables.strs = strs
  <2> DEFINE head == <<Len(strs)>>  all == head \o strs
  <2>1. head \in Seq({Len(strs)} \cup ToSet(strs)) /\ strs \in Seq({Len(strs)} \cup ToSet(strs))
    <3>1. strs \in Seq(ToSet(strs)) BY <1>1 DEF IsSeq
    <3> QED BY <3>1
  <2>2. Tail(all) = strs BY <2>1
  <2> HIDE DEF all, head, cur, SubsRead, FilesRead
  <2>3. Tail(sections.str) = strs BY <1>1, <2>2 DEF all, head
  <2> QED BY <1>3, <2>3
<1>5. ASSUME NEW k \in 1..n
      PROVE  SubIsRead(tables, text, ReadSub(info, at[k]), subs[k]) /\ BehindSub(info, at[k]) = at[k + 1]
  <2> DEFINE a == at[k]  s == subs[k]
  <2>1. a \in Nat /\ at[k + 1] = a + SizeOfSub(s) /\ SubWritten(text, strs, info, a, s) BY <1>1
  <2>2. IsSeq(s.params) /\ IsSeq(s.vars) BY DEF AreSubs
  <2> HIDE DEF a, s, tables, text, info
  <2>3. SubIsRead(tables, text, ReadSub(info, a), s) /\ BehindSub(info, a) = a + SizeOfSub(s)
    BY <1>4, <2>1, <2>2, SubRead
  <2> QED BY <2>1, <2>3 DEF a, s
<1>6. cur = at
  <2>1. \A k \in 1..n : at[k + 1] = BehindSub(info, at[k]) BY <1>5
  <2>2. FollowsEachOther(info, n, at) BY <1>1, <2>1 DEF FollowsEachOther
  <2> HIDE DEF info, n
  <2> QED BY <1>2, <2>2, CursorIs
<1> HIDE DEF cur
<1>7. tables.subroutines = SubsRead(at) /\ tables.files = FilesRead(at) /\ tables.lines = linesRead
  <2> HIDE DEF SubsRead, FilesRead
  <2> QED BY <1>3, <1>6
<1> HIDE DEF tables
<1>8. Len(tables.subroutines) = n
      /\ \A i \in 1..n : SubIsRead(tables, text, tables.subroutines[i], subs[i])
  <2> DEFINE found == SubsRead(at)
  <2>1. found = [i \in 1..n |-> found[i]] /\ \A i \in 1..n : found[i] = ReadSub(info, at[i]) OBVIOUS
  <2> HIDE DEF found
  <2>2. Len(found) = n BY <1>2, <2>1, SeqBuilt
  <2> QED BY <1>5, <1>7, <2>1, <2>2 DEF found
<1>9. ASSUME NEW id, Names(files, id, strs[id + 1])
      PROVE  FileById(tables, id) = strs[id + 1]
  <2> DEFINE F == Len(files)
  <2>1. id \in Nat /\ id < F BY <1>9 DEF Names
  <2> HIDE DEF F
  <2>2. F \in Nat BY <1>2 DEF F
  <2>3. id + 1 \in 1..F BY <2>1, <2>2
  <2>4. tables.files[id + 1] = info[at[n + 1] + (id + 1) - 1]
    <3> DEFINE word(i) == info[at[n + 1] + i - 1]
    <3>1. tables.files = [i \in 1..F |-> word(i)] BY <1>7 DEF F
    <3> HIDE DEF word
    <3>2. tables.files[id + 1] = word(id + 1) BY <2>3, <3>1
    <3> QED BY <3>2 DEF word
  <2>5. at[n + 1] + (id + 1) - 1 = (at[n + 1] - 1) + (id + 1)
    <3> DEFINE last == at[n + 1]
    <3>1. last \in Nat BY <1>1
    <3> HIDE DEF last
    <3>2. last + (id + 1) - 1 = (last - 1) + (id + 1) BY <2>1, <3>1
    <3> QED BY <3>2 DEF last
  <2>6. info[(at[n + 1] - 1) + (id + 1)] = (id + 1) - 1 BY <1>1, <2>3 DEF F
  <2>7. tables.files[id + 1] = (id + 1) - 1
    <3> DEFINE x == at[n + 1] + (id + 1) - 1  y == (at[n + 1] - 1) + (id + 1)
    <3>1. tables.files[id + 1] = info[x] /\ info[y] = (id + 1) - 1 /\ x = y BY <2>4, <2>5, <2>6
    <3> HIDE DEF x, y, info
    <3> QED BY <3>1
  <2>8. (id + 1) - 1 = id BY <2>1
  <2> QED BY <1>4, <2>7, <2>8 DEF FileById, StrById
<1>10. ASSUME NEW i \in 1..m PROVE LineRead(tables, text, tables.lines[i], lines[i])
  <2> DEFINE l == lines[i]  a == line[3 * i - 1]  b == line[3 * i]  c == line[3 * i + 1]
  <2>1. a = AddressOf(text, l.label) /\ Names(files, b, l.file) /\ c = l.line
    BY <1>1 DEF LineWritten
  <2>2. tables.lines[i] = [address |-> a, file_id |-> b, line |-> c] BY <1>7 DEF linesRead
  <2> HIDE DEF l, a, b, c
  <2>3. tables.lines[i].address = a /\ tables.lines[i].file_id = b /\ tables.lines[i].line = c BY <2>2
  <2>4. Names(strs, b, l.file) BY <1>1, <2>1, NamesStay
  <2>5. strs[b + 1] = l.file BY <2>4 DEF Names
  <2>6. FileById(tables, b) = l.file BY <1>9, <2>1, <2>5
  <2>7. LineRead(tables, text, tables.lines[i], l) BY <2>1, <2>3, <2>6 DEF LineRead
  <2> QED BY <2>7 DEF l
<1>11. Len(tables.lines) = m
  <2>1. linesRead = [i \in 1..m |-> linesRead[i]] BY DEF linesRead
  <2>2. Len(linesRead) = m BY <1>2, <2>1, SeqBuilt
  <2> QED BY <1>7, <2>2
<1>12. InfoRead(cg, tables) BY <1>8, <1>10, <1>11 DEF InfoRead
<1> QED BY <1>12 DEF tables

(* The debugger reads what the compiler wrote: each line has the address,  *)
(* the number and the file that were noted, though a file is written with  *)
(* its index among the files and read as one among the strings; each       *)
(* subroutine its addresses and its name, each parameter and variable its  *)
(* offset and its name, however many there are: debug_emit.c, ctx_debug.c. *)
THEOREM WhatIsWrittenIsRead ==
  ASSUME NEW cg, IsSeq(cg.lines), AreSubs(cg.subs)
  PROVE  InfoRead(cg, CtxDbgInit(DebugEmit(cg)))
<1>1. PICK at, files, strs : SectionsHold(cg, DebugEmit(cg), at, files, strs) BY DebugEmitWrites
<1> QED BY <1>1, ReadsWritten

(* What the debugger has in its tables, wherever the process is, is what   *)
(* the compiler noted of this program: debug_emit.c, ctx_debug.c,          *)
(* ctx_tg_load.                                                            *)
ExecutableLoaded ==
  /\ program \in DOMAIN Programs /\ code = CgInst(Programs[program])
  /\ dbg = CtxDbgInit(DebugEmit(code))

THEOREM DebuggerReadsNotes == InspectSpec => []InfoRead(code, dbg)
<1>1. ASSUME InspectInit PROVE ExecutableLoaded
  BY <1>1 DEF InspectInit, Init, DebugLoaded, ExecutableLoaded
<1>2. ASSUME ExecutableLoaded, [InspectNext]_inspected PROVE ExecutableLoaded'
  <2>1. UNCHANGED <<program, code, dbg>>
    BY <1>2 DEF InspectNext, inspected, vars, Next, Move, Push, Pop, MoveStack, Jump, Test, CallSub, Ret,
                Make, Unwrap, PrintCalled, CallOp, CallForeign, ExitCall, PassLabel, CmdPrint, CmdWhere,
                CallInside, Returns, Writes, Finished
  <2> QED BY <1>2, <2>1 DEF ExecutableLoaded
<1>3. ASSUME ExecutableLoaded PROVE InfoRead(code, dbg)
  <2>1. IsProgram(Programs[program]) BY <1>3, ProgramsAssumption DEF ExecutableLoaded
  <2>2. Between(Programs[program], code) BY <1>3, <2>1, CgInstIs DEF ExecutableLoaded
  <2>3. IsSeq(code.lines) /\ AreSubs(code.subs) BY <2>2 DEF Between, IsCtx, AreNotes
  <2> QED BY <1>3, <2>3, WhatIsWrittenIsRead DEF ExecutableLoaded
<1> QED BY <1>1, <1>2, <1>3, PTL DEF InspectSpec
================================================================================
