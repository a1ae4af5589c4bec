------------------------------- MODULE Folding -------------------------------
(***************************************************************************)
(* What holds of the left fold of Codegen, Through, with a given operator: *)
(* what is Good of the base and is kept by each step is Good of the        *)
(* result.  The module is instantiated for each operator that is folded,   *)
(* because the provers cannot apply a theorem to an operator.              *)
(***************************************************************************)
EXTENDS Integers, Sequences, NaturalsInduction, WellFoundedInduction, TLAPS

CONSTANTS
  op(_, _),       \* a step: what was reached, and an element
  Good(_, _, _)   \* what is given, how many steps are done, what was reached

Folded(base, seq) ==
  LET result[i \in 0..Len(seq)] ==
        IF i = 0 THEN base ELSE CHOOSE r \in {op(ctx, seq[i]) : ctx \in {result[i - 1]}} : TRUE
  IN  result[Len(seq)]

-----------------------------------------------------------------------------
(* A set of numbers that is not empty has a least element.                 *)
LEMMA LeastOf ==
  ASSUME NEW S \in SUBSET Nat, S # {}
  PROVE  \E m \in S : \A n \in S : m <= n
<1>1. PICK m \in S : \A n \in S : <<n, m>> \notin OpToRel(<, Nat)
  BY NatLessThanWellFounded, WFMin
<1>2. ASSUME NEW n \in S PROVE m <= n
  <2>1. <<n, m>> \in Nat \X Nat /\ <<n, m>>[1] = n /\ <<n, m>>[2] = m OBVIOUS
  <2>2. ~(n < m) BY <1>1, <2>1 DEF OpToRel
  <2> QED BY <2>2
<1> QED BY <1>2

Next(seq, i, x) == CHOOSE r \in {op(ctx, seq[i]) : ctx \in {x}} : TRUE

LEMMA NextIs ==
  ASSUME NEW seq, NEW i, NEW x
  PROVE  Next(seq, i, x) = op(x, seq[i])
<1>1. {op(ctx, seq[i]) : ctx \in {x}} = {op(x, seq[i])} OBVIOUS
<1> QED BY <1>1 DEF Next

(* There is a function that has each result follow from the one before it. *)
LEMMA Recurs ==
  ASSUME NEW base, NEW seq, NEW N \in Nat
  PROVE  \E g : g = [i \in 0..N |-> IF i = 0 THEN base ELSE Next(seq, i, g[i - 1])]
<1> DEFINE F(n, g) == [i \in 0..n |-> IF i = 0 THEN base ELSE Next(seq, i, g[i - 1])]
           Not == {n \in Nat : n <= N /\ ~ \E g : g = F(n, g)}
<1>1. SUFFICES ASSUME Not # {} PROVE FALSE
  <2>1. N \notin Not BY <1>1
  <2> QED BY <2>1
<1>2. PICK m \in Not : \A i \in Not : m <= i BY <1>1, LeastOf
<1>3. m # 0
  <2> DEFINE g == [i \in 0..0 |-> base]
  <2>1. \A i \in 0..0 : i = 0 OBVIOUS
  <2>2. g = F(0, g) BY <2>1
  <2> HIDE DEF F
  <2> QED BY <1>2, <2>2
<1>4. m - 1 \in Nat /\ m - 1 <= N /\ ~(m <= m - 1) BY <1>2, <1>3
<1>5. PICK g : g = F(m - 1, g)
  <2>1. m - 1 \notin Not
    <3> HIDE DEF Not
    <3> QED BY <1>2, <1>4
  <2> HIDE DEF F
  <2> QED BY <1>4, <2>1
<1> DEFINE f == [i \in 0..m |-> IF i = m THEN Next(seq, m, g[m - 1]) ELSE g[i]]
<1>6. f = F(m, f)
  <2>1. ASSUME NEW i \in 0..m PROVE f[i] = IF i = 0 THEN base ELSE Next(seq, i, f[i - 1])
    <3>1. CASE i = m
      <4>1. m - 1 \in 0..m /\ m - 1 # m BY <1>4
      <4>2. f[m - 1] = g[m - 1] BY <4>1
      <4> QED BY <1>3, <3>1, <4>2
    <3>2. CASE i # m
      <4>1. i \in 0..(m - 1) BY <1>4, <3>2
      <4>2. g[i] = IF i = 0 THEN base ELSE Next(seq, i, g[i - 1]) BY <1>5, <4>1
      <4>3. CASE i = 0 BY <3>2, <4>2, <4>3
      <4>4. CASE i # 0
        <5>1. i - 1 \in 0..m /\ i - 1 # m BY <4>1, <4>4
        <5> QED BY <3>2, <4>2, <4>4, <5>1
      <4> QED BY <4>3, <4>4
    <3> QED BY <3>1, <3>2
  <2>2. f = [i \in 0..m |-> f[i]] OBVIOUS
  <2> HIDE DEF f
  <2> QED BY <2>1, <2>2
<1>7. \E h : h = F(m, h)
  <2> HIDE DEF f, F
  <2> QED BY <1>6
<1> HIDE DEF F
<1> QED BY <1>2, <1>7

(* An induction along the sequence, for any operator and any Good.         *)
THEOREM Folds ==
  ASSUME NEW given, NEW base, NEW seq, Len(seq) \in Nat,
         Good(given, 0, base),
         \A i \in 1..Len(seq) : \A ctx :
           Good(given, i - 1, ctx) => Good(given, i, op(ctx, seq[i]))
  PROVE  Good(given, Len(seq), Folded(base, seq))
<1> DEFINE N == Len(seq)
           F(g) == [i \in 0..N |-> IF i = 0 THEN base ELSE Next(seq, i, g[i - 1])]
           result == CHOOSE g : g = F(g)
           Not == {i \in Nat : i <= N /\ ~Good(given, i, result[i])}
<1>1. Folded(base, seq) = result[N] BY DEF Folded, Next
<1>2. result = F(result) BY Recurs
<1> HIDE DEF result
<1>3. result[0] = base BY <1>2
<1>4. ASSUME NEW i \in 1..N PROVE result[i] = op(result[i - 1], seq[i])
  <2>1. i \in 0..N /\ i # 0 OBVIOUS
  <2>2. result[i] = Next(seq, i, result[i - 1]) BY <1>2, <2>1
  <2> QED BY <2>2, NextIs
<1>5. SUFFICES ASSUME Not # {} PROVE FALSE
  <2>1. N \notin Not BY <1>5
  <2> QED BY <1>1, <2>1
<1>6. PICK m \in Not : \A i \in Not : m <= i BY <1>5, LeastOf
<1>7. m \in 1..N /\ m - 1 \in Nat /\ m - 1 <= N /\ ~(m <= m - 1) BY <1>3, <1>6
<1>8. Good(given, m - 1, result[m - 1])
  <2>1. m - 1 \notin Not
    <3> HIDE DEF Not
    <3> QED BY <1>6, <1>7
  <2> QED BY <1>7, <2>1
<1>9. Good(given, m, op(result[m - 1], seq[m])) BY <1>7, <1>8
<1> QED BY <1>4, <1>6, <1>7, <1>9
=============================================================================
