---------------------------- MODULE MergeProofs ----------------------------
(* Merging blocks is right for every subroutine whose blocks without       *)
(* conditions form no loop, of any size: MergeInv is an invariant of       *)
(* MirBuild, and blocks that were freed are not touched again.             *)
EXTENDS MergeInvariant, SequenceTheorems, TLAPS

(* The invariant holds of the blocks as they are lowered.                  *)
LEMMA InvInit == Init => MergeInv
<1> SUFFICES ASSUME Init PROVE MergeInv
  OBVIOUS
<1> USE DEF Init, MergeInit
<1>1. IsGraph(sub)
  BY SubsAssumption
<1>2. MergeTypeOK
  <2>1. bbs \in Seq(B) /\ new_bbs \in Seq(B)
    BY <1>1 DEF IsGraph, B
  <2>2. je \in [B -> B \cup {Null}] /\ next \in [B -> B \cup {Null}]
    BY <1>1 DEF IsGraph, B
  <2>3. code \in [B -> Seq(B)]
    BY DEF Own
  <2>4. preds \in [B -> [B -> Nat]]
    BY DEF Jumps
  <2>5. deleted \in SUBSET B /\ pos \in [B -> B \X Nat]
    OBVIOUS
  <2> QED BY <1>1, <2>1, <2>2, <2>3, <2>4, <2>5 DEF MergeTypeOK
<1>3. Once
  BY <1>1 DEF IsGraph, Once
<1>4. NoDangling
  BY DEF NoDangling
<1>5. PredsComplete
  BY DEF PredsComplete, Live, Jumps
<1>6. KindKept /\ Ranked
  BY <1>1 DEF KindKept, Ranked, IsGraph, Live, B
<1>7. Faithful
  <2> SUFFICES ASSUME NEW b \in B
               PROVE  /\ pos[b][1] \in Live
                      /\ EndOf(b) <= Len(code[pos[b][1]])
                      /\ ~sub.empty[b] => code[pos[b][1]][EndOf(b)] = b
                      /\ Inside(b) \/ Outside(b)
    BY DEF Faithful
  <2>1. pos[b] = <<b, 0>> /\ code[b] = Own(b)
    OBVIOUS
  <2>2. EndOf(b) = Len(code[b])
    BY <2>1 DEF EndOf, Own
  <2>3. ~sub.empty[b] => code[b][EndOf(b)] = b
    BY <2>1 DEF EndOf, Own
  <2>4. Outside(b)
    <3>1. \A jump \in {sub.je, sub.next} : jump[b] # Null => pos[jump[b]] = <<jump[b], 0>>
      BY <1>1 DEF IsGraph, B
    <3> QED BY <2>1, <2>2, <3>1 DEF Outside, SameJump
  <2> QED BY <2>1, <2>2, <2>3, <2>4 DEF Live
<1> QED BY <1>2, <1>3, <1>4, <1>5, <1>6, <1>7 DEF MergeInv

(* The list of blocks loses its first.                                     *)
LEMMA TailOnce ==
  ASSUME MergeTypeOK, Once, bbs # <<>>, bbs' = Tail(bbs)
  PROVE  /\ Head(bbs) \in B /\ Head(bbs) \notin deleted
         /\ bbs' \in Seq(B)
         /\ \A i, k \in 1 .. Len(bbs') : bbs'[i] = bbs'[k] => i = k
         /\ \A i \in 1 .. Len(bbs') : bbs'[i] # Head(bbs) /\ bbs'[i] \notin deleted
<1>1. bbs \in Seq(B) /\ Len(bbs) \in Nat \ {0} /\ Head(bbs) = bbs[1]
  BY DEF MergeTypeOK
<1>2. /\ bbs' \in Seq(B) /\ Len(bbs') = Len(bbs) - 1
      /\ \A i \in 1 .. Len(bbs') : bbs'[i] = bbs[i + 1]
  BY <1>1
<1>3. Head(bbs) \in B
  BY <1>1
<1> QED BY <1>1, <1>2, <1>3 DEF Once

(* A step that changes neither blocks nor ghosts keeps what is said of     *)
(* them.                                                                   *)
LEMMA SameBlocks ==
  MergeInv /\ UNCHANGED <<sub, je, next, code, preds, deleted, pos>>
    => NoDangling' /\ PredsComplete' /\ KindKept' /\ Ranked' /\ Faithful'
BY DEF MergeInv, NoDangling, PredsComplete, KindKept, Ranked, Faithful, Live, B, IsNext,
       EndOf, Own, Inside, Outside, SameJump

LEMMA InvKeep == MergeInv /\ Keep => MergeInv'
<1> SUFFICES ASSUME MergeInv, Keep PROVE MergeInv'
  OBVIOUS
<1>1. MergeTypeOK /\ Once
  BY DEF MergeInv
<1>2. /\ bbs # <<>> /\ bbs' = Tail(bbs) /\ new_bbs' = Append(new_bbs, Head(bbs))
      /\ UNCHANGED <<sub, je, next, code, preds, deleted, pos>>
  BY DEF Keep
<1>3. /\ Head(bbs) \in B
      /\ bbs' \in Seq(B)
      /\ \A i, k \in 1 .. Len(bbs') : bbs'[i] = bbs'[k] => i = k
      /\ \A i \in 1 .. Len(bbs') : bbs'[i] \notin deleted
  BY <1>1, <1>2, TailOnce
<1>4. new_bbs' \in Seq(B)
  BY <1>1, <1>2, <1>3 DEF MergeTypeOK
<1>5. MergeTypeOK'
  BY <1>1, <1>2, <1>3, <1>4 DEF MergeTypeOK, B
<1>6. Once'
  BY <1>2, <1>3 DEF Once
<1> QED BY <1>2, <1>5, <1>6, SameBlocks DEF MergeInv

-----------------------------------------------------------------------------
(* What a merge of block cur into block nxt does, by name.                 *)
Merging(cur, nxt, ps) ==
  /\ cur \in Live /\ nxt \in Live /\ nxt # cur
  /\ je[cur] = Null /\ next[cur] = nxt
  /\ code[cur] = <<>> \/ AtMostOnePred(nxt)
  /\ ps = {p \in B : preds[cur][p] > 0 /\ p \notin deleted}
  /\ je' = Redirect(je, ps, cur, nxt)
  /\ next' = Redirect(next, ps, cur, nxt)
  /\ preds' = [preds EXCEPT ![nxt] = Inherit(ps, cur, nxt)]
  /\ code' = [code EXCEPT ![nxt] = code[cur] \o code[nxt], ![cur] = <<>>]
  /\ deleted' = deleted \cup {cur}
  /\ pos' = [b \in B |-> CASE pos[b][1] = cur -> <<nxt, pos[b][2]>>
                         [] pos[b][1] = nxt -> <<nxt, Len(code[cur]) + pos[b][2]>>
                         [] OTHER           -> pos[b]]
  /\ UNCHANGED sub

(* A merge is one of a block that exists into another one that exists.     *)
LEMMA MergeIs == MergeInv /\ Merge => Merging(Head(bbs), next[Head(bbs)], LivePreds(Head(bbs)))
<1> SUFFICES ASSUME MergeInv, Merge
             PROVE  Merging(Head(bbs), next[Head(bbs)], LivePreds(Head(bbs)))
  OBVIOUS
<1> DEFINE cur == Head(bbs)
           nxt == next[cur]
<1>1. MergeTypeOK /\ Once /\ NoDangling /\ Ranked
  BY DEF MergeInv
<1>2. cur \in Live
  <2>1. bbs # <<>> /\ bbs' = Tail(bbs)
    BY DEF Merge
  <2> QED BY <1>1, <2>1, TailOnce DEF Live
<1>3. je[cur] = Null /\ nxt # Null
  BY DEF Merge, CanMerge, IsNext
<1>4. nxt \in Live
  BY <1>1, <1>2, <1>3 DEF MergeTypeOK, NoDangling, Live
<1>5. nxt # cur
  <2>1. sub.rank[nxt] < sub.rank[cur]
    BY <1>1, <1>2, <1>3 DEF Ranked, IsNext
  <2>2. sub.rank[cur] \in Nat
    BY <1>1, <1>2 DEF MergeTypeOK, IsGraph, Live, B
  <2> QED BY <2>1, <2>2
<1> QED BY <1>2, <1>3, <1>4, <1>5 DEF Merge, Merging, CanMerge, LivePreds

(* The jumps of a block that exists after a merge.                         *)
LEMMA RedirectIs ==
  ASSUME MergeTypeOK, PredsComplete, NEW cur, NEW nxt, NEW ps, Merging(cur, nxt, ps)
  PROVE  /\ Live' = Live \ {cur} /\ B' = B
         /\ je' \in [B -> B \cup {Null}] /\ next' \in [B -> B \cup {Null}]
         /\ \A p \in Live : /\ je'[p] = (IF je[p] = cur THEN nxt ELSE je[p])
                            /\ next'[p] = (IF next[p] = cur THEN nxt ELSE next[p])
         /\ \A p \in deleted : je'[p] = je[p] /\ next'[p] = next[p]
<1>1. cur \in B /\ nxt \in B /\ Null \notin B
  BY DEF Merging, Live, MergeTypeOK, IsGraph, B
<1>2. B' = B /\ Live' = Live \ {cur}
  BY DEF Merging, B, Live
<1>3. \A p \in Live : je[p] = cur \/ next[p] = cur => p \in ps
  BY <1>1 DEF PredsComplete, Merging, Live
<1>4. /\ je' = [p \in B |-> IF p \in ps /\ je[p] = cur THEN nxt ELSE je[p]]
      /\ next' = [p \in B |-> IF p \in ps /\ next[p] = cur THEN nxt ELSE next[p]]
      /\ ps \cap deleted = {}
  BY DEF Merging, Redirect
<1>5. je \in [B -> B \cup {Null}] /\ next \in [B -> B \cup {Null}] /\ deleted \subseteq B
  BY DEF MergeTypeOK
<1>6. je' \in [B -> B \cup {Null}] /\ next' \in [B -> B \cup {Null}]
  BY <1>1, <1>4, <1>5
<1>7. \A p \in Live : /\ je'[p] = (IF je[p] = cur THEN nxt ELSE je[p])
                      /\ next'[p] = (IF next[p] = cur THEN nxt ELSE next[p])
  BY <1>3, <1>4 DEF Live
<1>8. \A p \in deleted : je'[p] = je[p] /\ next'[p] = next[p]
  BY <1>4, <1>5
<1> QED BY <1>2, <1>6, <1>7, <1>8

(* Types after a merge.                                                    *)
LEMMA MergeTyped ==
  ASSUME MergeInv, Merge PROVE MergeTypeOK' /\ Once'
<1> DEFINE cur == Head(bbs)
           nxt == next[cur]
           ps  == LivePreds(cur)
<1>1. MergeTypeOK /\ Once /\ PredsComplete /\ Merging(cur, nxt, ps)
  BY MergeIs DEF MergeInv
<1>2. /\ cur \in B /\ cur \notin deleted
      /\ bbs' \in Seq(B)
      /\ \A i, k \in 1 .. Len(bbs') : bbs'[i] = bbs'[k] => i = k
      /\ \A i \in 1 .. Len(bbs') : bbs'[i] # cur /\ bbs'[i] \notin deleted
  <2>1. bbs # <<>> /\ bbs' = Tail(bbs)
    BY DEF Merge
  <2> QED BY <1>1, <2>1, TailOnce
<1> HIDE DEF cur, nxt, ps
<1>3. deleted' = deleted \cup {cur} /\ B' = B /\ nxt \in B
  BY <1>1 DEF Merging, Live, B
<1>4. je' \in [B -> B \cup {Null}] /\ next' \in [B -> B \cup {Null}]
  BY <1>1, RedirectIs
<1>5. code' \in [B -> Seq(B)]
  <2>1. code[cur] \o code[nxt] \in Seq(B) /\ <<>> \in Seq(B)
    BY <1>1, <1>2, <1>3, ConcatProperties DEF MergeTypeOK
  <2> QED BY <1>1, <1>2, <1>3, <2>1 DEF MergeTypeOK, Merging
<1>6. preds' \in [B -> [B -> Nat]]
  <2>1. \A p \in B : Jumps(p, cur) \in Nat /\ preds[nxt][p] \in Nat
    BY <1>1, <1>3 DEF Jumps, MergeTypeOK
  <2>2. Inherit(ps, cur, nxt) \in [B -> Nat]
    BY <2>1 DEF Inherit
  <2> QED BY <1>1, <1>3, <2>2 DEF MergeTypeOK, Merging
<1>7. pos' \in [B -> B \X Nat]
  <2>1. Len(code[cur]) \in Nat
    BY <1>1, <1>2 DEF MergeTypeOK
  <2>2. \A b \in B : pos[b] \in B \X Nat /\ pos[b][2] \in Nat
    BY <1>1 DEF MergeTypeOK
  <2>3. \A i \in Nat : <<nxt, i>> \in B \X Nat /\ Len(code[cur]) + i \in Nat
    BY <1>3, <2>1
  <2> QED BY <1>1, <2>2, <2>3 DEF Merging
<1>8. new_bbs' = new_bbs /\ sub' = sub
  BY DEF Merge
<1>9. MergeTypeOK'
  BY <1>1, <1>2, <1>3, <1>4, <1>5, <1>6, <1>7, <1>8 DEF MergeTypeOK
<1>10. Once'
  BY <1>2, <1>3 DEF Once
<1> QED BY <1>9, <1>10

(* Jumps after a merge: they lead to blocks that exist, which list them.   *)
LEMMA MergeJumps ==
  ASSUME MergeInv, Merge PROVE NoDangling' /\ PredsComplete' /\ KindKept' /\ Ranked'
<1> DEFINE cur == Head(bbs)
           nxt == next[cur]
           ps  == LivePreds(cur)
<1>1. MergeTypeOK /\ NoDangling /\ PredsComplete /\ KindKept /\ Ranked /\ Merging(cur, nxt, ps)
  BY MergeIs DEF MergeInv
<1> HIDE DEF cur, nxt, ps
<1>2. /\ cur \in Live /\ nxt \in Live /\ nxt # cur /\ Null \notin B
      /\ je[cur] = Null /\ next[cur] = nxt
      /\ deleted' = deleted \cup {cur} /\ sub' = sub
  BY <1>1 DEF Merging, MergeTypeOK, IsGraph, B
<1>3. /\ Live' = Live \ {cur} /\ B' = B
      /\ \A p \in Live : /\ je'[p] = (IF je[p] = cur THEN nxt ELSE je[p])
                         /\ next'[p] = (IF next[p] = cur THEN nxt ELSE next[p])
  BY <1>1, RedirectIs
<1>4. NoDangling'
  BY <1>1, <1>2, <1>3 DEF NoDangling, Live
<1>5. PredsComplete'
  <2> SUFFICES ASSUME NEW p \in Live, p # cur, NEW b \in B, je'[p] = b \/ next'[p] = b
               PROVE  preds'[b][p] > 0
    BY <1>3 DEF PredsComplete
  <2>0. p \in B /\ cur \in B /\ nxt \in B /\ p \notin deleted
    BY <1>2 DEF Live
  <2>1. preds' = [preds EXCEPT ![nxt] = Inherit(ps, cur, nxt)]
    BY <1>1 DEF Merging
  <2>2. /\ Inherit(ps, cur, nxt)[p] = preds[nxt][p] + (IF p \in ps THEN Jumps(p, cur) ELSE 0)
        /\ preds[nxt][p] \in Nat /\ Jumps(p, cur) \in Nat
        /\ je[p] = cur \/ next[p] = cur => Jumps(p, cur) > 0
    <3>1. Inherit(ps, cur, nxt)[p] = preds[nxt][p] + (IF p \in ps THEN Jumps(p, cur) ELSE 0)
      BY <2>0 DEF Inherit
    <3>2. preds[nxt][p] \in Nat
      BY <1>1, <2>0 DEF MergeTypeOK
    <3>3. Jumps(p, cur) \in Nat /\ (je[p] = cur \/ next[p] = cur => Jumps(p, cur) > 0)
      BY DEF Jumps
    <3> QED BY <3>1, <3>2, <3>3
  <2>3. b # nxt => preds'[b] = preds[b]
    BY <1>1, <2>1 DEF MergeTypeOK
  <2>4. preds'[nxt] = Inherit(ps, cur, nxt)
    BY <1>1, <2>0, <2>1 DEF MergeTypeOK
  <2>5. CASE je[p] = cur \/ next[p] = cur
    <3>1. preds[cur][p] > 0
      BY <1>1, <2>0, <2>5 DEF PredsComplete
    <3>2. p \in ps
      BY <1>1, <2>0, <3>1 DEF Merging
    <3>3. preds'[nxt][p] > 0
      BY <2>2, <2>4, <2>5, <3>2
    <3>4. b = nxt \/ je[p] = b \/ next[p] = b
      BY <1>3
    <3> QED BY <1>1, <2>3, <3>3, <3>4 DEF PredsComplete
  <2>6. CASE je[p] # cur /\ next[p] # cur
    <3>1. je[p] = b \/ next[p] = b
      BY <1>3, <2>6
    <3>2. preds[b][p] > 0
      BY <1>1, <3>1 DEF PredsComplete
    <3> QED BY <2>2, <2>3, <2>4, <3>2
  <2> QED BY <2>5, <2>6
<1>6. KindKept'
  BY <1>1, <1>2, <1>3 DEF KindKept, Live
<1>7. Ranked'
  <2> SUFFICES ASSUME NEW p \in Live, p # cur, je'[p] = Null, next'[p] # Null
               PROVE  sub.rank[next'[p]] < sub.rank[p]
    BY <1>2, <1>3 DEF Ranked, IsNext
  <2>1. /\ je[p] = Null /\ next[p] # Null /\ next[p] \in B /\ p \in B
        /\ cur \in B /\ nxt \in B /\ nxt # Null
    BY <1>1, <1>2, <1>3 DEF Live, MergeTypeOK
  <2>2. sub.rank[next[p]] < sub.rank[p] /\ sub.rank[nxt] < sub.rank[cur]
    BY <1>1, <1>2, <2>1 DEF Ranked, IsNext
  <2>3. sub.rank \in [B -> Nat]
    BY <1>1 DEF MergeTypeOK, IsGraph, B
  <2>4. CASE next[p] = cur
    BY <1>3, <2>1, <2>2, <2>3, <2>4
  <2>5. CASE next[p] # cur
    BY <1>3, <2>2, <2>5
  <2> QED BY <2>4, <2>5
<1> QED BY <1>4, <1>5, <1>6, <1>7

(* Only the block that is merged jumps to the block that it is merged      *)
(* into, unless it holds nothing.                                          *)
LEMMA OnlyPred ==
  ASSUME MergeTypeOK, PredsComplete, NEW cur, NEW nxt, NEW ps, Merging(cur, nxt, ps),
         code[cur] # <<>>, NEW p \in Live, je[p] = nxt \/ next[p] = nxt
  PROVE  p = cur
<1>1. cur \in B /\ nxt \in B /\ p \in B /\ AtMostOnePred(nxt)
  BY DEF Merging, Live
<1>2. preds[nxt][cur] > 0 /\ preds[nxt][p] > 0
  BY <1>1 DEF PredsComplete, Merging
<1>3. PICK q \in B : \A r \in B \ {q} : preds[nxt][r] = 0
  BY <1>1 DEF AtMostOnePred
<1> QED BY <1>1, <1>2, <1>3

(* Every block of the source is where it should be after a merge.          *)
LEMMA MergeFaithful ==
  ASSUME MergeInv, Merge PROVE Faithful'
<1> DEFINE cur == Head(bbs)
           nxt == next[cur]
           ps  == LivePreds(cur)
           n   == Len(code[cur])
<1>1. MergeTypeOK /\ PredsComplete /\ Faithful /\ Merging(cur, nxt, ps)
  BY MergeIs DEF MergeInv
<1> HIDE DEF cur, nxt, ps
<1>2. /\ cur \in Live /\ nxt \in Live /\ nxt # cur /\ Null \notin B
      /\ cur \in B /\ nxt \in B /\ nxt # Null
      /\ je[cur] = Null /\ next[cur] = nxt /\ sub' = sub
  BY <1>1 DEF Merging, MergeTypeOK, IsGraph, B, Live
<1>3. /\ Live' = Live \ {cur} /\ B' = B
      /\ \A p \in Live : /\ je'[p] = (IF je[p] = cur THEN nxt ELSE je[p])
                         /\ next'[p] = (IF next[p] = cur THEN nxt ELSE next[p])
  BY <1>1, RedirectIs
<1>4. n \in Nat /\ code[cur] \in Seq(B) /\ code[nxt] \in Seq(B)
  BY <1>1, <1>2 DEF MergeTypeOK
<1>5. /\ code'[nxt] = code[cur] \o code[nxt]
      /\ \A b \in B : b # cur /\ b # nxt => code'[b] = code[b]
  BY <1>1, <1>2 DEF Merging, MergeTypeOK
<1>6. /\ Len(code'[nxt]) = n + Len(code[nxt])
      /\ \A i \in 1 .. n : code'[nxt][i] = code[cur][i]
      /\ \A i \in 1 .. Len(code[nxt]) : code'[nxt][n + i] = code[nxt][i]
  <2> DEFINE s == code[cur]
             t == code[nxt]
             u == code'[nxt]
  <2>1. s \in Seq(B) /\ t \in Seq(B) /\ u = s \o t
    BY <1>4, <1>5
  <2> HIDE DEF s, t, u
  <2>2. /\ Len(u) = Len(s) + Len(t)
        /\ \A i \in 1 .. Len(s) : u[i] = s[i]
        /\ \A i \in 1 .. Len(t) : u[Len(s) + i] = t[i]
    BY <2>1
  <2> QED BY <2>2, Zenon DEF s, t, u
<1>n. Len(code[nxt]) \in Nat
  BY <1>4
<1>0. (code[cur] = <<>> <=> n = 0) /\ n = Len(code[cur])
  BY <1>4
<1> HIDE DEF n
<1>7. \A b \in B : /\ pos[b][1] = cur => pos'[b] = <<nxt, pos[b][2]>>
                   /\ pos[b][1] = nxt => pos'[b] = <<nxt, n + pos[b][2]>>
                   /\ pos[b][1] # cur /\ pos[b][1] # nxt => pos'[b] = pos[b]
  <2>1. n = Len(code[cur])
    BY <1>0
  <2>2. \A b \in B : pos'[b] = CASE pos[b][1] = cur -> <<nxt, pos[b][2]>>
                                [] pos[b][1] = nxt -> <<nxt, n + pos[b][2]>>
                                [] OTHER           -> pos[b]
    BY <1>1, <2>1 DEF Merging
  <2> QED BY <1>2, <2>2
<1>8. \A b \in B : pos[b][1] \in B /\ pos[b][2] \in Nat /\ pos[b] = <<pos[b][1], pos[b][2]>>
  BY <1>1 DEF MergeTypeOK
<1>9. \A p \in Live \ {cur}, b \in B :
        /\ je[p] # Null /\ pos[b] = <<je[p], 0>> => pos'[b] = <<je'[p], 0>>
        /\ next[p] # Null /\ pos[b] = <<next[p], 0>> => pos'[b] = <<next'[p], 0>>
  <2>1. \A p \in Live \ {cur} : je[p] = nxt \/ next[p] = nxt => n = 0
    BY <1>0, <1>1, OnlyPred
  <2>2. \A b \in B, t \in B : pos[b] = <<t, 0>> =>
          /\ t = cur => pos'[b] = <<nxt, 0>>
          /\ t = nxt /\ n = 0 => pos'[b] = <<nxt, 0>>
          /\ t # cur /\ t # nxt => pos'[b] = <<t, 0>>
    <3> SUFFICES ASSUME NEW b \in B, NEW t \in B, pos[b] = <<t, 0>>
                 PROVE  /\ t = cur => pos'[b] = <<nxt, 0>>
                        /\ t = nxt /\ n = 0 => pos'[b] = <<nxt, 0>>
                        /\ t # cur /\ t # nxt => pos'[b] = <<t, 0>>
      OBVIOUS
    <3>1. pos[b][1] = t /\ pos[b][2] = 0
      OBVIOUS
    <3>2. n \in Nat => n + 0 = n
      OBVIOUS
    <3>3. /\ t = cur => pos'[b] = <<nxt, pos[b][2]>>
          /\ t = nxt => pos'[b] = <<nxt, n + pos[b][2]>>
          /\ t # cur /\ t # nxt => pos'[b] = pos[b]
      BY <1>7, <3>1, Zenon
    <3> QED BY <1>4, <3>1, <3>2, <3>3
  <2>3. \A p \in Live : je[p] \in B \cup {Null} /\ next[p] \in B \cup {Null}
    BY <1>1 DEF MergeTypeOK, Live
  <2> QED BY <1>2, <1>3, <2>1, <2>2, <2>3
<1>10. SUFFICES ASSUME NEW x \in B
                PROVE  /\ pos'[x][1] \in Live'
                       /\ EndOf(x)' <= Len(code'[pos'[x][1]])
                       /\ ~sub.empty[x] => code'[pos'[x][1]][EndOf(x)'] = x
                       /\ Inside(x)' \/ Outside(x)'
  BY <1>2, <1>3 DEF Faithful
<1> DEFINE q == pos[x][1]
           i == pos[x][2]
           w == Len(Own(x))
<1>11. /\ q \in Live /\ i + w <= Len(code[q])
       /\ ~sub.empty[x] => code[q][i + w] = x
       /\ Inside(x) \/ Outside(x)
  BY <1>1 DEF Faithful, EndOf
<1>12. /\ q \in B /\ i \in Nat /\ w \in {0, 1} /\ (~sub.empty[x] => w = 1) /\ w' = w
       /\ EndOf(x) = i + w /\ EndOf(x)' = pos'[x][2] + w
       /\ sub.je[x] \in B \cup {Null} /\ sub.next[x] \in B \cup {Null}
  <2>1. q \in B /\ i \in Nat /\ sub.je[x] \in B \cup {Null} /\ sub.next[x] \in B \cup {Null}
    BY <1>1, <1>8 DEF MergeTypeOK, IsGraph, B
  <2>2. w \in {0, 1} /\ (~sub.empty[x] => w = 1) /\ w' = w
    BY <1>2 DEF Own
  <2> QED BY <2>1, <2>2 DEF EndOf
<1>x. /\ q = cur => pos'[x] = <<nxt, i>>
      /\ q = nxt => pos'[x] = <<nxt, n + i>>
      /\ q # cur /\ q # nxt => pos'[x] = <<q, i>>
  BY <1>7, <1>8, Zenon
<1>s. \A b \in B, t \in B, m \in Nat : pos[b] = <<t, m>> =>
        /\ t = cur => pos'[b] = <<nxt, m>>
        /\ t = nxt => pos'[b] = <<nxt, n + m>>
        /\ t # cur /\ t # nxt => pos'[b] = <<t, m>>
  <2> SUFFICES ASSUME NEW b \in B, NEW t \in B, NEW m \in Nat, pos[b] = <<t, m>>
               PROVE  /\ t = cur => pos'[b] = <<nxt, m>>
                      /\ t = nxt => pos'[b] = <<nxt, n + m>>
                      /\ t # cur /\ t # nxt => pos'[b] = <<t, m>>
    OBVIOUS
  <2>1. pos[b][1] = t /\ pos[b][2] = m
    OBVIOUS
  <2>2. /\ t = cur => pos'[b] = <<nxt, pos[b][2]>>
        /\ t = nxt => pos'[b] = <<nxt, n + pos[b][2]>>
        /\ t # cur /\ t # nxt => pos'[b] = pos[b]
    BY <1>7, <2>1, Zenon
  <2> QED BY <2>1, <2>2
<1>13. Inside(x) => sub.je[x] = Null /\ sub.next[x] \in B /\ pos[sub.next[x]] = <<q, i + w>>
  BY <1>12 DEF Inside, IsNext
<1>14. Inside(x)' <=> /\ sub.je[x] = Null /\ sub.next[x] # Null
                      /\ pos'[sub.next[x]] = <<pos'[x][1], pos'[x][2] + w>>
  BY <1>2, <1>12 DEF Inside, IsNext
<1>15. Outside(x) => /\ i + w = Len(code[q])
                     /\ (je[q] = Null) <=> (sub.je[x] = Null)
                     /\ (next[q] = Null) <=> (sub.next[x] = Null)
                     /\ sub.je[x] # Null => pos[sub.je[x]] = <<je[q], 0>>
                     /\ sub.next[x] # Null => pos[sub.next[x]] = <<next[q], 0>>
  BY <1>12 DEF Outside, SameJump
<1>o. Outside(x)' <=> /\ EndOf(x)' = Len(code'[pos'[x][1]])
                      /\ (je'[pos'[x][1]] = Null) <=> (sub.je[x] = Null)
                      /\ (next'[pos'[x][1]] = Null) <=> (sub.next[x] = Null)
                      /\ sub.je[x] # Null => pos'[sub.je[x]] = <<je'[pos'[x][1]], 0>>
                      /\ sub.next[x] # Null => pos'[sub.next[x]] = <<next'[pos'[x][1]], 0>>
  BY <1>2 DEF Outside, SameJump
<1>j. ASSUME Outside(x), q # cur
      PROVE  /\ (je'[q] = Null) <=> (sub.je[x] = Null)
             /\ (next'[q] = Null) <=> (sub.next[x] = Null)
             /\ sub.je[x] # Null => pos'[sub.je[x]] = <<je'[q], 0>>
             /\ sub.next[x] # Null => pos'[sub.next[x]] = <<next'[q], 0>>
  <2>1. q \in Live \ {cur}
    BY <1>11, <1>j
  <2>2. /\ je'[q] = (IF je[q] = cur THEN nxt ELSE je[q])
        /\ next'[q] = (IF next[q] = cur THEN nxt ELSE next[q])
    BY <1>3, <2>1
  <2>3. cur # Null
    BY <1>2
  <2>4. (je'[q] = Null) <=> (sub.je[x] = Null)
    BY <1>2, <1>15, <1>j, <2>2, <2>3
  <2>5. (next'[q] = Null) <=> (sub.next[x] = Null)
    BY <1>2, <1>15, <1>j, <2>2, <2>3
  <2>6. sub.je[x] # Null => pos'[sub.je[x]] = <<je'[q], 0>>
    BY <1>9, <1>12, <1>15, <1>j, <2>1
  <2>7. sub.next[x] # Null => pos'[sub.next[x]] = <<next'[q], 0>>
    BY <1>9, <1>12, <1>15, <1>j, <2>1
  <2> QED BY <2>4, <2>5, <2>6, <2>7
<1> HIDE DEF q, i, w
<1>16. CASE q = cur
  <2>1. pos'[x] = <<nxt, i>>
    BY <1>x, <1>16
  <2>2. pos'[x][1] \in Live'
    BY <1>2, <1>3, <2>1
  <2>3. EndOf(x)' = i + w /\ i + w <= n
    BY <1>0, <1>11, <1>12, <1>16, <2>1
  <2>4. EndOf(x)' <= Len(code'[pos'[x][1]])
    BY <1>4, <1>n, <1>6, <1>12, <2>1, <2>3
  <2>5. ~sub.empty[x] => code'[pos'[x][1]][EndOf(x)'] = x
    BY <1>6, <1>11, <1>12, <1>16, <2>1, <2>3
  <2>6. Inside(x) => Inside(x)'
    BY <1>s, <1>12, <1>13, <1>14, <1>16, <1>2, <2>1
  <2>7. Outside(x) => Inside(x)'
    <3> SUFFICES ASSUME Outside(x) PROVE Inside(x)'
      OBVIOUS
    <3>1. sub.je[x] = Null /\ sub.next[x] # Null /\ pos[sub.next[x]] = <<nxt, 0>> /\ i + w = n
      BY <1>0, <1>2, <1>15, <1>16
    <3>2. pos'[sub.next[x]] = <<nxt, i + w>>
      <4>1. n + 0 = n /\ 0 \in Nat
        BY <1>4
      <4>2. pos'[sub.next[x]] = <<nxt, n + 0>>
        BY <1>2, <1>s, <1>12, <3>1, <4>1
      <4> QED BY <3>1, <4>1, <4>2
    <3> QED BY <1>14, <2>1, <3>1, <3>2
  <2> QED BY <1>11, <2>2, <2>4, <2>5, <2>6, <2>7
<1>17. CASE q = nxt
  <2>1. pos'[x] = <<nxt, n + i>>
    BY <1>x, <1>17
  <2>2. pos'[x][1] \in Live'
    BY <1>2, <1>3, <2>1
  <2>3. EndOf(x)' = n + (i + w) /\ i + w <= Len(code[nxt])
    BY <1>4, <1>11, <1>12, <1>17, <2>1
  <2>4. EndOf(x)' <= Len(code'[pos'[x][1]])
    BY <1>4, <1>n, <1>6, <1>12, <2>1, <2>3
  <2>5. ~sub.empty[x] => code'[pos'[x][1]][EndOf(x)'] = x
    BY <1>6, <1>11, <1>12, <1>17, <2>1, <2>3
  <2>6. Inside(x) => Inside(x)'
    BY <1>2, <1>4, <1>s, <1>12, <1>13, <1>14, <1>17, <2>1
  <2>7. Outside(x) => Outside(x)'
    <3> SUFFICES ASSUME Outside(x) PROVE Outside(x)'
      OBVIOUS
    <3>1. EndOf(x)' = Len(code'[nxt])
      BY <1>6, <1>15, <1>17, <2>3
    <3> QED BY <1>2, <1>j, <1>o, <1>17, <2>1, <3>1
  <2> QED BY <1>11, <2>2, <2>4, <2>5, <2>6, <2>7
<1>18. CASE q # cur /\ q # nxt
  <2>1. pos'[x] = <<q, i>> /\ code'[q] = code[q]
    BY <1>5, <1>x, <1>12, <1>18
  <2>2. pos'[x][1] \in Live' /\ EndOf(x)' = i + w
    BY <1>3, <1>11, <1>12, <1>18, <2>1
  <2>3. Inside(x) => Inside(x)'
    BY <1>2, <1>s, <1>12, <1>13, <1>14, <1>18, <2>1
  <2>4. Outside(x) => Outside(x)'
    <3> SUFFICES ASSUME Outside(x) PROVE Outside(x)'
      OBVIOUS
    <3> QED BY <1>j, <1>o, <1>15, <1>18, <2>1, <2>2
  <2> QED BY <1>11, <2>1, <2>2, <2>3, <2>4
<1> QED BY <1>16, <1>17, <1>18

-----------------------------------------------------------------------------
(* The invariant holds in every state: the blocks that are left do what    *)
(* the blocks of the source do.                                            *)
THEOREM MergingIsFaithful == Spec => []MergeInv
<1>1. Init => MergeInv
  BY InvInit
<1>2. MergeInv /\ [Next]_buildVars => MergeInv'
  <2> SUFFICES ASSUME MergeInv, [Next]_buildVars PROVE MergeInv'
    OBVIOUS
  <2>1. CASE Keep
    BY <2>1, InvKeep
  <2>2. CASE Merge
    BY <2>2, MergeTyped, MergeJumps, MergeFaithful DEF MergeInv
  <2>3. CASE UNCHANGED vars
    <3>1. MergeTypeOK' /\ Once'
      BY <2>3 DEF vars, MergeInv, MergeTypeOK, Once, B
    <3> QED BY <2>3, <3>1, SameBlocks DEF vars, MergeInv
  <2> QED BY <2>1, <2>2, <2>3 DEF Next, Refuse, StartMerging, MergeStep, Finish, buildVars
<1> QED BY <1>1, <1>2, PTL DEF Spec

(* No jump is left without a label.                                        *)
THEOREM JumpsHaveLabels == Spec => []NoDangling
<1>1. MergeInv => NoDangling
  BY DEF MergeInv
<1> QED BY <1>1, MergingIsFaithful, PTL

(* A block that was freed is never written to.                             *)
THEOREM FreedIsUntouched == Spec => FreedUntouched
<1>1. MergeInv /\ [Next]_buildVars =>
        [\A b \in deleted : je'[b] = je[b] /\ next'[b] = next[b] /\ code'[b] = code[b]]_vars
  <2> SUFFICES ASSUME MergeInv, Merge, NEW b \in deleted
               PROVE  je'[b] = je[b] /\ next'[b] = next[b] /\ code'[b] = code[b]
    BY DEF Next, Refuse, StartMerging, MergeStep, Keep, Finish, vars, buildVars
  <2> DEFINE cur == Head(bbs)
             nxt == next[cur]
             ps  == LivePreds(cur)
  <2>1. MergeTypeOK /\ PredsComplete /\ Merging(cur, nxt, ps)
    BY MergeIs DEF MergeInv
  <2> HIDE DEF cur, nxt, ps
  <2>2. je'[b] = je[b] /\ next'[b] = next[b]
    BY <2>1, RedirectIs
  <2>3. b \in B /\ b # cur /\ b # nxt
    BY <2>1 DEF MergeTypeOK, Merging, Live
  <2> QED BY <2>1, <2>2, <2>3 DEF MergeTypeOK, Merging
<1> QED BY <1>1, MergingIsFaithful, PTL DEF Spec, FreedUntouched
===========================================================================
