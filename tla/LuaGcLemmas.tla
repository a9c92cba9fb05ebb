---------------------------- MODULE LuaGcLemmas ----------------------------
(***************************************************************************)
(* What the proof about LuaGc rests on: the inductive invariant IInv, and  *)
(* lemmas about the operators of the module.  First its folds and lists,   *)
(* from what FoldLemmas says of any, then writes to the objects and new    *)
(* objects, the steps of marking, the write barriers, and the closing of   *)
(* upvalues.  LuaGcProofs continues with the sweep, the end of the mark    *)
(* phase and the actions, and has the theorems.                            *)
(*                                                                         *)
(* In the lemmas h and k are heaps, m and n collectors (the variable g),   *)
(* tmu is the list tmudata, cs the list callers and p the phase.           *)
(***************************************************************************)
EXTENDS LuaGc, FoldLemmas

(* One step of each fold.                                                  *)
Propagated(h, m) == IF m.gray = <<>> THEN m ELSE PropagateMark(h, m)
MarkedAgain(h, m, u) == Mark(h, MakeWhite(m, u), u)
Nothing == <<>>
KeepsNext(S, kept, s) == IF s \in S THEN Append(kept, s) ELSE kept

(* What MarkAll computes, one value after the other.                       *)
MarkAllTrace(h, m, seq, M, n, W) ==
                /\ W[0] = m /\ MarkAll(h, m, seq) = W[n]
                /\ \A i \in 1..n : W[i] = Mark(h, W[i - 1], seq[i])
                /\ \A i \in 0..n : W[i] \in M

(* MarkAll, and the states between its steps, all in M when a step does    *)
(* not leave M.                                                            *)
LEMMA MarkAllSteps ==
  ASSUME NEW h, NEW M, NEW m \in M, NEW n \in Nat, NEW seq, DOMAIN seq = 1..n,
         \A x \in M, i \in 1..n : Mark(h, x, seq[i]) \in M
  PROVE  \E W : MarkAllTrace(h, m, seq, M, n, W)
<1> DEFINE F == [p \in M \X (1..n) |-> Mark(h, p[1], seq[p[2]])]
           Eq(V) == V = [s \in SUBSET (1..n) |-> IF s = {} THEN m
                                                 ELSE Mark(h, V[s \ {Max(s)}], seq[Max(s)])]
           U == CHOOSE V : Eq(V)
           W == [i \in 0..n |-> U[1..i]]
<1>1. \A x \in M, i \in 1..n : F[<<x, i>>] = Mark(h, x, seq[i])
  OBVIOUS
<1> HIDE DEF F
<1>2. \A x \in M, i \in 1..n : F[<<x, i>>] \in M
  BY <1>1
<1>3. PICK V \in [SUBSET (1..n) -> M] : IsFold(V, m, n, F)
  BY <1>2, FoldExists
<1>4. \A s \in SUBSET (1..n) : s # {} => V[s \ {Max(s)}] \in M /\ Max(s) \in 1..n
  BY MaxIn
<1>5. Eq(V)
  BY <1>1, <1>3, <1>4 DEF IsFold
<1>6. Eq(U)
  BY <1>5, Zenon
<1>7. MarkAll(h, m, seq) = U[1..n]
  BY DEF MarkAll, FoldLeft, MapThenFoldSet
<1> HIDE DEF U
<1>8. U[1..0] = m
  <2>1. 1..0 = {} /\ 1..0 \in SUBSET (1..n)
    OBVIOUS
  <2> QED BY <2>1, <1>6
<1>9. ASSUME NEW i \in 1..n PROVE U[1..i] = Mark(h, U[1..(i - 1)], seq[i])
  <2> DEFINE s == 1..i
  <2>1. Max(s) = i /\ s \ {i} = 1..(i - 1) /\ s \in SUBSET (1..n) /\ s # {}
    BY FoldSteps
  <2> HIDE DEF s
  <2>2. U[s] = Mark(h, U[s \ {Max(s)}], seq[Max(s)])
    BY <2>1, <1>6
  <2> QED BY <2>1, <2>2 DEF s
<1>10. W[0] = m /\ W[n] = U[1..n] /\ \A i \in 1..n : W[i] = Mark(h, W[i - 1], seq[i])
  BY <1>8, <1>9
<1> HIDE DEF W
<1> DEFINE A == {j \in 0..n : W[j] \in M}
<1>11. ASSUME NEW i \in 1..n, i - 1 \in A PROVE i \in A
  <2>1. W[i - 1] \in M /\ W[i] = Mark(h, W[i - 1], seq[i])
    BY <1>10, <1>11
  <2>2. W[i] \in M
    <3> HIDE DEF A
    <3> QED BY <2>1
  <2> QED BY <2>2
<1>12. 0 \in A
  BY <1>10
<1> HIDE DEF A
<1>13. \A i \in 0..n : i \in A
  BY <1>12, <1>11, Induct
<1>14. \A i \in 0..n : W[i] \in M
  BY <1>13 DEF A
<1> QED BY <1>7, <1>10, <1>14 DEF MarkAllTrace

(* The same of PropagateAll.                                               *)
PropagateAllTrace(h, m, M, n, W) ==
                /\ W[0] = m /\ PropagateAll(h, m) = W[n]
                /\ \A i \in 1..n : W[i] = Propagated(h, W[i - 1])
                /\ \A i \in 0..n : W[i] \in M

(* PropagateAll, and the states between its steps.                         *)
LEMMA PropagateAllSteps ==
  ASSUME NEW h, NEW M, NEW m \in M, NEW n \in Nat, n = Cardinality(Slots),
         \A x \in M, i \in 1..n : Propagated(h, x) \in M
  PROVE  \E W : PropagateAllTrace(h, m, M, n, W)
<1> DEFINE F == [p \in M \X (1..n) |-> Propagated(h, p[1])]
           Eq(V) == V = [s \in SUBSET (1..n) |-> IF s = {} THEN m
                                                 ELSE Propagated(h, V[s \ {Max(s)}])]
           U == CHOOSE V : Eq(V)
           W == [i \in 0..n |-> U[1..i]]
<1>1. \A x \in M, i \in 1..n : F[<<x, i>>] = Propagated(h, x)
  OBVIOUS
<1> HIDE DEF F
<1>2. \A x \in M, i \in 1..n : F[<<x, i>>] \in M
  BY <1>1
<1>3. PICK V \in [SUBSET (1..n) -> M] : IsFold(V, m, n, F)
  BY <1>2, FoldExists
<1>4. \A s \in SUBSET (1..n) : s # {} => V[s \ {Max(s)}] \in M /\ Max(s) \in 1..n
  BY MaxIn
<1>5. Eq(V)
  BY <1>1, <1>3, <1>4 DEF IsFold
<1>6. Eq(U)
  BY <1>5, Zenon
<1>7. PropagateAll(h, m) = U[1..n]
  BY DEF PropagateAll, Propagated, FoldLeft, MapThenFoldSet
<1> HIDE DEF U
<1>8. U[1..0] = m
  <2>1. 1..0 = {} /\ 1..0 \in SUBSET (1..n)
    OBVIOUS
  <2> QED BY <2>1, <1>6
<1>9. ASSUME NEW i \in 1..n PROVE U[1..i] = Propagated(h, U[1..(i - 1)])
  <2> DEFINE s == 1..i
  <2>1. Max(s) = i /\ s \ {i} = 1..(i - 1) /\ s \in SUBSET (1..n) /\ s # {}
    BY FoldSteps
  <2> HIDE DEF s
  <2>2. U[s] = Propagated(h, U[s \ {Max(s)}])
    BY <2>1, <1>6
  <2> QED BY <2>1, <2>2 DEF s
<1>10. W[0] = m /\ W[n] = U[1..n] /\ \A i \in 1..n : W[i] = Propagated(h, W[i - 1])
  BY <1>8, <1>9
<1> HIDE DEF W
<1> DEFINE A == {j \in 0..n : W[j] \in M}
<1>11. ASSUME NEW i \in 1..n, i - 1 \in A PROVE i \in A
  <2>1. W[i - 1] \in M /\ W[i] = Propagated(h, W[i - 1])
    BY <1>10, <1>11
  <2>2. W[i] \in M
    <3> HIDE DEF A
    <3> QED BY <2>1
  <2> QED BY <2>2
<1>12. 0 \in A
  BY <1>10
<1> HIDE DEF A
<1>13. \A i \in 0..n : i \in A
  BY <1>12, <1>11, Induct
<1>14. \A i \in 0..n : W[i] \in M
  BY <1>13 DEF A
<1> QED BY <1>7, <1>10, <1>14 DEF PropagateAllTrace

(* The same of MarkTmu.                                                    *)
MarkTmuTrace(h, m, seq, M, n, W) ==
                /\ W[0] = m /\ MarkTmu(h, m, seq) = W[n]
                /\ \A i \in 1..n : W[i] = MarkedAgain(h, W[i - 1], seq[i])
                /\ \A i \in 0..n : W[i] \in M

(* MarkTmu, and the states between its steps.                              *)
LEMMA MarkTmuSteps ==
  ASSUME NEW h, NEW M, NEW m \in M, NEW n \in Nat, NEW seq, DOMAIN seq = 1..n,
         \A x \in M, i \in 1..n : MarkedAgain(h, x, seq[i]) \in M
  PROVE  \E W : MarkTmuTrace(h, m, seq, M, n, W)
<1> DEFINE F == [p \in M \X (1..n) |-> MarkedAgain(h, p[1], seq[p[2]])]
           Eq(V) == V = [s \in SUBSET (1..n) |-> IF s = {} THEN m
                                                 ELSE MarkedAgain(h, V[s \ {Max(s)}], seq[Max(s)])]
           U == CHOOSE V : Eq(V)
           W == [i \in 0..n |-> U[1..i]]
<1>1. \A x \in M, i \in 1..n : F[<<x, i>>] = MarkedAgain(h, x, seq[i])
  OBVIOUS
<1> HIDE DEF F
<1>2. \A x \in M, i \in 1..n : F[<<x, i>>] \in M
  BY <1>1
<1>3. PICK V \in [SUBSET (1..n) -> M] : IsFold(V, m, n, F)
  BY <1>2, FoldExists
<1>4. \A s \in SUBSET (1..n) : s # {} => V[s \ {Max(s)}] \in M /\ Max(s) \in 1..n
  BY MaxIn
<1>5. Eq(V)
  BY <1>1, <1>3, <1>4 DEF IsFold
<1>6. Eq(U)
  BY <1>5, Zenon
<1>7. MarkTmu(h, m, seq) = U[1..n]
  BY DEF MarkTmu, MarkedAgain, FoldLeft, MapThenFoldSet
<1> HIDE DEF U
<1>8. U[1..0] = m
  <2>1. 1..0 = {} /\ 1..0 \in SUBSET (1..n)
    OBVIOUS
  <2> QED BY <2>1, <1>6
<1>9. ASSUME NEW i \in 1..n PROVE U[1..i] = MarkedAgain(h, U[1..(i - 1)], seq[i])
  <2> DEFINE s == 1..i
  <2>1. Max(s) = i /\ s \ {i} = 1..(i - 1) /\ s \in SUBSET (1..n) /\ s # {}
    BY FoldSteps
  <2> HIDE DEF s
  <2>2. U[s] = MarkedAgain(h, U[s \ {Max(s)}], seq[Max(s)])
    BY <2>1, <1>6
  <2> QED BY <2>1, <2>2 DEF s
<1>10. W[0] = m /\ W[n] = U[1..n] /\ \A i \in 1..n : W[i] = MarkedAgain(h, W[i - 1], seq[i])
  BY <1>8, <1>9
<1> HIDE DEF W
<1> DEFINE A == {j \in 0..n : W[j] \in M}
<1>11. ASSUME NEW i \in 1..n, i - 1 \in A PROVE i \in A
  <2>1. W[i - 1] \in M /\ W[i] = MarkedAgain(h, W[i - 1], seq[i])
    BY <1>10, <1>11
  <2>2. W[i] \in M
    <3> HIDE DEF A
    <3> QED BY <2>1
  <2> QED BY <2>2
<1>12. 0 \in A
  BY <1>10
<1> HIDE DEF A
<1>13. \A i \in 0..n : i \in A
  BY <1>12, <1>11, Induct
<1>14. \A i \in 0..n : W[i] \in M
  BY <1>13 DEF A
<1> QED BY <1>7, <1>10, <1>14 DEF MarkTmuTrace

(* The same of SweepList.                                                  *)
SweepTrace(h, m, c, M, n, W) ==
                /\ W[0] = c /\ SweepList(h, m) = W[n]
                /\ \A i \in 1..n : W[i] = SweepOne(W[i - 1])
                /\ \A i \in 0..n : W[i] \in M

(* SweepList, and the states between its steps.                            *)
LEMMA SweepSteps ==
  ASSUME NEW M, NEW c \in M, NEW n \in Nat, n = SweepMax, NEW h, NEW m, c = [heap |-> h, g |-> m],
         \A x \in M, i \in 1..n : SweepOne(x) \in M
  PROVE  \E W : SweepTrace(h, m, c, M, n, W)
<1> DEFINE F == [p \in M \X (1..n) |-> SweepOne(p[1])]
           Eq(V) == V = [s \in SUBSET (1..n) |-> IF s = {} THEN c
                                                 ELSE SweepOne(V[s \ {Max(s)}])]
           U == CHOOSE V : Eq(V)
           W == [i \in 0..n |-> U[1..i]]
<1>1. \A x \in M, i \in 1..n : F[<<x, i>>] = SweepOne(x)
  OBVIOUS
<1> HIDE DEF F
<1>2. \A x \in M, i \in 1..n : F[<<x, i>>] \in M
  BY <1>1
<1>3. PICK V \in [SUBSET (1..n) -> M] : IsFold(V, c, n, F)
  BY <1>2, FoldExists
<1>4. \A s \in SUBSET (1..n) : s # {} => V[s \ {Max(s)}] \in M /\ Max(s) \in 1..n
  BY MaxIn
<1>5. Eq(V)
  BY <1>1, <1>3, <1>4 DEF IsFold
<1>6. Eq(U)
  BY <1>5, Zenon
<1>7. SweepList(h, m) = U[1..n]
  BY DEF SweepList, FoldLeft, MapThenFoldSet
<1> HIDE DEF U
<1>8. U[1..0] = c
  <2>1. 1..0 = {} /\ 1..0 \in SUBSET (1..n)
    OBVIOUS
  <2> QED BY <2>1, <1>6
<1>9. ASSUME NEW i \in 1..n PROVE U[1..i] = SweepOne(U[1..(i - 1)])
  <2> DEFINE s == 1..i
  <2>1. Max(s) = i /\ s \ {i} = 1..(i - 1) /\ s \in SUBSET (1..n) /\ s # {}
    BY FoldSteps
  <2> HIDE DEF s
  <2>2. U[s] = SweepOne(U[s \ {Max(s)}])
    BY <2>1, <1>6
  <2> QED BY <2>1, <2>2 DEF s
<1>10. W[0] = c /\ W[n] = U[1..n] /\ \A i \in 1..n : W[i] = SweepOne(W[i - 1])
  BY <1>8, <1>9
<1> HIDE DEF W
<1> DEFINE A == {j \in 0..n : W[j] \in M}
<1>11. ASSUME NEW i \in 1..n, i - 1 \in A PROVE i \in A
  <2>1. W[i - 1] \in M /\ W[i] = SweepOne(W[i - 1])
    BY <1>10, <1>11
  <2>2. W[i] \in M
    <3> HIDE DEF A
    <3> QED BY <2>1
  <2> QED BY <2>2
<1>12. 0 \in A
  BY <1>10
<1> HIDE DEF A
<1>13. \A i \in 0..n : i \in A
  BY <1>12, <1>11, Induct
<1>14. \A i \in 0..n : W[i] \in M
  BY <1>13 DEF A
<1> QED BY <1>7, <1>10, <1>14 DEF SweepTrace

(* The same of Those.                                                      *)
ThoseTrace(S, seq, M, n, W) ==
                /\ W[0] = Nothing /\ Those(seq, S) = W[n]
                /\ \A i \in 1..n : W[i] = KeepsNext(S, W[i - 1], seq[i])
                /\ \A i \in 0..n : W[i] \in M

(* Those, and the lists it builds one after the other.                     *)
LEMMA ThoseSteps ==
  ASSUME NEW S, NEW M, Nothing \in M, NEW n \in Nat, NEW seq, DOMAIN seq = 1..n,
         \A x \in M, i \in 1..n : KeepsNext(S, x, seq[i]) \in M
  PROVE  \E W : ThoseTrace(S, seq, M, n, W)
<1> DEFINE F == [p \in M \X (1..n) |-> KeepsNext(S, p[1], seq[p[2]])]
           Eq(V) == V = [s \in SUBSET (1..n) |-> IF s = {} THEN Nothing
                                                 ELSE KeepsNext(S, V[s \ {Max(s)}], seq[Max(s)])]
           U == CHOOSE V : Eq(V)
           W == [i \in 0..n |-> U[1..i]]
<1>1. \A x \in M, i \in 1..n : F[<<x, i>>] = KeepsNext(S, x, seq[i])
  OBVIOUS
<1> HIDE DEF F
<1>2. \A x \in M, i \in 1..n : F[<<x, i>>] \in M
  BY <1>1
<1>3. PICK V \in [SUBSET (1..n) -> M] : IsFold(V, Nothing, n, F)
  BY <1>2, FoldExists
<1>4. \A s \in SUBSET (1..n) : s # {} => V[s \ {Max(s)}] \in M /\ Max(s) \in 1..n
  BY MaxIn
<1>5. Eq(V)
  BY <1>1, <1>3, <1>4 DEF IsFold
<1>6. Eq(U)
  BY <1>5, Zenon
<1>7. Those(seq, S) = U[1..n]
  BY DEF Those, KeepsNext, Nothing, FoldLeft, MapThenFoldSet
<1> HIDE DEF U
<1>8. U[1..0] = Nothing
  <2>1. 1..0 = {} /\ 1..0 \in SUBSET (1..n)
    OBVIOUS
  <2> QED BY <2>1, <1>6
<1>9. ASSUME NEW i \in 1..n PROVE U[1..i] = KeepsNext(S, U[1..(i - 1)], seq[i])
  <2> DEFINE s == 1..i
  <2>1. Max(s) = i /\ s \ {i} = 1..(i - 1) /\ s \in SUBSET (1..n) /\ s # {}
    BY FoldSteps
  <2> HIDE DEF s
  <2>2. U[s] = KeepsNext(S, U[s \ {Max(s)}], seq[Max(s)])
    BY <2>1, <1>6
  <2> QED BY <2>1, <2>2 DEF s
<1>10. W[0] = Nothing /\ W[n] = U[1..n] /\ \A i \in 1..n : W[i] = KeepsNext(S, W[i - 1], seq[i])
  BY <1>8, <1>9
<1> HIDE DEF W
<1> DEFINE A == {j \in 0..n : W[j] \in M}
<1>11. ASSUME NEW i \in 1..n, i - 1 \in A PROVE i \in A
  <2>1. W[i - 1] \in M /\ W[i] = KeepsNext(S, W[i - 1], seq[i])
    BY <1>10, <1>11
  <2>2. W[i] \in M
    <3> HIDE DEF A
    <3> QED BY <2>1
  <2> QED BY <2>2
<1>12. 0 \in A
  BY <1>10
<1> HIDE DEF A
<1>13. \A i \in 0..n : i \in A
  BY <1>12, <1>11, Induct
<1>14. \A i \in 0..n : W[i] \in M
  BY <1>13 DEF A
<1> QED BY <1>7, <1>10, <1>14 DEF ThoseTrace

(* Those keeps the elements that are in S, and none of them twice.         *)
LEMMA Filtered ==
  ASSUME NEW X, NEW a \in Seq(X), NEW S
  PROVE  /\ Those(a, S) \in Seq(X) /\ Range(Those(a, S)) = Range(a) \cap S
         /\ IsInjective(a) => IsInjective(Those(a, S))
<1> DEFINE n == Len(a)
           OK(i, w) == /\ w \in Seq(X)
                       /\ \A x : x \in Range(w) <=> x \in S /\ \E j \in 1..i : a[j] = x
                       /\ IsInjective(a) => IsInjective(w)
<1>1. n \in Nat /\ DOMAIN a = 1..n /\ \A i \in 1..n : a[i] \in X
  OBVIOUS
<1>2. <<>> \in Seq(X)
  OBVIOUS
<1> DEFINE M == Seq(X)
<1>3. \A x \in M, i \in 1..n : KeepsNext(S, x, a[i]) \in M
  BY <1>1 DEF KeepsNext
<1> HIDE DEF n, M
<1>4. \E W : ThoseTrace(S, a, M, n, W)
  <2>1. Nothing \in M
    BY <1>2 DEF M, Nothing
  <2> QED BY <2>1, <1>1, <1>3, ThoseSteps
<1>5. PICK W : /\ W[0] = Nothing /\ Those(a, S) = W[n]
               /\ \A i \in 1..n : W[i] = KeepsNext(S, W[i - 1], a[i])
               /\ \A i \in 0..n : W[i] \in M
  BY <1>4 DEF ThoseTrace
<1> DEFINE A == {i \in 0..n : OK(i, W[i])}
<1>6. OK(0, <<>>)
  BY <1>2, Empty
<1> HIDE DEF OK
<1>7. 0 \in A
  BY <1>1, <1>5, <1>6 DEF Nothing
<1> USE DEF OK
<1>8. ASSUME NEW i \in 1..n, i - 1 \in A
      PROVE  i \in A
  <2> DEFINE w == W[i - 1]
             v == W[i]
  <2>1. OK(i - 1, w) /\ i - 1 \in Nat /\ i \in Nat
    BY <1>1, <1>8
  <2>2. \A j : j \in 1..i <=> j \in 1..(i - 1) \/ j = i
    BY <1>1
  <2>3. CASE a[i] \notin S
    <3>1. v = w
      BY <2>3, <1>5 DEF KeepsNext
    <3>2. OK(i, w)
      BY <2>1, <2>2, <2>3
    <3> QED BY <3>1, <3>2
  <2>4. CASE a[i] \in S
    <3> DEFINE e == <<a[i]>>
    <3>1. v = Append(w, a[i]) /\ w \in Seq(X) /\ a[i] \in X
      BY <2>1, <2>4, <1>1, <1>5 DEF KeepsNext, M
    <3>2. v = w \o e /\ w \in Seq(X) /\ e \in Seq(X)
      BY <3>1, AppendIsConcat
    <3>3. Range(e) = {a[i]} /\ IsInjective(e)
      BY <1>1, Single
    <3> HIDE DEF w, v, e
    <3>4. /\ v \in Seq(X) /\ Range(v) = Range(w) \cup {a[i]}
          /\ IsInjective(v) <=> IsInjective(w) /\ IsInjective(e) /\ Range(w) \cap {a[i]} = {}
      BY <3>2, <3>3, Joined
    <3>5. \A x : x \in Range(v) <=> x \in S /\ \E j \in 1..i : a[j] = x
      BY <3>4, <2>1, <2>2, <2>4
    <3>6. ASSUME IsInjective(a) PROVE a[i] \notin Range(w)
      <4>1. \A j \in 1..(i - 1) : j \in DOMAIN a /\ i \in DOMAIN a /\ j # i
        BY <1>1, <2>1
      <4>2. \A j \in 1..(i - 1) : a[j] # a[i]
        BY <4>1, <3>6 DEF IsInjective
      <4> QED BY <4>2, <2>1
    <3>7. IsInjective(a) => IsInjective(v)
      BY <3>3, <3>4, <3>6, <2>1
    <3> QED BY <3>4, <3>5, <3>7 DEF v
  <2> QED BY <2>3, <2>4
<1> HIDE DEF A
<1>9. n \in A
  BY <1>1, <1>7, <1>8, Induct
<1>10. OK(n, Those(a, S))
  BY <1>5, <1>9 DEF A
<1> QED BY <1>1, <1>10 DEF Range

-----------------------------------------------------------------------------
(* The inductive invariant.                                                *)

(* An object the sweep will not free.                                      *)
Live(m, s) == m.marked[s] \notin {"none", OtherWhite(m)}

Flags == SUBSET {"k", "v", "gc"}
Pointers == Slots \cup {Nil}
TableObjects == [tt : {"table"}, flags : Flags, meta : Pointers,
                 entries : UNION {[D -> Values] : D \in SUBSET Values}]
UserdataObjects == [tt : {"userdata"}, meta : Pointers, finalized : BOOLEAN]
StringObjects == [tt : {"string"}, text : Texts]
FunctionObjects == [tt : {"function"}, upvals : Seq(Slots)]
UpvalObjects == [tt : {"upval"}, open : BOOLEAN, thread : Slots, level : Registers, value : Values]
ThreadObjects == [tt : {"thread"}, stack : [Registers -> Values], resumed : Pointers,
                  openupval : Seq(Slots)]
FreeObjects == {Free}
Objects == TableObjects \cup UserdataObjects \cup StringObjects \cup FunctionObjects
             \cup UpvalObjects \cup ThreadObjects \cup FreeObjects
Marks == Colours \cup {"none"}
Whites == {"white0", "white1"}
GcStates == {"pause", "propagate", "sweepstring", "sweep", "finalize"}
Fulls == {"no", "sweep", "mark"}
Collectors == [marked : [Slots -> Marks], currentwhite : Whites, gcstate : GcStates, full : Fulls,
               gray : SlotSeqs, grayagain : SlotSeqs, weak : SlotSeqs, rootgc : SlotSeqs,
               sweepgc : Nat, sweepstrgc : Nat]
Typed(h, m) ==
  /\ h \in [Slots -> Objects] /\ m \in Collectors
  /\ \A s \in Slots : m.marked[s] = "none" <=> h[s] = Free

(* What a live object points to is live, and of the right type.            *)
FirstClass == {"table", "userdata", "string", "function", "thread"}
Fine(h, m, v) == v \in Slots => Live(m, v) /\ h[v].tt \in FirstClass
FineMeta(h, m, v) == v \in Slots => Live(m, v) /\ h[v].tt = "table"
FineUpval(h, m, v) == Live(m, v) /\ h[v].tt = "upval"
Sound(h, m, s) ==
  /\ h[s].tt \in {"table", "userdata"} => FineMeta(h, m, h[s].meta)
  /\ h[s].tt = "table" => \A k \in DOMAIN h[s].entries : Fine(h, m, k) /\ Fine(h, m, h[s].entries[k])
  /\ h[s].tt = "function" => /\ h[s].upvals # <<>>
                             /\ \A u \in Range(h[s].upvals) : FineUpval(h, m, u)
  /\ h[s].tt = "upval" => Fine(h, m, UpvalValue(h, s))
  /\ h[s].tt = "thread" => /\ \A r \in Registers : Fine(h, m, h[s].stack[r])
                           /\ Fine(h, m, h[s].resumed)
Closed(h, m) == \A s \in Slots : Live(m, s) => Sound(h, m, s)

(* An open upvalue is in the list of its thread, and nowhere else.         *)
OpenIn(h, th, u) == h[u].tt = "upval" /\ h[u].open /\ h[u].thread = th
UpvalsOK(h) ==
  \A s \in Slots :
    /\ h[s].tt = "thread" => /\ IsInjective(h[s].openupval)
                             /\ \A u \in Range(h[s].openupval) : OpenIn(h, s, u)
    /\ (h[s].tt = "upval" /\ h[s].open) => /\ h[h[s].thread].tt = "thread"
                                         /\ s \in Range(h[h[s].thread].openupval)

(* Every object is where the sweep, or the finalizers, will find it.       *)
Listed(h, s) == h[s].tt \notin {"free", "string"} /\ ~(h[s].tt = "upval" /\ h[s].open)
Placed(h, m, tmu) ==
  /\ tmu \in SlotSeqs /\ IsInjective(m.rootgc) /\ IsInjective(tmu)
  /\ Range(m.rootgc) \cap Range(tmu) = {}
  /\ Range(m.rootgc) \cup Range(tmu) = {s \in Slots : Listed(h, s)}
  /\ \A u \in Range(tmu) : h[u].tt = "userdata" /\ h[u].finalized
  /\ h[Main].tt = "thread" /\ h[Globals].tt = "table"

RootsLive(h, m, tmu, cs) ==
  /\ Live(m, Main) /\ Live(m, Globals)
  /\ \A u \in Range(tmu) : Live(m, u)
  /\ cs \in SlotSeqs /\ cs # <<>> /\ cs[1] = Main /\ IsInjective(cs)
  /\ \A i \in DOMAIN cs : Live(m, cs[i]) /\ h[cs[i]].tt = "thread"
  /\ \A i \in 1..Len(cs) - 1 : h[cs[i]].resumed = cs[i + 1]

(* What can be black; what is in the lists of the mark phase.              *)
Blackens(h, s) == h[s].tt \in {"table", "function", "userdata"} \/ (h[s].tt = "upval" /\ ~h[s].open)
Traversed(h, s) == h[s].tt \in {"table", "function", "thread"}
Grayens(h, s) == h[s].tt = "string" \/ (h[s].tt = "upval" /\ h[s].open) \/ Traversed(h, s)
InLists(m) == m.gray \o m.grayagain \o m.weak
Lists(h, m) ==
  /\ \A s \in Slots : /\ m.marked[s] = "black" => Blackens(h, s)
                      /\ m.marked[s] = "gray" => Grayens(h, s)
  /\ m.gcstate # "propagate" => InLists(m) = <<>>
  /\ IsInjective(InLists(m))
  /\ \A s \in Range(InLists(m)) : m.marked[s] = "gray" /\ Traversed(h, s)

(* The parts for each state of the cycle.                                  *)
GrayListed(h, m) ==
  \A s \in Slots : m.marked[s] = "gray" =>
    h[s].tt = "string" \/ (h[s].tt = "upval" /\ h[s].open) \/ s \in Range(InLists(m))
NoBlackToWhite(h, m, except) ==
  \A s \in Slots \ except : m.marked[s] = "black" => \A v \in Held(h, s) : ~IsWhite(m, v)
Marking(h, m, tmu) ==
  /\ \A s \in Slots : ~IsDead(m, s)
  /\ ~IsWhite(m, Main) /\ ~IsWhite(m, Globals)
  /\ GrayListed(h, m)
  /\ NoBlackToWhite(h, m, Range(tmu))
  /\ m.full = "no" => tmu = <<>>
Swept(m, s) == m.marked[s] = m.currentwhite
SweptStrings(h, m, n) ==
  \A s \in Slots : h[s].tt = "string" /\ h[s].text \in 1..n => Swept(m, s)
SweptList(h, m, n) ==
  \A i \in DOMAIN m.rootgc : i < n =>
    /\ Swept(m, m.rootgc[i])
    /\ h[m.rootgc[i]].tt = "thread" => \A u \in Range(h[m.rootgc[i]].openupval) : Swept(m, u)
DeadFinalized(h, m) == \A s \in Slots : h[s].tt = "userdata" /\ IsDead(m, s) => h[s].finalized
AllSwept(h, m, tmu) == \A s \in Slots \ Range(tmu) : h[s].tt # "free" => Swept(m, s)
Cycle(h, m, tmu) ==
  /\ m.gcstate = "propagate" => Marking(h, m, tmu)
  /\ m.gcstate = "sweepstring" => SweptStrings(h, m, m.sweepstrgc) /\ m.sweepgc = 1
  /\ m.gcstate = "sweep" => /\ SweptStrings(h, m, Cardinality(Texts))
                            /\ SweptList(h, m, m.sweepgc)
                            /\ m.sweepgc \in 1..Len(m.rootgc) + 1
  /\ m.gcstate \in {"sweepstring", "sweep"} => DeadFinalized(h, m)
  /\ m.gcstate = "finalize" => AllSwept(h, m, tmu)
  /\ m.gcstate = "pause" => AllSwept(h, m, tmu) /\ tmu = <<>>

State ==
  /\ callers \in SlotSeqs /\ tmudata \in SlotSeqs /\ phase \in {"open", "closing", "closed"}
  /\ called \subseteq Slots /\ doomed \subseteq Slots /\ does \in Repertoires
HeapInv(h, m, tmu, cs) ==
  Closed(h, m) /\ UpvalsOK(h) /\ Placed(h, m, tmu) /\ RootsLive(h, m, tmu, cs) /\ Lists(h, m)
IInv ==
  /\ State /\ Typed(heap, g)
  /\ callers # <<>> /\ callers[1] = Main
  /\ phase # "closed" => HeapInv(heap, g, tmudata, callers)
  /\ phase = "open" => Cycle(heap, g, tmudata)
  /\ phase = "closed" => g.gcstate = "pause"

(* The invariant of a heap h, a collector m, the list of userdata to       *)
(* finalize tmu and the threads cs that wait for one another, in phase p.  *)
Good(h, m, tmu, cs, p) ==
  Typed(h, m) /\ HeapInv(h, m, tmu, cs) /\ (p = "open" => Cycle(h, m, tmu))

-----------------------------------------------------------------------------
(* Objects of each kind.                                                   *)
LEMMA Kinds ==
  ASSUME NEW o \in Objects
  PROVE  /\ o.tt = "free" <=> o = Free
         /\ o.tt = "table" => o \in TableObjects
         /\ o.tt = "userdata" => o \in UserdataObjects
         /\ o.tt = "string" => o \in StringObjects
         /\ o.tt = "function" => o \in FunctionObjects
         /\ o.tt = "upval" => o \in UpvalObjects
         /\ o.tt = "thread" => o \in ThreadObjects
BY DEF Objects, Free, TableObjects, UserdataObjects, StringObjects, FunctionObjects, UpvalObjects,
       ThreadObjects, FreeObjects

(* What an object of each kind has.                                        *)
LEMMA KindsAre ==
  ASSUME NEW o
  PROVE  /\ o \in TableObjects => o \in Objects /\ o.tt = "table" /\ o.flags \in Flags
                                  /\ o.meta \in Pointers /\ o.entries \in UNION {[D -> Values] : D \in SUBSET Values}
         /\ o \in UserdataObjects => o \in Objects /\ o.tt = "userdata" /\ o.meta \in Pointers
                                     /\ o.finalized \in BOOLEAN
         /\ o \in StringObjects => o \in Objects /\ o.tt = "string" /\ o.text \in Texts
         /\ o \in FunctionObjects => o \in Objects /\ o.tt = "function" /\ o.upvals \in Seq(Slots)
         /\ o \in UpvalObjects => o \in Objects /\ o.tt = "upval" /\ o.open \in BOOLEAN
                                  /\ o.thread \in Slots /\ o.level \in Registers /\ o.value \in Values
         /\ o \in ThreadObjects => o \in Objects /\ o.tt = "thread" /\ o.stack \in [Registers -> Values]
                                   /\ o.resumed \in Pointers /\ o.openupval \in Seq(Slots)
         /\ Free \in Objects /\ Free.tt = "free"
<1>1. o \in TableObjects => o \in Objects /\ o.tt = "table" /\ o.flags \in Flags
                            /\ o.meta \in Pointers /\ o.entries \in UNION {[D -> Values] : D \in SUBSET Values}
  BY DEF Objects, TableObjects
<1>2. o \in UserdataObjects => o \in Objects /\ o.tt = "userdata" /\ o.meta \in Pointers
                                     /\ o.finalized \in BOOLEAN
  BY DEF Objects, UserdataObjects
<1>3. o \in StringObjects => o \in Objects /\ o.tt = "string" /\ o.text \in Texts
  BY DEF Objects, StringObjects
<1>4. o \in FunctionObjects => o \in Objects /\ o.tt = "function" /\ o.upvals \in Seq(Slots)
  BY DEF Objects, FunctionObjects
<1>5. o \in UpvalObjects => o \in Objects /\ o.tt = "upval" /\ o.open \in BOOLEAN
                                  /\ o.thread \in Slots /\ o.level \in Registers /\ o.value \in Values
  BY DEF Objects, UpvalObjects
<1>6. o \in ThreadObjects => o \in Objects /\ o.tt = "thread" /\ o.stack \in [Registers -> Values]
                                   /\ o.resumed \in Pointers /\ o.openupval \in Seq(Slots)
  BY DEF Objects, ThreadObjects
<1>7. Free \in Objects /\ Free.tt = "free"
  BY DEF Objects, FreeObjects, Free
<1> QED BY <1>1, <1>2, <1>3, <1>4, <1>5, <1>6, <1>7

(* A change of the heap that leaves the kinds of the objects, the lists of *)
(* open upvalues and what the collector looks at alone.                    *)
Shape(h, k) ==
  \A s \in Slots :
    /\ k[s].tt = h[s].tt
    /\ h[s].tt = "thread" => k[s].openupval = h[s].openupval
    /\ h[s].tt = "upval" => k[s].open = h[s].open /\ k[s].thread = h[s].thread /\ k[s].level = h[s].level
    /\ h[s].tt = "string" => k[s].text = h[s].text
    /\ h[s].tt = "userdata" => k[s].finalized = h[s].finalized

(* The lists of the collector hold slots, and its cursors are numbers.     *)
LEMMA ListsAreOfSlots ==
  ASSUME NEW h, NEW m, Typed(h, m)
  PROVE  /\ m.gray \in Seq(Slots) /\ m.grayagain \in Seq(Slots) /\ m.weak \in Seq(Slots) /\ m.rootgc \in Seq(Slots)
         /\ InLists(m) \in Seq(Slots) /\ Range(InLists(m)) \subseteq Slots /\ Range(m.rootgc) \subseteq Slots
         /\ \A i \in DOMAIN m.rootgc : m.rootgc[i] \in Slots
         /\ m.sweepgc \in Nat /\ m.sweepstrgc \in Nat
         /\ \A s \in Slots : m.marked[s] \in Marks
         /\ \A s \in Slots : h[s] \in Objects
<1>1. m.gray \in Seq(Slots) /\ m.grayagain \in Seq(Slots) /\ m.weak \in Seq(Slots) /\ m.rootgc \in Seq(Slots)
  BY DEF Typed, Collectors, SlotSeqs
<1>2. InLists(m) \in Seq(Slots)
  BY <1>1 DEF InLists
<1>3. Range(InLists(m)) \subseteq Slots /\ Range(m.rootgc) \subseteq Slots
      /\ \A i \in DOMAIN m.rootgc : m.rootgc[i] \in Slots
  BY <1>1, <1>2, SeqParts
<1>4. m.sweepgc \in Nat /\ m.sweepstrgc \in Nat /\ \A s \in Slots : m.marked[s] \in Marks
  BY DEF Typed, Collectors
<1>5. \A s \in Slots : h[s] \in Objects
  BY DEF Typed
<1> QED BY <1>1, <1>2, <1>3, <1>4, <1>5

(* A change of Shape leaves open upvalues, lists and the objects' places   *)
(* right.                                                                  *)
LEMMA Reshaped ==
  ASSUME NEW h, NEW k, NEW m, NEW tmu, NEW cs, NEW c2, NEW p,
         Good(h, m, tmu, cs, p), k \in [Slots -> Objects], Shape(h, k),
         Closed(k, m), RootsLive(k, m, tmu, c2),
         (p = "open" /\ m.gcstate = "propagate") => NoBlackToWhite(k, m, Range(tmu))
  PROVE  Good(k, m, tmu, c2, p)
<1>1. Typed(h, m) /\ HeapInv(h, m, tmu, cs)
  BY DEF Good
<1>2. Typed(k, m)
  <2>1. \A s \in Slots : h[s] \in Objects /\ k[s] \in Objects
    BY <1>1, ListsAreOfSlots
  <2>2. \A s \in Slots : k[s] = Free <=> h[s] = Free
    BY <2>1, Kinds DEF Shape
  <2> QED BY <2>2, <1>1 DEF Typed
<1>3. UpvalsOK(k)
  <2>1. UpvalsOK(h)
    BY <1>1 DEF HeapInv
  <2>2. \A s \in Slots : h[s].tt = "thread" => Range(h[s].openupval) \subseteq Slots
    BY <1>1, Kinds, KindsAre, ListsAreOfSlots, SeqParts
  <2>3. \A s \in Slots : h[s].tt = "upval" => h[s].thread \in Slots
    BY <1>1, Kinds, KindsAre, ListsAreOfSlots
  <2> QED BY <2>1, <2>2, <2>3 DEF Shape, UpvalsOK, OpenIn
<1>4. Placed(k, m, tmu)
  <2>1. Placed(h, m, tmu)
    BY <1>1 DEF HeapInv
  <2>2. \A s \in Slots : Listed(k, s) <=> Listed(h, s)
    BY DEF Shape, Listed
  <2>3. Range(tmu) \subseteq Slots
    BY <2>1 DEF Placed
  <2>4. {s \in Slots : Listed(k, s)} = {s \in Slots : Listed(h, s)}
    BY <2>2
  <2>5. \A u \in Range(tmu) : k[u].tt = "userdata" /\ k[u].finalized
    BY <2>1, <2>3 DEF Placed, Shape
  <2>6. k[Main].tt = "thread" /\ k[Globals].tt = "table"
    BY <2>1, HeapAssumption DEF Placed, Shape
  <2> QED BY <2>1, <2>4, <2>5, <2>6 DEF Placed
<1>5. Lists(k, m)
  <2>1. Lists(h, m)
    BY <1>1 DEF HeapInv
  <2>2. Range(InLists(m)) \subseteq Slots
    BY <1>1, ListsAreOfSlots
  <2> QED BY <2>1, <2>2 DEF Lists, Shape, Blackens, Grayens, Traversed
<1>6. ASSUME p = "open" PROVE Cycle(k, m, tmu)
  <2>1. Cycle(h, m, tmu)
    BY <1>6 DEF Good
  <2>2. ASSUME m.gcstate = "propagate" PROVE Marking(k, m, tmu)
    BY <1>6, <2>1, <2>2 DEF Cycle, Marking, GrayListed, Shape
  <2>3. ASSUME NEW n, SweptStrings(h, m, n) PROVE SweptStrings(k, m, n)
    BY <2>3 DEF SweptStrings, Shape
  <2>4. ASSUME NEW n, SweptList(h, m, n) PROVE SweptList(k, m, n)
    <3>1. \A i \in DOMAIN m.rootgc : m.rootgc[i] \in Slots
      BY <1>1, ListsAreOfSlots
    <3> QED BY <2>4, <3>1 DEF SweptList, Shape
  <2>5. DeadFinalized(h, m) => DeadFinalized(k, m)
    BY DEF DeadFinalized, Shape
  <2>6. AllSwept(h, m, tmu) => AllSwept(k, m, tmu)
    BY DEF AllSwept, Shape
  <2> QED BY <2>1, <2>2, <2>3, <2>4, <2>5, <2>6 DEF Cycle
<1> QED BY <1>2, <1>3, <1>4, <1>5, <1>6 DEF Good, HeapInv

(* A change of Shape leaves every value as fine as it was.                 *)
LEMMA SameKinds ==
  ASSUME NEW h, NEW k, NEW m, Shape(h, k)
  PROVE  /\ \A v : Fine(k, m, v) <=> Fine(h, m, v)
         /\ \A v : FineMeta(k, m, v) <=> FineMeta(h, m, v)
         /\ \A v \in Slots : FineUpval(k, m, v) <=> FineUpval(h, m, v)
<1>1. \A v : Fine(k, m, v) <=> Fine(h, m, v)
  BY DEF Fine, Shape
<1>2. \A v : FineMeta(k, m, v) <=> FineMeta(h, m, v)
  BY DEF FineMeta, Shape
<1>3. \A v \in Slots : FineUpval(k, m, v) <=> FineUpval(h, m, v)
  BY DEF FineUpval, Shape
<1> QED BY <1>1, <1>2, <1>3

(* An object that a change of Shape leaves alone stays sound.              *)
LEMMA StillSound ==
  ASSUME NEW h, NEW k, NEW m, NEW s \in Slots, Shape(h, k), h[s] \in Objects, k[s] = h[s], Sound(h, m, s),
         h[s].tt = "upval" => Fine(h, m, UpvalValue(k, s))
  PROVE  Sound(k, m, s)
<1>1. h[s].tt = "function" => \A u \in Range(h[s].upvals) : u \in Slots
  BY Kinds, KindsAre, SeqParts
<1> QED BY <1>1, SameKinds DEF Sound

(* The roots stay live: a change of Shape takes no thread from callers.    *)
LEMMA StillRoots ==
  ASSUME NEW h, NEW k, NEW m, NEW tmu, NEW cs, Shape(h, k), RootsLive(h, m, tmu, cs),
         \A s \in Slots : h[s].tt = "thread" => k[s].resumed = h[s].resumed
  PROVE  RootsLive(k, m, tmu, cs)
<1>1. cs \in Seq(Slots)
  BY DEF RootsLive, SlotSeqs
<1>2. \A i \in DOMAIN cs : cs[i] \in Slots
  BY <1>1
<1>3. \A i \in DOMAIN cs : k[cs[i]].tt = "thread"
  BY <1>2 DEF RootsLive, Shape
<1>4. \A i \in 1..Len(cs) - 1 : i \in DOMAIN cs
  BY <1>1
<1>5. \A i \in 1..Len(cs) - 1 : k[cs[i]].resumed = cs[i + 1]
  BY <1>2, <1>4 DEF RootsLive
<1> QED BY <1>3, <1>5 DEF RootsLive

(* What is held by an object that a write leaves alone.                    *)
LEMMA SameHeld ==
  ASSUME NEW h, NEW k, NEW s \in Slots, k[s] = h[s], h[s].tt = "upval" => UpvalValue(k, s) = UpvalValue(h, s)
  PROVE  Held(k, s) = Held(h, s)
BY DEF Held

(* Threads and open upvalues are never black: they are written to without  *)
(* a barrier.                                                              *)
LEMMA Blackened ==
  ASSUME NEW h, NEW m, NEW tmu, NEW cs, HeapInv(h, m, tmu, cs), NEW s \in Slots, m.marked[s] = "black"
  PROVE  Blackens(h, s) /\ h[s].tt # "thread" /\ ~(h[s].tt = "upval" /\ h[s].open)
BY DEF HeapInv, Lists, Blackens

(* The parts of an upvalue.                                                *)
LEMMA OpenUpvalThread ==
  ASSUME NEW h, NEW m, NEW tmu, NEW cs, NEW p, Good(h, m, tmu, cs, p), NEW s \in Slots, h[s].tt = "upval"
  PROVE  /\ h[s].thread \in Slots /\ h[s].level \in Registers /\ h[s].open \in BOOLEAN /\ h[s].value \in Values
         /\ h[s].open => h[h[s].thread].tt = "thread"
<1>1. h[s] \in UpvalObjects
  BY Kinds, ListsAreOfSlots DEF Good
<1> QED BY <1>1, KindsAre DEF Good, HeapInv, UpvalsOK

(* A register of a thread may take any live value: it needs no barrier,    *)
(* whatever the collector does.                                            *)
LEMMA StackWritten ==
  ASSUME NEW h, NEW m, NEW tmu, NEW cs, NEW p, Good(h, m, tmu, cs, p),
         NEW th \in Slots, h[th].tt = "thread", NEW r \in Registers, NEW v \in Values, Fine(h, m, v)
  PROVE  Good([h EXCEPT ![th].stack[r] = v], m, tmu, cs, p)
<1> DEFINE k == [h EXCEPT ![th].stack[r] = v]
<1>1. /\ Typed(h, m) /\ HeapInv(h, m, tmu, cs) /\ h \in [Slots -> Objects]
      /\ \A s \in Slots : h[s] \in Objects
  BY ListsAreOfSlots DEF Good, Typed
<1>2. h[th] \in ThreadObjects
  BY <1>1, Kinds
<1>3. [h[th] EXCEPT !.stack[r] = v] \in ThreadObjects
  BY <1>2 DEF ThreadObjects
<1>4. k \in [Slots -> Objects]
  BY <1>1, <1>3, KindsAre
<1>5. /\ \A s \in Slots \ {th} : k[s] = h[s]
      /\ k[th].tt = "thread" /\ k[th].openupval = h[th].openupval /\ k[th].resumed = h[th].resumed
      /\ k[th].stack[r] = v /\ \A q \in Registers \ {r} : k[th].stack[q] = h[th].stack[q]
  BY <1>1, <1>2 DEF ThreadObjects
<1> HIDE DEF k
<1>6. Shape(h, k)
  BY <1>5 DEF Shape
<1>7. Closed(k, m)
  <2> SUFFICES ASSUME NEW s \in Slots, Live(m, s) PROVE Sound(k, m, s)
    BY DEF Closed
  <2>1. Sound(h, m, s)
    BY <1>1 DEF HeapInv, Closed
  <2>2. CASE s = th
    <3>1. \A q \in Registers : Fine(h, m, k[s].stack[q])
      BY <1>5, <2>1, <2>2 DEF Sound
    <3> QED BY <3>1, <2>1, <2>2, <1>5, <1>6, SameKinds DEF Sound
  <2>3. CASE s # th
    <3>1. ASSUME h[s].tt = "upval" PROVE Fine(h, m, UpvalValue(k, s))
      <4>1. /\ h[s].thread \in Slots /\ h[s].level \in Registers /\ h[s].open \in BOOLEAN
            /\ Fine(h, m, UpvalValue(h, s))
        BY <2>1, <3>1, OpenUpvalThread DEF Sound
      <4>2. UpvalValue(k, s) \in {UpvalValue(h, s), v}
        <5>1. k[s] = h[s] /\ h[s].thread \in Slots /\ h[s].level \in Registers
          BY <1>5, <2>3, <4>1
        <5>2. CASE ~h[s].open
          BY <5>1, <5>2 DEF UpvalValue
        <5>3. CASE h[s].open /\ h[s].thread # th
          <6>1. k[h[s].thread] = h[h[s].thread]
            BY <5>1, <5>3, <1>5
          <6> QED BY <5>1, <5>3, <6>1 DEF UpvalValue
        <5>4. CASE h[s].open /\ h[s].thread = th
          BY <5>1, <5>4, <1>5 DEF UpvalValue
        <5> QED BY <5>2, <5>3, <5>4, <4>1
      <4> QED BY <4>1, <4>2
    <3> QED BY <3>1, <2>1, <2>3, <1>1, <1>5, <1>6, StillSound
  <2> QED BY <2>2, <2>3
<1>8. RootsLive(k, m, tmu, cs)
  BY <1>1, <1>5, <1>6, StillRoots DEF HeapInv
<1>9. ASSUME p = "open", m.gcstate = "propagate" PROVE NoBlackToWhite(k, m, Range(tmu))
  <2> SUFFICES ASSUME NEW s \in Slots \ Range(tmu), m.marked[s] = "black", NEW w \in Held(k, s)
               PROVE  ~IsWhite(m, w)
    BY DEF NoBlackToWhite
  <2>1. h[s].tt # "thread" /\ ~(h[s].tt = "upval" /\ h[s].open)
    BY <1>1, Blackened
  <2>2. s # th /\ k[s] = h[s] /\ (h[s].tt = "upval" => UpvalValue(k, s) = UpvalValue(h, s))
    BY <1>5, <2>1 DEF UpvalValue
  <2>3. w \in Held(h, s)
    BY <2>2, SameHeld
  <2> QED BY <2>3, <1>9 DEF Good, Cycle, Marking, NoBlackToWhite
<1> QED BY <1>4, <1>6, <1>7, <1>8, <1>9, Reshaped DEF k

(* An object other than a thread may become x when x is sound and, if the  *)
(* object is black while marking, holds nothing white.                     *)
LEMMA ObjectWritten ==
  ASSUME NEW h, NEW m, NEW tmu, NEW cs, NEW p, Good(h, m, tmu, cs, p),
         NEW o \in Slots, NEW x \in Objects, NEW k, k = [h EXCEPT ![o] = x], Shape(h, k), h[o].tt # "thread",
         Live(m, o) => Sound(k, m, o),
         (p = "open" /\ m.gcstate = "propagate" /\ m.marked[o] = "black") => \A v \in Held(k, o) : ~IsWhite(m, v)
  PROVE  Good(k, m, tmu, cs, p)
<1>1. /\ Typed(h, m) /\ HeapInv(h, m, tmu, cs) /\ h \in [Slots -> Objects]
      /\ \A s \in Slots : h[s] \in Objects
  BY ListsAreOfSlots DEF Good, Typed
<1>2. k \in [Slots -> Objects] /\ k[o] = x /\ \A s \in Slots \ {o} : k[s] = h[s]
  BY <1>1
<1>3. ASSUME NEW s \in Slots \ {o}, h[s].tt = "upval" PROVE UpvalValue(k, s) = UpvalValue(h, s)
  <2>1. h[s].thread \in Slots /\ h[s].open \in BOOLEAN /\ (h[s].open => h[h[s].thread].tt = "thread")
    BY <1>3, OpenUpvalThread
  <2> QED BY <2>1, <1>2 DEF UpvalValue
<1>4. Closed(k, m)
  <2> SUFFICES ASSUME NEW s \in Slots, Live(m, s), s # o PROVE Sound(k, m, s)
    BY DEF Closed
  <2>1. Sound(h, m, s)
    BY <1>1 DEF HeapInv, Closed
  <2>2. h[s].tt = "upval" => Fine(h, m, UpvalValue(k, s))
    BY <2>1, <1>3 DEF Sound
  <2> QED BY <2>1, <2>2, <1>1, <1>2, StillSound
<1>5. RootsLive(k, m, tmu, cs)
  BY <1>1, <1>2, StillRoots DEF HeapInv
<1>6. ASSUME p = "open", m.gcstate = "propagate" PROVE NoBlackToWhite(k, m, Range(tmu))
  <2> SUFFICES ASSUME NEW s \in Slots \ Range(tmu), m.marked[s] = "black", s # o, NEW w \in Held(k, s)
               PROVE  ~IsWhite(m, w)
    BY <1>6 DEF NoBlackToWhite
  <2>1. s \in Slots \ {o} /\ s \in Slots /\ k[s] = h[s]
    BY <1>2
  <2>2. w \in Held(h, s)
    BY <2>1, <1>3, SameHeld
  <2> QED BY <2>2, <1>6 DEF Good, Cycle, Marking, NoBlackToWhite
<1> QED BY <1>2, <1>4, <1>5, <1>6, Reshaped

(* v may be stored in o as far as the marks are concerned.                 *)
Allowed(m, p, o, v) ==
  (p = "open" /\ m.gcstate = "propagate" /\ m.marked[o] = "black") => (v \in Slots => ~IsWhite(m, v))

(* What an object holds already may be stored in it again.                 *)
LEMMA HeldAllowed ==
  ASSUME NEW h, NEW m, NEW tmu, NEW cs, NEW p, Good(h, m, tmu, cs, p), NEW o \in Slots, o \notin Range(tmu),
         NEW v, v \in Slots => v \in Held(h, o)
  PROVE  Allowed(m, p, o, v)
<1> SUFFICES ASSUME p = "open", m.gcstate = "propagate", m.marked[o] = "black", v \in Slots PROVE ~IsWhite(m, v)
  BY DEF Allowed
<1>1. NoBlackToWhite(h, m, Range(tmu))
  BY DEF Good, Cycle, Marking
<1> QED BY <1>1 DEF NoBlackToWhite

(* Only userdata wait for a finalizer.                                     *)
LEMMA NotFinalizing ==
  ASSUME NEW h, NEW m, NEW tmu, NEW cs, NEW p, Good(h, m, tmu, cs, p), NEW o, h[o].tt # "userdata"
  PROVE  o \notin Range(tmu)
BY DEF Good, HeapInv, Placed

(* The entries of a table may be replaced by values that are fine and      *)
(* allowed there.                                                          *)
LEMMA EntriesWritten ==
  ASSUME NEW h, NEW m, NEW tmu, NEW cs, NEW p, Good(h, m, tmu, cs, p), NEW t \in Slots, h[t].tt = "table",
         NEW D \in SUBSET Values, NEW new \in [D -> Values], Live(m, t),
         \A x \in D : Fine(h, m, x) /\ Fine(h, m, new[x]) /\ Allowed(m, p, t, x) /\ Allowed(m, p, t, new[x])
  PROVE  Good([h EXCEPT ![t].entries = new], m, tmu, cs, p)
<1> DEFINE x == [h[t] EXCEPT !.entries = new]
           k == [h EXCEPT ![t] = x]
<1>1. h \in [Slots -> Objects] /\ h[t] \in TableObjects
  BY Kinds DEF Good, Typed
<1>2. x \in TableObjects /\ x.entries = new /\ x.meta = h[t].meta
  BY <1>1 DEF TableObjects
<1>3. x \in Objects /\ x.tt = "table"
  BY <1>2, KindsAre
<1>4. k[t] = x /\ \A s \in Slots \ {t} : k[s] = h[s]
  BY <1>1
<1>5. [h EXCEPT ![t].entries = new] = k
  OBVIOUS
<1> HIDE DEF k, x
<1>6. Shape(h, k)
  BY <1>3, <1>4 DEF Shape
<1>7. Sound(h, m, t)
  BY DEF Good, HeapInv, Closed
<1>8. Sound(k, m, t)
  BY <1>2, <1>3, <1>4, <1>6, <1>7, SameKinds DEF Sound
<1>9. ASSUME p = "open", m.gcstate = "propagate", m.marked[t] = "black", NEW v \in Held(k, t)
      PROVE  ~IsWhite(m, v)
  <2>1. v \in Slots /\ (v = h[t].meta \/ v \in D \/ \E y \in D : v = new[y])
    BY <1>2, <1>3, <1>4 DEF Held, Range
  <2>2. CASE v = h[t].meta
    <3>1. v \in Held(h, t)
      BY <2>1, <2>2 DEF Held
    <3>2. t \notin Range(tmu)
      BY NotFinalizing
    <3>3. Allowed(m, p, t, v)
      BY <3>1, <3>2, HeldAllowed
    <3> QED BY <2>1, <3>3, <1>9 DEF Allowed
  <2>3. CASE v # h[t].meta
    BY <2>1, <2>3, <1>9 DEF Allowed
  <2> QED BY <2>2, <2>3
<1>10. k = [h EXCEPT ![t] = x]
  BY DEF k
<1>11. Good(k, m, tmu, cs, p)
  BY <1>3, <1>6, <1>8, <1>9, <1>10, ObjectWritten
<1> QED BY <1>5, <1>11

(* The metatable of a table or a userdata, likewise.                       *)
LEMMA MetaWritten ==
  ASSUME NEW h, NEW m, NEW tmu, NEW cs, NEW p, Good(h, m, tmu, cs, p), NEW t \in Slots,
         h[t].tt \in {"table", "userdata"}, NEW meta \in Pointers, FineMeta(h, m, meta), Live(m, t),
         Allowed(m, p, t, meta)
  PROVE  Good([h EXCEPT ![t].meta = meta], m, tmu, cs, p)
<1> DEFINE x == [h[t] EXCEPT !.meta = meta]
           k == [h EXCEPT ![t] = x]
<1>1. h \in [Slots -> Objects] /\ h[t] \in TableObjects \cup UserdataObjects
  BY Kinds DEF Good, Typed
<1>2. x \in TableObjects \cup UserdataObjects /\ x.meta = meta /\ x.tt = h[t].tt
  BY <1>1 DEF TableObjects, UserdataObjects
<1>3. x \in Objects /\ (x.tt = "table" => x.entries = h[t].entries) /\ (x.tt = "userdata" => x.finalized = h[t].finalized)
  BY <1>1, <1>2, KindsAre
<1>4. k[t] = x /\ \A s \in Slots \ {t} : k[s] = h[s]
  BY <1>1
<1>5. [h EXCEPT ![t].meta = meta] = k
  OBVIOUS
<1> HIDE DEF k, x
<1>6. Shape(h, k)
  BY <1>2, <1>3, <1>4 DEF Shape
<1>7. Sound(h, m, t)
  BY DEF Good, HeapInv, Closed
<1>8. Sound(k, m, t)
  BY <1>2, <1>3, <1>4, <1>6, <1>7, SameKinds DEF Sound
<1>9. ASSUME p = "open", m.gcstate = "propagate", m.marked[t] = "black", NEW v \in Held(k, t)
      PROVE  ~IsWhite(m, v)
  <2>1. v \in Slots /\ (v = meta \/ (h[t].tt = "table" /\ v \in Held(h, t)))
    BY <1>2, <1>3, <1>4 DEF Held
  <2>2. CASE v # meta
    <3>1. t \notin Range(tmu)
      BY <2>1, <2>2, NotFinalizing
    <3> QED BY <2>1, <2>2, <3>1, <1>9, HeldAllowed DEF Allowed
  <2>3. CASE v = meta
    BY <2>1, <2>3, <1>9 DEF Allowed
  <2> QED BY <2>2, <2>3
<1>10. k = [h EXCEPT ![t] = x]
  BY DEF k
<1>11. Good(k, m, tmu, cs, p)
  BY <1>2, <1>3, <1>6, <1>8, <1>9, <1>10, ObjectWritten
<1> QED BY <1>5, <1>11

(* The value of a closed upvalue, likewise.                                *)
LEMMA ValueWritten ==
  ASSUME NEW h, NEW m, NEW tmu, NEW cs, NEW p, Good(h, m, tmu, cs, p), NEW u \in Slots,
         h[u].tt = "upval", ~h[u].open, NEW v \in Values, Fine(h, m, v), Allowed(m, p, u, v)
  PROVE  Good([h EXCEPT ![u].value = v], m, tmu, cs, p)
<1> DEFINE x == [h[u] EXCEPT !.value = v]
           k == [h EXCEPT ![u] = x]
<1>1. h \in [Slots -> Objects] /\ h[u] \in UpvalObjects
  BY Kinds DEF Good, Typed
<1>2. x \in UpvalObjects /\ x.value = v /\ x.open = h[u].open /\ x.thread = h[u].thread /\ x.level = h[u].level
  BY <1>1 DEF UpvalObjects
<1>3. x \in Objects /\ x.tt = "upval"
  BY <1>2, KindsAre
<1>4. k[u] = x /\ \A s \in Slots \ {u} : k[s] = h[s]
  BY <1>1
<1>5. [h EXCEPT ![u].value = v] = k
  OBVIOUS
<1> HIDE DEF k, x
<1>6. Shape(h, k)
  BY <1>2, <1>3, <1>4 DEF Shape
<1>7. UpvalValue(k, u) = v
  BY <1>2, <1>4 DEF UpvalValue
<1>8. Sound(k, m, u)
  BY <1>3, <1>4, <1>6, <1>7, SameKinds DEF Sound
<1>9. ASSUME p = "open", m.gcstate = "propagate", m.marked[u] = "black", NEW w \in Held(k, u)
      PROVE  ~IsWhite(m, w)
  <2>1. w \in Slots /\ w = v
    BY <1>3, <1>4, <1>7 DEF Held
  <2> QED BY <2>1, <1>9 DEF Allowed
<1>10. k = [h EXCEPT ![u] = x]
  BY DEF k
<1>11. Good(k, m, tmu, cs, p)
  BY <1>3, <1>6, <1>8, <1>9, <1>10, ObjectWritten
<1> QED BY <1>5, <1>11

(* coroutine.resume and yield: the argument stays on the resumer's stack.  *)
LEMMA ResumedWritten ==
  ASSUME NEW h, NEW m, NEW tmu, NEW cs, NEW p, Good(h, m, tmu, cs, p),
         NEW th \in Slots, h[th].tt = "thread", NEW v \in Pointers, Fine(h, m, v), NEW c2,
         NEW k, k = [h EXCEPT ![th].resumed = v],
         Shape(h, k) => RootsLive(k, m, tmu, c2)
  PROVE  Good(k, m, tmu, c2, p)
<1>1. /\ Typed(h, m) /\ HeapInv(h, m, tmu, cs) /\ h \in [Slots -> Objects]
      /\ \A s \in Slots : h[s] \in Objects
  BY ListsAreOfSlots DEF Good, Typed
<1>2. h[th] \in ThreadObjects
  BY <1>1, Kinds
<1>3. [h[th] EXCEPT !.resumed = v] \in ThreadObjects
  BY <1>2 DEF ThreadObjects
<1>4. k \in [Slots -> Objects]
  BY <1>1, <1>3, KindsAre
<1>5. /\ \A s \in Slots \ {th} : k[s] = h[s]
      /\ k[th].tt = "thread" /\ k[th].openupval = h[th].openupval /\ k[th].resumed = v
      /\ k[th].stack = h[th].stack
  BY <1>1, <1>2 DEF ThreadObjects
<1>6. Shape(h, k)
  BY <1>5 DEF Shape
<1>7. \A s \in Slots : h[s].tt = "upval" => UpvalValue(k, s) = UpvalValue(h, s)
  <2> SUFFICES ASSUME NEW s \in Slots, h[s].tt = "upval" PROVE UpvalValue(k, s) = UpvalValue(h, s)
    OBVIOUS
  <2>1. h[s].thread \in Slots /\ h[s].open \in BOOLEAN /\ k[s] = h[s]
    BY <1>5, OpenUpvalThread
  <2>2. k[h[s].thread].stack = h[h[s].thread].stack \/ ~h[s].open
    BY <2>1, <1>5
  <2> QED BY <2>1, <2>2 DEF UpvalValue
<1>8. Closed(k, m)
  <2> SUFFICES ASSUME NEW s \in Slots, Live(m, s) PROVE Sound(k, m, s)
    BY DEF Closed
  <2>1. Sound(h, m, s)
    BY <1>1 DEF HeapInv, Closed
  <2>2. CASE s = th
    <3>1. \A q \in Registers : Fine(h, m, k[s].stack[q])
      BY <1>5, <2>1, <2>2 DEF Sound
    <3>2. Fine(k, m, v) /\ \A q \in Registers : Fine(k, m, k[s].stack[q])
      BY <3>1, <1>6, SameKinds
    <3> QED BY <3>2, <2>2, <1>5 DEF Sound
  <2>3. CASE s # th
    <3>1. ASSUME h[s].tt = "upval" PROVE Fine(h, m, UpvalValue(k, s))
      BY <1>7, <2>1, <3>1 DEF Sound
    <3> QED BY <3>1, <2>1, <2>3, <1>1, <1>5, <1>6, StillSound
  <2> QED BY <2>2, <2>3
<1>9. ASSUME p = "open", m.gcstate = "propagate" PROVE NoBlackToWhite(k, m, Range(tmu))
  <2> SUFFICES ASSUME NEW s \in Slots \ Range(tmu), m.marked[s] = "black", NEW w \in Held(k, s)
               PROVE  ~IsWhite(m, w)
    BY DEF NoBlackToWhite
  <2>1. h[s].tt # "thread"
    BY <1>1, Blackened
  <2>2. s # th /\ k[s] = h[s] /\ (h[s].tt = "upval" => UpvalValue(k, s) = UpvalValue(h, s))
    BY <1>5, <2>1, <1>7
  <2>3. w \in Held(h, s)
    BY <2>2, SameHeld
  <2> QED BY <2>3, <1>9 DEF Good, Cycle, Marking, NoBlackToWhite
<1> QED BY <1>4, <1>6, <1>8, <1>9, Reshaped

(* An element inserted in a list.                                          *)
IsInserted(a, b, i, e) ==
  /\ Len(b) = Len(a) + 1 /\ DOMAIN b = 1..Len(b) /\ i \in 1..Len(b)
  /\ \A j \in 1..Len(b) : b[j] = IF j = i THEN e ELSE IF j < i THEN a[j] ELSE a[j - 1]

(* SequencesExt's InsertAt.                                                *)
LEMMA Inserted ==
  ASSUME NEW X, NEW a \in Seq(X), NEW e \in X, NEW i \in 1..Len(a) + 1
  PROVE  InsertAt(a, i, e) \in Seq(X) /\ IsInserted(a, InsertAt(a, i, e), i, e)
<1> DEFINE l == SubSeq(a, 1, i - 1)
           r == SubSeq(a, i, Len(a))
           b == l \o <<e>> \o r
<1>1. Len(a) \in Nat /\ i \in Int /\ i - 1 \in Nat /\ i - 1 \in Int
  OBVIOUS
<1>2. l \in Seq(X) /\ Len(l) = i - 1 /\ \A j \in 1..(i - 1) : l[j] = a[j]
  <2>1. \A j \in 1..(i - 1) : a[j] \in X
    BY <1>1
  <2>2. i - 1 - 1 + 1 = i - 1 /\ 1 \in Int
    BY <1>1
  <2> QED BY <1>1, <2>1, <2>2, SubSeqProperties
<1>3. r \in Seq(X) /\ Len(r) = Len(a) - i + 1 /\ \A j \in 1..(Len(a) - i + 1) : r[j] = a[i + j - 1]
  <2>1. \A j \in i..Len(a) : a[j] \in X
    BY <1>1
  <2>2. IF i <= Len(a) THEN TRUE ELSE Len(a) - i + 1 = 0
    BY <1>1
  <2>3. Len(a) \in Int
    BY <1>1
  <2>4. /\ r \in Seq(X) /\ Len(r) = IF i <= Len(a) THEN Len(a) - i + 1 ELSE 0
        /\ \A j \in 1..(Len(a) - i + 1) : r[j] = a[i + j - 1]
    BY <1>1, <2>1, <2>3, SubSeqProperties
  <2> QED BY <2>2, <2>4
<1> HIDE DEF l, r
<1>4. b \in Seq(X) /\ Len(b) = Len(a) + 1 /\ DOMAIN b = 1..Len(b)
  BY <1>1, <1>2, <1>3
<1>5. ASSUME NEW j \in 1..Len(b) PROVE b[j] = IF j = i THEN e ELSE IF j < i THEN a[j] ELSE a[j - 1]
  <2> DEFINE c == l \o <<e>>
  <2>1. c \in Seq(X) /\ Len(c) = i /\ c[i] = e /\ \A q \in 1..(i - 1) : c[q] = a[q]
    BY <1>1, <1>2
  <2> HIDE DEF c
  <2>2. b = c \o r
    BY DEF c
  <2>3. CASE j <= i
    <3>1. b[j] = c[j]
      BY <2>1, <2>2, <2>3, <1>1, <1>3
    <3> QED BY <3>1, <2>1, <2>3, <1>1
  <2>4. CASE j > i
    <3>1. b[j] = r[j - i] /\ j - i \in 1..(Len(a) - i + 1)
      BY <2>1, <2>2, <2>4, <1>1, <1>3, <1>4
    <3>2. r[j - i] = a[i + (j - i) - 1] /\ i + (j - i) - 1 = j - 1
      BY <3>1, <1>3, <1>1
    <3> QED BY <3>1, <3>2, <2>4, <1>1
  <2> QED BY <2>3, <2>4, <1>1, <1>4
<1>6. InsertAt(a, i, e) = b
  BY DEF InsertAt, b, l, r
<1> QED BY <1>1, <1>4, <1>5, <1>6 DEF IsInserted

(* A list with a new head.                                                 *)
LEMMA Prepended ==
  ASSUME NEW X, NEW a \in Seq(X), NEW e \in X
  PROVE  <<e>> \o a \in Seq(X) /\ IsInserted(a, <<e>> \o a, 1, e)
<1> DEFINE b == <<e>> \o a
<1>1. b \in Seq(X) /\ Len(b) = Len(a) + 1 /\ Len(a) \in Nat
  OBVIOUS
<1>2. \A j \in 1..Len(b) : b[j] = IF j = 1 THEN e ELSE a[j - 1]
  BY <1>1
<1> HIDE DEF b
<1>3. IsInserted(a, b, 1, e)
  BY <1>1, <1>2 DEF IsInserted
<1> QED BY <1>1, <1>3 DEF b

(* What a list with one more element holds.                                *)
LEMMA InsertedParts ==
  ASSUME NEW X, NEW a \in Seq(X), NEW b \in Seq(X), NEW i, NEW e, IsInserted(a, b, i, e)
  PROVE  /\ Range(b) = Range(a) \cup {e}
         /\ (IsInjective(a) /\ e \notin Range(a)) => IsInjective(b)
<1>1. /\ Len(a) \in Nat /\ DOMAIN a = 1..Len(a) /\ DOMAIN b = 1..Len(b) /\ Len(b) = Len(a) + 1 /\ i \in DOMAIN b
      /\ b[i] = e /\ i \in Nat
  BY DEF IsInserted
<1>2. \A j \in DOMAIN b : j # i => \E q \in DOMAIN a : b[j] = a[q] /\ q = IF j < i THEN j ELSE j - 1
  BY <1>1 DEF IsInserted
<1>3. \A q \in DOMAIN a : \E j \in DOMAIN b : b[j] = a[q]
  <2> TAKE q \in DOMAIN a
  <2>1. CASE q < i
    <3>1. q \in 1..Len(b) /\ q # i
      BY <1>1, <2>1
    <3> QED BY <3>1, <2>1 DEF IsInserted
  <2>2. CASE q >= i
    <3>1. q + 1 \in 1..Len(b) /\ q + 1 # i /\ ~(q + 1 < i) /\ (q + 1) - 1 = q
      BY <1>1, <2>2
    <3> QED BY <3>1 DEF IsInserted
  <2> QED BY <2>1, <2>2, <1>1
<1>4. Range(b) = Range(a) \cup {e}
  BY <1>1, <1>2, <1>3 DEF Range
<1>5. ASSUME IsInjective(a), e \notin Range(a) PROVE IsInjective(b)
  <2> SUFFICES ASSUME NEW j \in DOMAIN b, NEW l \in DOMAIN b, b[j] = b[l] PROVE j = l
    BY DEF IsInjective
  <2>1. \A q \in DOMAIN b : q # i => b[q] # e
    BY <1>2, <1>5 DEF Range
  <2>2. CASE j = i \/ l = i
    BY <2>1, <2>2, <1>1
  <2>3. CASE j # i /\ l # i
    <3>1. PICK q \in DOMAIN a : b[j] = a[q] /\ q = IF j < i THEN j ELSE j - 1
      BY <1>2, <2>3
    <3>2. PICK w \in DOMAIN a : b[l] = a[w] /\ w = IF l < i THEN l ELSE l - 1
      BY <1>2, <2>3
    <3>3. q = w
      BY <3>1, <3>2, <1>5 DEF IsInjective
    <3> QED BY <3>1, <3>2, <3>3, <2>3, <1>1
  <2> QED BY <2>2, <2>3
<1> QED BY <1>4, <1>5

(* The two whites and the marks of the objects: which are live, which are  *)
(* white.                                                                  *)
LEMMA MarksAre ==
  ASSUME NEW h, NEW m, Typed(h, m)
  PROVE  /\ m.currentwhite \in Whites /\ OtherWhite(m) \in Whites /\ m.currentwhite # OtherWhite(m)
         /\ \A s \in Slots : IsWhite(m, s) <=> m.marked[s] \in {m.currentwhite, OtherWhite(m)}
         /\ \A s \in Slots : Live(m, s) <=> m.marked[s] \in {m.currentwhite, "gray", "black"}
         /\ \A s \in Slots : Live(m, s) => h[s] # Free
         /\ \A s \in Slots : h[s].tt = "free" => ~Live(m, s) /\ m.marked[s] = "none"
<1>1. m.currentwhite \in Whites /\ OtherWhite(m) \in Whites /\ m.currentwhite # OtherWhite(m)
  BY DEF Typed, Collectors, Whites, OtherWhite
<1>2. {m.currentwhite, OtherWhite(m)} = Whites
  BY <1>1 DEF Whites
<1>3. \A s \in Slots : m.marked[s] \in Marks
  BY ListsAreOfSlots
<1>4. \A s \in Slots : Live(m, s) <=> m.marked[s] \in {m.currentwhite, "gray", "black"}
  BY <1>1, <1>2, <1>3 DEF Live, Marks, Colours, Whites
<1>5. \A s \in Slots : IsWhite(m, s) <=> m.marked[s] \in {m.currentwhite, OtherWhite(m)}
  BY <1>2 DEF IsWhite, Whites
<1>6. \A s \in Slots : h[s].tt = "free" => h[s] = Free
  BY ListsAreOfSlots, Kinds
<1>7. \A s \in Slots : (h[s] = Free => m.marked[s] = "none") /\ ("none" = m.marked[s] => h[s] = Free)
  BY DEF Typed
<1> QED BY <1>1, <1>4, <1>5, <1>6, <1>7 DEF Live

(* What a live object holds is live.                                       *)
LEMMA HeldLive ==
  ASSUME NEW h, NEW m, NEW tmu, NEW cs, NEW p, Good(h, m, tmu, cs, p), NEW s \in Slots, Live(m, s)
  PROVE  \A v \in Held(h, s) : v \in Slots /\ Live(m, v)
<1>1. Sound(h, m, s) /\ Live(m, Globals) /\ h[s] \in Objects
  BY ListsAreOfSlots DEF Good, HeapInv, Closed, RootsLive
<1>2. h[s].tt \in {"table", "userdata", "string", "function", "upval", "thread", "free"}
  BY <1>1 DEF Objects, TableObjects, UserdataObjects, StringObjects, FunctionObjects, UpvalObjects,
              ThreadObjects, FreeObjects, Free
<1>3. CASE h[s].tt = "table"
  BY <1>1, <1>3 DEF Sound, Held, Fine, FineMeta, Range
<1>4. CASE h[s].tt = "userdata"
  BY <1>1, <1>4 DEF Sound, Held, FineMeta
<1>5. CASE h[s].tt = "function"
  BY <1>1, <1>5 DEF Sound, Held, FineUpval
<1>6. CASE h[s].tt = "upval"
  BY <1>1, <1>6 DEF Sound, Held, Fine
<1>7. CASE h[s].tt = "thread"
  <2>1. \A v \in Range(h[s].stack) : \E r \in Registers : v = h[s].stack[r]
    BY <1>1, <1>7, Kinds, KindsAre DEF Range
  <2> QED BY <2>1, <1>1, <1>7, HeapAssumption DEF Sound, Held, Fine
<1>8. CASE h[s].tt \in {"string", "free"}
  BY <1>8 DEF Held
<1> QED BY <1>2, <1>3, <1>4, <1>5, <1>6, <1>7, <1>8

(* A sound object stays sound while no live object dies.                   *)
LEMMA LiveSound ==
  ASSUME NEW h, NEW m, NEW n, NEW s \in Slots, h[s] \in Objects, Sound(h, m, s), \A x \in Slots : Live(m, x) => Live(n, x)
  PROVE  Sound(h, n, s)
<1>1. \A v : (Fine(h, m, v) => Fine(h, n, v)) /\ (FineMeta(h, m, v) => FineMeta(h, n, v))
  BY DEF Fine, FineMeta
<1>2. \A v \in Slots : FineUpval(h, m, v) => FineUpval(h, n, v)
  BY DEF FineUpval
<1>3. h[s].tt = "function" => \A u \in Range(h[s].upvals) : u \in Slots
  BY Kinds, KindsAre, SeqParts
<1> QED BY <1>1, <1>2, <1>3 DEF Sound

(* A change of colours that leaves the list of objects alone.              *)
LEMMA Recoloured ==
  ASSUME NEW h, NEW m, NEW n, NEW tmu, NEW cs, NEW p, Good(h, m, tmu, cs, p), Typed(h, n),
         n.rootgc = m.rootgc, \A s \in Slots : Live(m, s) => Live(n, s),
         \A s \in Slots : Live(n, s) => Live(m, s) \/ Sound(h, m, s),
         Lists(h, n), p = "open" => Cycle(h, n, tmu)
  PROVE  Good(h, n, tmu, cs, p)
<1>1. HeapInv(h, m, tmu, cs) /\ \A s \in Slots : h[s] \in Objects
  BY ListsAreOfSlots DEF Good
<1>2. Closed(h, n)
  BY <1>1, LiveSound DEF Closed, HeapInv
<1>3. Placed(h, n, tmu)
  BY <1>1 DEF HeapInv, Placed
<1>4. RootsLive(h, n, tmu, cs)
  <2>1. RootsLive(h, m, tmu, cs) /\ Range(tmu) \subseteq Slots
    BY <1>1 DEF HeapInv, Placed
  <2>2. cs \in Seq(Slots)
    BY <2>1 DEF RootsLive, SlotSeqs
  <2>3. \A i \in DOMAIN cs : cs[i] \in Slots
    BY <2>2
  <2> QED BY <2>1, <2>3, HeapAssumption DEF RootsLive
<1> QED BY <1>1, <1>2, <1>3, <1>4 DEF Good, HeapInv

(* makewhite gives the object the current white and changes nothing else.  *)
LEMMA MakeWhiteIs ==
  ASSUME NEW h, NEW m, NEW s \in Slots, Typed(h, m), h[s] # Free
  PROVE  /\ MakeWhite(m, s) = [m EXCEPT !.marked[s] = m.currentwhite]
         /\ MakeWhite(m, s).marked = [m.marked EXCEPT ![s] = m.currentwhite]
         /\ MakeWhite(m, s).rootgc = m.rootgc /\ MakeWhite(m, s).currentwhite = m.currentwhite
         /\ MakeWhite(m, s).gray = m.gray /\ MakeWhite(m, s).grayagain = m.grayagain
         /\ MakeWhite(m, s).weak = m.weak /\ MakeWhite(m, s).gcstate = m.gcstate
         /\ MakeWhite(m, s).full = m.full /\ MakeWhite(m, s).sweepgc = m.sweepgc
         /\ MakeWhite(m, s).sweepstrgc = m.sweepstrgc
         /\ InLists(MakeWhite(m, s)) = InLists(m) /\ OtherWhite(MakeWhite(m, s)) = OtherWhite(m)
         /\ Typed(h, MakeWhite(m, s))
<1> DEFINE n == MakeWhite(m, s)
<1>1. m \in Collectors /\ m.currentwhite \in Marks /\ m.currentwhite # "none"
  BY DEF Typed, Collectors, Whites, Marks, Colours
<1>2. n = [m EXCEPT !.marked[s] = m.currentwhite]
  BY DEF MakeWhite, Paint
<1>3. /\ n.marked = [m.marked EXCEPT ![s] = m.currentwhite]
      /\ n.rootgc = m.rootgc /\ n.currentwhite = m.currentwhite
      /\ n.gray = m.gray /\ n.grayagain = m.grayagain /\ n.weak = m.weak /\ n.gcstate = m.gcstate
      /\ n.full = m.full /\ n.sweepgc = m.sweepgc /\ n.sweepstrgc = m.sweepstrgc
  BY <1>1, <1>2 DEF Collectors
<1>4. n \in Collectors
  BY <1>1, <1>2 DEF Collectors
<1>5. m.marked \in [Slots -> Marks]
  BY <1>1 DEF Collectors
<1> HIDE DEF n
<1>6. Typed(h, n)
  BY <1>1, <1>3, <1>4, <1>5 DEF Typed
<1> QED BY <1>2, <1>3, <1>6 DEF n, InLists, OtherWhite

(* An object in no list of the mark phase may be given the current white,  *)
(* unless it was marked in a mark phase that is not over.                  *)
LEMMA Whitened ==
  ASSUME NEW h, NEW m, NEW tmu, NEW cs, NEW p, Good(h, m, tmu, cs, p), NEW s \in Slots, h[s] # Free,
         Sound(h, m, s), s \notin Range(InLists(m)),
         (p = "open" /\ m.gcstate = "propagate") => IsWhite(m, s)
  PROVE  Good(h, MakeWhite(m, s), tmu, cs, p)
<1> DEFINE n == MakeWhite(m, s)
<1>1. Typed(h, m) /\ HeapInv(h, m, tmu, cs)
  BY DEF Good
<1>2. /\ n.marked = [m.marked EXCEPT ![s] = m.currentwhite]
      /\ n.rootgc = m.rootgc /\ n.currentwhite = m.currentwhite /\ InLists(n) = InLists(m)
      /\ n.gcstate = m.gcstate /\ OtherWhite(n) = OtherWhite(m)
      /\ n.full = m.full /\ n.sweepgc = m.sweepgc /\ n.sweepstrgc = m.sweepstrgc /\ Typed(h, n)
  BY <1>1, MakeWhiteIs
<1> HIDE DEF n
<1>3. /\ n.marked[s] = m.currentwhite /\ \A x \in Slots \ {s} : n.marked[x] = m.marked[x]
  BY <1>1, <1>2 DEF Typed, Collectors
<1>4. /\ m.currentwhite \in {"white0", "white1"} /\ m.currentwhite # OtherWhite(m)
      /\ OtherWhite(m) \in {"white0", "white1"}
  BY <1>1, MarksAre DEF Whites
<1>5. \A x \in Slots \ {s} : Live(n, x) <=> Live(m, x)
  BY <1>2, <1>3 DEF Live
<1>6. Live(n, s)
  BY <1>2, <1>3, <1>4 DEF Live
<1>7. Lists(h, n)
  <2>1. Lists(h, m)
    BY <1>1 DEF HeapInv
  <2>2. \A x \in Slots : n.marked[x] \in {"black", "gray"} => n.marked[x] = m.marked[x]
    BY <1>3, <1>4
  <2>3. \A x \in Range(InLists(m)) : x \in Slots /\ n.marked[x] = m.marked[x]
    BY <1>1, <1>3, ListsAreOfSlots
  <2> QED BY <2>1, <2>2, <2>3, <1>2 DEF Lists
<1>8. ASSUME p = "open" PROVE Cycle(h, n, tmu)
  <2>1. Cycle(h, m, tmu)
    BY <1>8 DEF Good
  <2>2. ASSUME m.gcstate = "propagate" PROVE Marking(h, n, tmu)
    <3>1. Marking(h, m, tmu)
      BY <2>1, <2>2 DEF Cycle
    <3>2. IsWhite(m, s) /\ m.marked[s] # OtherWhite(m)
      BY <1>8, <2>2, <3>1 DEF Marking, IsDead
    <3>3. \A x \in Slots : n.marked[x] = m.marked[x]
      BY <1>1, <1>3, <3>2, MarksAre
    <3>4. \A x \in Slots : (IsWhite(n, x) <=> IsWhite(m, x)) /\ (IsDead(n, x) <=> IsDead(m, x))
      BY <3>3, <1>2 DEF IsWhite, IsDead
    <3>5. GrayListed(h, n)
      BY <3>1, <3>3, <1>2 DEF Marking, GrayListed
    <3>6. NoBlackToWhite(h, n, Range(tmu))
      <4>1. \A x \in Slots : \A v \in Held(h, x) : v \in Slots
        BY DEF Held
      <4> QED BY <3>1, <3>3, <3>4, <4>1 DEF Marking, NoBlackToWhite
    <3> QED BY <3>1, <3>4, <3>5, <3>6, <1>2, HeapAssumption DEF Marking
  <2>3. \A x \in Slots : Swept(m, x) => Swept(n, x)
    BY <1>2, <1>3 DEF Swept
  <2>4. ASSUME NEW i, SweptStrings(h, m, i) PROVE SweptStrings(h, n, i)
    BY <2>3, <2>4 DEF SweptStrings
  <2>5. ASSUME NEW i, SweptList(h, m, i) PROVE SweptList(h, n, i)
    <3>1. \A j \in DOMAIN m.rootgc : m.rootgc[j] \in Slots
      BY <1>1, ListsAreOfSlots
    <3>2. \A x \in Slots : h[x].tt = "thread" => Range(h[x].openupval) \subseteq Slots
      BY <1>1, Kinds, KindsAre, ListsAreOfSlots, SeqParts
    <3> QED BY <2>3, <2>5, <3>1, <3>2, <1>2 DEF SweptList
  <2>6. DeadFinalized(h, m) => DeadFinalized(h, n)
    BY <1>2, <1>3, <1>4 DEF DeadFinalized, IsDead
  <2>7. AllSwept(h, m, tmu) => AllSwept(h, n, tmu)
    BY <2>3 DEF AllSwept
  <2> QED BY <2>1, <2>2, <2>4, <2>5, <2>6, <2>7, <1>2 DEF Cycle
<1>9. \A x \in Slots : (Live(m, x) => Live(n, x)) /\ (Live(n, x) => Live(m, x) \/ Sound(h, m, x))
  BY <1>5, <1>6
<1>10. Good(h, n, tmu, cs, p)
  BY <1>2, <1>7, <1>8, <1>9, Recoloured
<1> QED BY <1>10 DEF n

(* The cursor q of a list that takes in e at i: what was before the        *)
(* cursor, and e perhaps, is before it now.                                *)
LEMMA ListGrown ==
  ASSUME NEW X, NEW a \in Seq(X), NEW b \in Seq(X), NEW i, NEW e, IsInserted(a, b, i, e),
         NEW q \in Nat, NEW r, r = IF q <= i THEN q ELSE q + 1
  PROVE  /\ \A j \in DOMAIN b : j < r => b[j] = e \/ \E l \in DOMAIN a : l < q /\ b[j] = a[l]
         /\ q \in 1..Len(a) + 1 => r \in 1..Len(b) + 1
         /\ q = 1 => r = 1
         /\ r \in Nat
<1>1. /\ Len(a) \in Nat /\ DOMAIN a = 1..Len(a) /\ DOMAIN b = 1..Len(b) /\ Len(b) = Len(a) + 1 /\ i \in 1..Len(b)
  BY DEF IsInserted
<1>2. ASSUME NEW j \in DOMAIN b, j < r, b[j] # e PROVE \E l \in DOMAIN a : l < q /\ b[j] = a[l]
  <2>1. j # i /\ b[j] = IF j < i THEN a[j] ELSE a[j - 1]
    BY <1>1, <1>2 DEF IsInserted
  <2>2. CASE j < i
    <3>1. j \in DOMAIN a /\ j < q
      BY <1>1, <1>2, <2>2
    <3> QED BY <3>1, <2>1, <2>2
  <2>3. CASE ~(j < i)
    <3>1. j - 1 \in DOMAIN a /\ j - 1 < q
      BY <1>1, <1>2, <2>1, <2>3
    <3> QED BY <3>1, <2>1, <2>3
  <2> QED BY <2>2, <2>3
<1>3. \A j \in DOMAIN b : j < r => b[j] = e \/ \E l \in DOMAIN a : l < q /\ b[j] = a[l]
  BY <1>2
<1>4. /\ q \in 1..Len(a) + 1 => r \in 1..Len(b) + 1
      /\ q = 1 => r = 1
      /\ r \in Nat
  BY <1>1
<1> QED BY <1>3, <1>4

(* The list of objects takes in a new one.                                 *)
Entered(m, n, s) ==
  \E i : IsInserted(m.rootgc, n.rootgc, i, s) /\ n.sweepgc = IF m.sweepgc <= i THEN m.sweepgc ELSE m.sweepgc + 1

(* What the list of objects and the cursor of the sweep are after that.    *)
LEMMA EnteredParts ==
  ASSUME NEW m, NEW n, NEW s, m.rootgc \in Seq(Slots), n.rootgc \in Seq(Slots), m.sweepgc \in Nat, Entered(m, n, s)
  PROVE  /\ Range(n.rootgc) = Range(m.rootgc) \cup {s}
         /\ (IsInjective(m.rootgc) /\ s \notin Range(m.rootgc)) => IsInjective(n.rootgc)
         /\ \A j \in DOMAIN n.rootgc : j < n.sweepgc =>
              n.rootgc[j] = s \/ \E l \in DOMAIN m.rootgc : l < m.sweepgc /\ n.rootgc[j] = m.rootgc[l]
         /\ m.sweepgc \in 1..Len(m.rootgc) + 1 => n.sweepgc \in 1..Len(n.rootgc) + 1
         /\ m.sweepgc = 1 => n.sweepgc = 1
<1>1. PICK i : IsInserted(m.rootgc, n.rootgc, i, s) /\ n.sweepgc = IF m.sweepgc <= i THEN m.sweepgc ELSE m.sweepgc + 1
  BY DEF Entered
<1> DEFINE a == m.rootgc
           b == n.rootgc
           q == m.sweepgc
           r == n.sweepgc
<1>2. a \in Seq(Slots) /\ b \in Seq(Slots) /\ IsInserted(a, b, i, s) /\ q \in Nat /\ r = IF q <= i THEN q ELSE q + 1
  BY <1>1
<1> HIDE DEF a, b, q, r
<1>3. /\ \A j \in DOMAIN b : j < r => b[j] = s \/ \E l \in DOMAIN a : l < q /\ b[j] = a[l]
      /\ q \in 1..Len(a) + 1 => r \in 1..Len(b) + 1
      /\ q = 1 => r = 1
  BY <1>2, ListGrown
<1>4. /\ Range(b) = Range(a) \cup {s}
      /\ (IsInjective(a) /\ s \notin Range(a)) => IsInjective(b)
  BY <1>2, InsertedParts
<1> QED BY <1>3, <1>4 DEF a, b, q, r

(* The heap and the collector with the new object x in slot s.             *)
Adds(h, k, m, n, s, x) ==
  /\ k = [h EXCEPT ![s] = x] /\ Typed(k, n) /\ n.marked = [m.marked EXCEPT ![s] = m.currentwhite]
  /\ n.currentwhite = m.currentwhite /\ n.gcstate = m.gcstate /\ n.full = m.full
  /\ n.sweepstrgc = m.sweepstrgc /\ InLists(n) = InLists(m)
  /\ IF x.tt = "string" THEN n.rootgc = m.rootgc /\ n.sweepgc = m.sweepgc ELSE Entered(m, n, s)

(* A new object, in the current white and in its list, keeps the invariant *)
(* in every state of the cycle.                                            *)
LEMMA NewObject ==
  ASSUME NEW h, NEW m, NEW tmu, NEW cs, NEW p, Good(h, m, tmu, cs, p), NEW s \in Slots, h[s] = Free,
         NEW x \in Objects, x.tt # "free", x.tt # "upval", x.tt = "thread" => x.openupval = <<>>,
         NEW k, NEW n, Adds(h, k, m, n, s, x), Sound(k, n, s)
  PROVE  Good(k, n, tmu, cs, p)
<1>1. /\ k = [h EXCEPT ![s] = x] /\ Typed(k, n) /\ n.marked = [m.marked EXCEPT ![s] = m.currentwhite]
     /\ n.currentwhite = m.currentwhite /\ n.gcstate = m.gcstate /\ n.full = m.full
     /\ n.sweepstrgc = m.sweepstrgc /\ InLists(n) = InLists(m)
     /\ IF x.tt = "string" THEN n.rootgc = m.rootgc /\ n.sweepgc = m.sweepgc ELSE Entered(m, n, s)
  BY DEF Adds
<1> USE <1>1
<1>2. /\ Typed(h, m) /\ HeapInv(h, m, tmu, cs) /\ h \in [Slots -> Objects] /\ h[s].tt = "free"
      /\ \A o \in Slots : h[o] \in Objects
  BY ListsAreOfSlots, KindsAre DEF Good, Typed
<1>3. k[s] = x /\ \A o \in Slots \ {s} : k[o] = h[o]
  BY <1>2
<1>4. /\ n.marked[s] = m.currentwhite /\ \A o \in Slots \ {s} : n.marked[o] = m.marked[o]
      /\ OtherWhite(n) = OtherWhite(m)
  BY <1>2 DEF Typed, Collectors, OtherWhite
<1>5. /\ m.currentwhite \in {"white0", "white1"} /\ m.currentwhite # OtherWhite(m)
      /\ OtherWhite(m) \in {"white0", "white1"} /\ m.marked[s] = "none" /\ ~Live(m, s)
  BY <1>2, MarksAre DEF Whites
<1>6. \A o \in Slots \ {s} : Live(n, o) <=> Live(m, o)
  BY <1>4 DEF Live
<1>7. Live(n, s) /\ ~IsDead(n, s)
  BY <1>4, <1>5 DEF Live, IsDead
<1>8. \A o \in Slots : h[o].tt # "free" => o # s /\ k[o] = h[o]
  BY <1>2, <1>3
<1>9. \A o \in Slots : h[o].tt = "upval" => UpvalValue(k, o) = UpvalValue(h, o)
  <2> TAKE o \in Slots
  <2> HAVE h[o].tt = "upval"
  <2>1. h[o].thread \in Slots /\ h[o].open \in BOOLEAN /\ (h[o].open => h[h[o].thread].tt = "thread")
    BY OpenUpvalThread
  <2> QED BY <2>1, <1>8 DEF UpvalValue
<1>10. Closed(k, n)
  <2> SUFFICES ASSUME NEW o \in Slots, Live(n, o), o # s PROVE Sound(k, n, o)
    BY DEF Closed
  <2>1. Sound(h, m, o) /\ k[o] = h[o]
    BY <1>2, <1>3, <1>6 DEF HeapInv, Closed
  <2>2. \A v \in Slots : Live(m, v) => Live(n, v) /\ k[v] = h[v]
    BY <1>3, <1>5, <1>6
  <2>3. \A v : (Fine(h, m, v) => Fine(k, n, v)) /\ (FineMeta(h, m, v) => FineMeta(k, n, v))
    BY <2>2 DEF Fine, FineMeta
  <2>4. \A v \in Slots : FineUpval(h, m, v) => FineUpval(k, n, v)
    BY <2>2 DEF FineUpval
  <2>5. h[o].tt = "function" => \A u \in Range(h[o].upvals) : u \in Slots
    BY <1>2, Kinds, KindsAre, SeqParts
  <2> QED BY <2>1, <2>3, <2>4, <2>5, <1>9 DEF Sound
<1>11. UpvalsOK(k)
  <2>1. UpvalsOK(h)
    BY <1>2 DEF HeapInv
  <2>2. \A o \in Slots : h[o].tt = "thread" => Range(h[o].openupval) \subseteq Slots
    BY <1>2, Kinds, KindsAre, SeqParts
  <2>3. ASSUME NEW o \in Slots, k[o].tt = "thread"
        PROVE  IsInjective(k[o].openupval) /\ \A u \in Range(k[o].openupval) : OpenIn(k, o, u)
    <3>1. CASE o = s
      <4>1. Range(<<>>) = {} /\ IsInjective(<<>>)
        BY Empty
      <4> QED BY <4>1, <3>1, <2>3, <1>3
    <3>2. CASE o # s
      <4>1. \A u \in Range(h[o].openupval) : u \in Slots /\ OpenIn(h, o, u) /\ k[u] = h[u]
        BY <2>1, <2>2, <2>3, <3>2, <1>3, <1>8 DEF UpvalsOK, OpenIn
      <4> QED BY <4>1, <2>1, <2>3, <3>2, <1>3 DEF UpvalsOK, OpenIn
    <3> QED BY <3>1, <3>2
  <2>4. ASSUME NEW o \in Slots, k[o].tt = "upval", k[o].open
        PROVE  k[k[o].thread].tt = "thread" /\ o \in Range(k[k[o].thread].openupval)
    <3>1. o # s /\ k[o] = h[o] /\ h[o].thread \in Slots
      BY <2>4, <1>3, OpenUpvalThread
    <3>2. h[h[o].thread].tt = "thread" /\ o \in Range(h[h[o].thread].openupval)
      BY <2>1, <2>4, <3>1 DEF UpvalsOK
    <3> QED BY <3>1, <3>2, <1>8
  <2> QED BY <2>3, <2>4 DEF UpvalsOK
<1>12. /\ m.rootgc \in Seq(Slots) /\ n.rootgc \in Seq(Slots) /\ m.sweepgc \in Nat
       /\ Range(InLists(m)) \subseteq Slots
  BY <1>2, ListsAreOfSlots
<1>13. Placed(h, m, tmu) /\ RootsLive(h, m, tmu, cs) /\ Lists(h, m) /\ Range(tmu) \subseteq Slots
  BY <1>2 DEF HeapInv, Placed
<1>14. s \notin Range(m.rootgc) /\ s \notin Range(tmu) /\ s \notin Range(InLists(m)) /\ s # Main /\ s # Globals
  BY <1>2, <1>13 DEF Placed, Listed, Lists, Traversed
<1>15. Placed(k, n, tmu)
  <2>1. \A o \in Slots \ {s} : Listed(k, o) <=> Listed(h, o)
    BY <1>3 DEF Listed
  <2>2. Listed(k, s) <=> x.tt # "string"
    BY <1>3 DEF Listed
  <2>3. IsInjective(n.rootgc) /\ Range(n.rootgc) = Range(m.rootgc) \cup IF x.tt = "string" THEN {} ELSE {s}
    <3>1. CASE x.tt = "string"
      BY <3>1, <1>13 DEF Placed
    <3>2. CASE x.tt # "string"
      <4>1. Entered(m, n, s) /\ IsInjective(m.rootgc)
        BY <3>2, <1>13 DEF Placed
      <4>2. (IsInjective(m.rootgc) /\ s \notin Range(m.rootgc)) => IsInjective(n.rootgc)
        BY <4>1, <1>12, EnteredParts
      <4>3. Range(n.rootgc) = Range(m.rootgc) \cup {s}
        BY <4>1, <1>12, EnteredParts
      <4> QED BY <3>2, <4>1, <4>2, <4>3, <1>14
    <3> QED BY <3>1, <3>2
  <2>4. Range(n.rootgc) \cup Range(tmu) = {o \in Slots : Listed(k, o)}
    <3>1. ~Listed(h, s)
      BY <1>2 DEF Listed
    <3>2. Range(m.rootgc) \cup Range(tmu) = {o \in Slots : Listed(h, o)}
      BY <1>13 DEF Placed
    <3> QED BY <2>1, <2>2, <2>3, <3>1, <3>2
  <2>5. Range(n.rootgc) \cap Range(tmu) = {} /\ IsInjective(tmu) /\ tmu \in SlotSeqs
    BY <2>3, <1>13, <1>14 DEF Placed
  <2>6. /\ \A u \in Range(tmu) : k[u].tt = "userdata" /\ k[u].finalized
        /\ k[Main].tt = "thread" /\ k[Globals].tt = "table"
    BY <1>13, <1>14, <1>3, HeapAssumption DEF Placed
  <2> QED BY <2>3, <2>4, <2>5, <2>6 DEF Placed
<1>16. RootsLive(k, n, tmu, cs)
  <2>1. cs \in Seq(Slots)
    BY <1>13 DEF RootsLive, SlotSeqs
  <2>2. \A i \in DOMAIN cs : cs[i] \in Slots /\ cs[i] # s /\ k[cs[i]] = h[cs[i]] /\ Live(n, cs[i])
    BY <2>1, <1>2, <1>3, <1>6, <1>13 DEF RootsLive
  <2>3. \A i \in 1..Len(cs) - 1 : i \in DOMAIN cs
    BY <2>1
  <2>4. Live(n, Main) /\ Live(n, Globals) /\ \A u \in Range(tmu) : Live(n, u)
    BY <1>6, <1>13, <1>14, HeapAssumption DEF RootsLive
  <2> QED BY <2>2, <2>3, <2>4, <1>13 DEF RootsLive
<1>17. Lists(k, n)
  <2>1. n.marked[s] \notin {"black", "gray"}
    BY <1>4, <1>5
  <2>2. \A o \in Range(InLists(m)) : o \in Slots /\ o # s
    BY <1>12, <1>14
  <2> QED BY <2>1, <2>2, <1>3, <1>4, <1>13 DEF Lists, Blackens, Grayens, Traversed
<1>18. ASSUME p = "open" PROVE Cycle(k, n, tmu)
  <2>1. Cycle(h, m, tmu)
    BY <1>18 DEF Good
  <2>2. ASSUME m.gcstate = "propagate" PROVE Marking(k, n, tmu)
    <3>1. Marking(h, m, tmu)
      BY <2>1, <2>2 DEF Cycle
    <3>2. \A o \in Slots \ {s} : (IsWhite(n, o) <=> IsWhite(m, o)) /\ (IsDead(n, o) <=> IsDead(m, o))
      BY <1>4 DEF IsWhite, IsDead
    <3>3. \A o \in Slots : ~IsDead(n, o)
      BY <3>1, <3>2, <1>7 DEF Marking
    <3>4. GrayListed(k, n)
      <4>1. n.marked[s] # "gray"
        BY <1>4, <1>5
      <4> QED BY <4>1, <3>1, <1>3, <1>4 DEF Marking, GrayListed
    <3>5. NoBlackToWhite(k, n, Range(tmu))
      <4> SUFFICES ASSUME NEW o \in Slots \ Range(tmu), n.marked[o] = "black", NEW v \in Held(k, o)
                   PROVE  ~IsWhite(n, v)
        BY DEF NoBlackToWhite
      <4>1. o # s /\ m.marked[o] = "black" /\ k[o] = h[o]
        BY <1>3, <1>4, <1>5
      <4>2. Live(m, o)
        BY <4>1, <1>2, MarksAre
      <4>3. o \in Slots /\ (h[o].tt = "upval" => UpvalValue(k, o) = UpvalValue(h, o))
        BY <1>9
      <4>4. v \in Held(h, o)
        BY <4>1, <4>3 DEF Held
      <4>5. v \in Slots /\ Live(m, v)
        BY <4>2, <4>4, HeldLive
      <4> QED BY <4>1, <4>4, <4>5, <3>1, <3>2, <1>5 DEF Marking, NoBlackToWhite
    <3> QED BY <3>1, <3>2, <3>3, <3>4, <3>5, <1>14, HeapAssumption DEF Marking
  <2>3. \A o \in Slots : Swept(m, o) => Swept(n, o)
    BY <1>4, <1>5 DEF Swept
  <2>4. Swept(n, s)
    BY <1>4 DEF Swept
  <2>5. ASSUME NEW i, SweptStrings(h, m, i) PROVE SweptStrings(k, n, i)
    BY <2>3, <2>4, <2>5, <1>3 DEF SweptStrings
  <2>6. ASSUME SweptList(h, m, m.sweepgc) PROVE SweptList(k, n, n.sweepgc)
    <3> SUFFICES ASSUME NEW j \in DOMAIN n.rootgc, j < n.sweepgc
                 PROVE  /\ Swept(n, n.rootgc[j])
                        /\ k[n.rootgc[j]].tt = "thread" => \A u \in Range(k[n.rootgc[j]].openupval) : Swept(n, u)
      BY DEF SweptList
    <3>1. (n.rootgc[j] = s /\ x.tt # "string") \/ \E l \in DOMAIN m.rootgc : l < m.sweepgc /\ n.rootgc[j] = m.rootgc[l]
      BY <1>12, EnteredParts
    <3>2. CASE n.rootgc[j] = s
      BY <3>2, <2>4, <1>3, Empty
    <3>3. CASE n.rootgc[j] # s
      <4>1. PICK l \in DOMAIN m.rootgc : l < m.sweepgc /\ n.rootgc[j] = m.rootgc[l]
        BY <3>1, <3>3
      <4> DEFINE o == m.rootgc[l]
      <4>2. o \in Slots /\ o # s
        BY <1>12, <3>3, <4>1, SeqParts
      <4>3. Swept(m, o) /\ (h[o].tt = "thread" => \A u \in Range(h[o].openupval) : Swept(m, u))
        BY <2>6, <4>1 DEF SweptList
      <4>4. h[o].tt = "thread" => Range(h[o].openupval) \subseteq Slots
        BY <4>2, <1>2, Kinds, KindsAre, SeqParts
      <4> HIDE DEF o
      <4>5. Swept(n, o) /\ (k[o].tt = "thread" => \A u \in Range(k[o].openupval) : Swept(n, u))
        BY <4>2, <4>3, <4>4, <2>3, <1>3
      <4> QED BY <4>1, <4>5 DEF o
    <3> QED BY <3>2, <3>3
  <2>7. DeadFinalized(h, m) => DeadFinalized(k, n)
    BY <1>3, <1>4, <1>7 DEF DeadFinalized, IsDead
  <2>8. AllSwept(h, m, tmu) => AllSwept(k, n, tmu)
    BY <2>3, <2>4, <1>3 DEF AllSwept
  <2>9. m.sweepgc = 1 => n.sweepgc = 1
    BY <1>12, EnteredParts
  <2>10. m.sweepgc \in 1..Len(m.rootgc) + 1 => n.sweepgc \in 1..Len(n.rootgc) + 1
    <3>1. CASE x.tt = "string"
      BY <3>1
    <3>2. CASE x.tt # "string"
      BY <3>2, <1>12, EnteredParts
    <3> QED BY <3>1, <3>2
  <2> QED BY <2>1, <2>2, <2>5, <2>6, <2>7, <2>8, <2>9, <2>10 DEF Cycle
<1> QED BY <1>10, <1>11, <1>15, <1>16, <1>17, <1>18 DEF Good, HeapInv

(* n is m with another colour for s.                                       *)
Painted(m, n, s, c) ==
  /\ n \in Collectors
  /\ n.marked[s] = c
  /\ \A o \in Slots : o # s => n.marked[o] = m.marked[o]
  /\ n.rootgc = m.rootgc /\ n.currentwhite = m.currentwhite
  /\ n.gray = m.gray /\ n.grayagain = m.grayagain /\ n.weak = m.weak /\ n.gcstate = m.gcstate
  /\ n.full = m.full /\ n.sweepgc = m.sweepgc /\ n.sweepstrgc = m.sweepstrgc
  /\ InLists(n) = InLists(m) /\ OtherWhite(n) = OtherWhite(m)

(* Paint does no more than that.                                           *)
LEMMA PaintIs ==
  ASSUME NEW m \in Collectors, NEW s \in Slots, NEW c \in Marks
  PROVE  Painted(m, Paint(m, s, c), s, c)
<1> DEFINE n == Paint(m, s, c)
<1>1. n \in Collectors
  BY DEF Collectors, Paint
<1>2. n.marked[s] = c /\ \A o \in Slots : o # s => n.marked[o] = m.marked[o]
  BY DEF Collectors, Paint
<1>3. /\ n.rootgc = m.rootgc /\ n.currentwhite = m.currentwhite
      /\ n.gray = m.gray /\ n.grayagain = m.grayagain /\ n.weak = m.weak /\ n.gcstate = m.gcstate
      /\ n.full = m.full /\ n.sweepgc = m.sweepgc /\ n.sweepstrgc = m.sweepstrgc
  BY DEF Collectors, Paint
<1> HIDE DEF n
<1>4. InLists(n) = InLists(m) /\ OtherWhite(n) = OtherWhite(m)
  BY <1>3 DEF InLists, OtherWhite
<1>5. Painted(m, n, s, c)
  BY <1>1, <1>2, <1>3, <1>4 DEF Painted
<1> QED BY <1>5 DEF n

(* luaF_findupval makes u an upvalue open on register c of th.             *)
Opens(h, k, u, th, c, list) == k = [h EXCEPT ![u] = NewUpval(th, c), ![th].openupval = list]

(* The invariant holds with the new open upvalue, which is in the list of  *)
(* its thread and in no other.                                             *)
LEMMA OpenedUpval ==
  ASSUME NEW h, NEW m, NEW tmu, NEW cs, NEW p, Good(h, m, tmu, cs, p), NEW u \in Slots, h[u] = Free,
         NEW th \in Slots, h[th].tt = "thread", Live(m, th), NEW c \in Registers,
         NEW list \in Seq(Slots), IsInjective(list), Range(list) = Range(h[th].openupval) \cup {u},
         NEW k, Opens(h, k, u, th, c, list)
  PROVE  Good(k, MakeWhite(m, u), tmu, cs, p)
<1> DEFINE n == MakeWhite(m, u)
           x == NewUpval(th, c)
           y == [h[th] EXCEPT !.openupval = list]
<1>1. /\ Typed(h, m) /\ HeapInv(h, m, tmu, cs) /\ h \in [Slots -> Objects] /\ h[u].tt = "free"
      /\ m \in Collectors /\ \A o \in Slots : h[o] \in Objects
  BY ListsAreOfSlots, KindsAre DEF Good, Typed
<1>2. u # th
  BY <1>1
<1>3. x \in UpvalObjects /\ x.open /\ x.thread = th /\ x.level = c
  BY HeapAssumption DEF NewUpval, UpvalObjects, Values
<1>4. y \in ThreadObjects /\ y.openupval = list /\ y.stack = h[th].stack /\ y.resumed = h[th].resumed
  <2>1. h[th] \in ThreadObjects
    BY <1>1, Kinds
  <2> QED BY <2>1 DEF ThreadObjects
<1>5. k = [h EXCEPT ![u] = x, ![th] = y]
  <2>1. [h EXCEPT ![u] = x][th] = h[th]
    BY <1>2, <1>1
  <2> QED BY <2>1 DEF Opens
<1> HIDE DEF x, y
<1>6. k \in [Slots -> Objects] /\ k[u] = x /\ k[th] = y /\ \A o \in Slots \ {u, th} : k[o] = h[o]
  BY <1>1, <1>2, <1>3, <1>4, <1>5, KindsAre
<1>7. x.tt = "upval" /\ y.tt = "thread"
  BY <1>3, <1>4, KindsAre
<1>8. \A o \in Slots : h[o].tt # "free" => o # u /\ k[o].tt = h[o].tt /\ (o # th => k[o] = h[o])
  BY <1>1, <1>6, <1>7
<1>9. /\ n \in Collectors
      /\ n.marked[u] = m.currentwhite /\ \A o \in Slots \ {u} : n.marked[o] = m.marked[o]
      /\ n.rootgc = m.rootgc /\ n.currentwhite = m.currentwhite /\ InLists(n) = InLists(m)
      /\ n.gcstate = m.gcstate /\ OtherWhite(n) = OtherWhite(m)
      /\ n.full = m.full /\ n.sweepgc = m.sweepgc /\ n.sweepstrgc = m.sweepstrgc
  <2>1. m.currentwhite \in Marks
    BY <1>1, MarksAre DEF Marks, Colours, Whites
  <2>2. n = Paint(m, u, m.currentwhite) /\ m \in Collectors
    BY <1>1 DEF MakeWhite
  <2> HIDE DEF n
  <2>3. Painted(m, n, u, m.currentwhite)
    BY <2>1, <2>2, PaintIs
  <2> QED BY <2>3 DEF Painted
<1> HIDE DEF n
<1>10. /\ m.currentwhite \in {"white0", "white1"} /\ m.currentwhite # OtherWhite(m)
       /\ OtherWhite(m) \in {"white0", "white1"} /\ m.marked[u] = "none" /\ ~Live(m, u)
  BY <1>1, MarksAre DEF Whites
<1>11. Typed(k, n)
  <2>1. \A o \in Slots \ {u} : k[o] = Free <=> h[o] = Free
    BY <1>1, <1>6, <1>7, Kinds
  <2>2. k[u] # Free
    BY <1>6, <1>7, KindsAre
  <2> QED BY <2>1, <2>2, <1>6, <1>1, <1>9, <1>10 DEF Typed
<1>12. \A o \in Slots \ {u} : Live(n, o) <=> Live(m, o)
  BY <1>9 DEF Live
<1>13. Live(n, u) /\ ~IsDead(n, u)
  BY <1>9, <1>10 DEF Live, IsDead
<1>14. \A o \in Slots : h[o].tt = "upval" => UpvalValue(k, o) = UpvalValue(h, o)
  <2> TAKE o \in Slots
  <2> HAVE h[o].tt = "upval"
  <2>1. h[o].thread \in Slots /\ h[o].open \in BOOLEAN /\ (h[o].open => h[h[o].thread].tt = "thread") /\ k[o] = h[o]
    BY <1>8, OpenUpvalThread
  <2>2. h[o].open => k[h[o].thread].stack = h[h[o].thread].stack
    BY <2>1, <1>8, <1>4, <1>6
  <2> QED BY <2>1, <2>2 DEF UpvalValue
<1>15. Closed(k, n)
  <2> SUFFICES ASSUME NEW o \in Slots, Live(n, o) PROVE Sound(k, n, o)
    BY DEF Closed
  <2>1. \A v \in Slots : Live(m, v) => Live(n, v) /\ k[v].tt = h[v].tt
    <3> SUFFICES ASSUME NEW v \in Slots, Live(m, v) PROVE Live(n, v) /\ k[v].tt = h[v].tt
      OBVIOUS
    <3>1. v # u /\ Live(n, v)
      BY <1>10, <1>12
    <3>2. h[v].tt # "free"
      BY <1>1, MarksAre
    <3> QED BY <3>1, <3>2, <1>8
  <2>2. \A v : (Fine(h, m, v) => Fine(k, n, v)) /\ (FineMeta(h, m, v) => FineMeta(k, n, v))
    BY <2>1 DEF Fine, FineMeta
  <2>3. \A v \in Slots : FineUpval(h, m, v) => FineUpval(k, n, v)
    BY <2>1 DEF FineUpval
  <2>4. Sound(h, m, th)
    BY <1>1 DEF HeapInv, Closed
  <2>5. CASE o = u
    <3>1. UpvalValue(k, u) = h[th].stack[c]
      BY <1>3, <1>4, <1>6 DEF UpvalValue
    <3>2. Fine(k, n, UpvalValue(k, u))
      BY <3>1, <2>2, <2>4 DEF Sound
    <3> QED BY <2>5, <3>2, <1>6, <1>7 DEF Sound
  <2>6. CASE o = th
    BY <2>6, <2>2, <2>4, <1>4, <1>6, <1>7 DEF Sound
  <2>7. CASE o \notin {u, th}
    <3>1. Sound(h, m, o) /\ k[o] = h[o]
      BY <2>7, <1>1, <1>6, <1>12 DEF HeapInv, Closed
    <3>2. h[o].tt = "function" => \A f \in Range(h[o].upvals) : f \in Slots
      BY <1>1, Kinds, KindsAre, SeqParts
    <3> QED BY <3>1, <2>2, <2>3, <3>2, <1>14 DEF Sound
  <2> QED BY <2>5, <2>6, <2>7
<1>16. UpvalsOK(k)
  <2>1. UpvalsOK(h)
    BY <1>1 DEF HeapInv
  <2>2. \A o \in Slots : h[o].tt = "thread" => Range(h[o].openupval) \subseteq Slots
    BY <1>1, Kinds, KindsAre, SeqParts
  <2>3. ASSUME NEW o \in Slots, k[o].tt = "thread"
        PROVE  IsInjective(k[o].openupval) /\ \A f \in Range(k[o].openupval) : OpenIn(k, o, f)
    <3>1. o # u /\ h[o].tt = "thread"
      BY <2>3, <1>6, <1>7
    <3>2. \A f \in Range(h[o].openupval) : f \in Slots /\ OpenIn(h, o, f) /\ k[f] = h[f]
      BY <2>1, <2>2, <3>1, <1>1, <1>6 DEF UpvalsOK, OpenIn
    <3>3. CASE o = th
      <4>1. OpenIn(k, th, u)
        BY <1>3, <1>6, <1>7 DEF OpenIn
      <4> QED BY <4>1, <3>2, <3>3, <1>4, <1>6 DEF OpenIn
    <3>4. CASE o # th
      BY <3>1, <3>2, <3>4, <2>1, <1>6 DEF UpvalsOK, OpenIn
    <3> QED BY <3>3, <3>4
  <2>4. ASSUME NEW o \in Slots, k[o].tt = "upval", k[o].open
        PROVE  k[k[o].thread].tt = "thread" /\ o \in Range(k[k[o].thread].openupval)
    <3>1. CASE o = u
      BY <3>1, <1>3, <1>4, <1>6, <1>7
    <3>2. CASE o # u
      <4>1. k[o] = h[o] /\ h[o].thread \in Slots
        BY <2>4, <3>2, <1>6, <1>7, OpenUpvalThread
      <4>2. h[h[o].thread].tt = "thread" /\ o \in Range(h[h[o].thread].openupval)
        BY <2>1, <2>4, <4>1 DEF UpvalsOK
      <4> QED BY <4>1, <4>2, <1>8, <1>4, <1>6, <1>7
    <3> QED BY <3>1, <3>2
  <2> QED BY <2>3, <2>4 DEF UpvalsOK
<1>17. Range(InLists(m)) \subseteq Slots /\ Range(m.rootgc) \subseteq Slots
  BY <1>1, ListsAreOfSlots
<1>18. Placed(h, m, tmu) /\ RootsLive(h, m, tmu, cs) /\ Lists(h, m) /\ Range(tmu) \subseteq Slots
  BY <1>1 DEF HeapInv, Placed
<1>19. u \notin Range(m.rootgc) /\ u \notin Range(tmu) /\ u \notin Range(InLists(m)) /\ u # Main /\ u # Globals
  BY <1>1, <1>18 DEF Placed, Listed, Lists, Traversed
<1>20. Placed(k, n, tmu)
  <2>1. \A o \in Slots \ {u} : Listed(k, o) <=> Listed(h, o)
    BY <1>6, <1>7 DEF Listed
  <2>2. ~Listed(k, u) /\ ~Listed(h, u)
    BY <1>3, <1>6, <1>7, <1>1 DEF Listed
  <2>3. {o \in Slots : Listed(k, o)} = {o \in Slots : Listed(h, o)}
    BY <2>1, <2>2
  <2>4. \A f \in Range(tmu) : k[f].tt = "userdata" /\ k[f].finalized
    BY <1>18, <1>19, <1>8 DEF Placed
  <2>5. k[Main].tt = "thread" /\ k[Globals].tt = "table"
    BY <1>18, <1>19, <1>8, HeapAssumption DEF Placed
  <2> QED BY <2>3, <2>4, <2>5, <1>9, <1>18 DEF Placed
<1>21. RootsLive(k, n, tmu, cs)
  <2>1. cs \in Seq(Slots)
    BY <1>18 DEF RootsLive, SlotSeqs
  <2>2. \A i \in DOMAIN cs : cs[i] \in Slots /\ cs[i] # u /\ k[cs[i]].tt = "thread" /\ Live(n, cs[i])
                             /\ k[cs[i]].resumed = h[cs[i]].resumed
    <3> TAKE i \in DOMAIN cs
    <3>1. cs[i] \in Slots /\ h[cs[i]].tt = "thread" /\ Live(m, cs[i])
      BY <2>1, <1>18 DEF RootsLive
    <3> QED BY <3>1, <1>1, <1>8, <1>4, <1>6, <1>12
  <2>3. \A i \in 1..Len(cs) - 1 : i \in DOMAIN cs
    BY <2>1
  <2>4. Live(n, Main) /\ Live(n, Globals) /\ \A f \in Range(tmu) : Live(n, f)
    BY <1>12, <1>18, <1>19, HeapAssumption DEF RootsLive
  <2> QED BY <2>2, <2>3, <2>4, <1>18 DEF RootsLive
<1>22. Lists(k, n)
  <2>1. n.marked[u] \notin {"black", "gray"}
    BY <1>9, <1>10
  <2>2. \A o \in Range(InLists(m)) : o \in Slots /\ o # u
    BY <1>17, <1>19
  <2>3. \A o \in Slots \ {u} : /\ Blackens(k, o) <=> Blackens(h, o)
                               /\ Grayens(k, o) <=> Grayens(h, o)
                               /\ Traversed(k, o) <=> Traversed(h, o)
    BY <1>4, <1>6, <1>7 DEF Blackens, Grayens, Traversed
  <2> QED BY <2>1, <2>2, <2>3, <1>9, <1>18 DEF Lists
<1>23. ASSUME p = "open" PROVE Cycle(k, n, tmu)
  <2>1. Cycle(h, m, tmu)
    BY <1>23 DEF Good
  <2>2. ASSUME m.gcstate = "propagate" PROVE Marking(k, n, tmu)
    <3>1. Marking(h, m, tmu)
      BY <2>1, <2>2 DEF Cycle
    <3>2. \A o \in Slots \ {u} : (IsWhite(n, o) <=> IsWhite(m, o)) /\ (IsDead(n, o) <=> IsDead(m, o))
      BY <1>9 DEF IsWhite, IsDead
    <3>3. \A o \in Slots : ~IsDead(n, o)
      BY <3>1, <3>2, <1>13 DEF Marking
    <3>4. GrayListed(k, n)
      <4>1. n.marked[u] # "gray"
        BY <1>9, <1>10
      <4>2. \A o \in Slots : n.marked[o] = "gray" => o # u /\ (o # th => k[o] = h[o]) /\ k[o].tt = h[o].tt
        BY <4>1, <1>6, <1>7
      <4>3. GrayListed(h, m)
        BY <3>1 DEF Marking
      <4> QED BY <4>2, <4>3, <1>9 DEF GrayListed
    <3>5. NoBlackToWhite(k, n, Range(tmu))
      <4> SUFFICES ASSUME NEW o \in Slots \ Range(tmu), n.marked[o] = "black", NEW v \in Held(k, o)
                   PROVE  ~IsWhite(n, v)
        BY DEF NoBlackToWhite
      <4>1. o # u /\ m.marked[o] = "black" /\ h[o].tt # "thread"
        BY <1>9, <1>10, <1>1, Blackened
      <4>2. o # u /\ m.marked[o] = "black" /\ k[o] = h[o]
        BY <4>1, <1>6, <1>7
      <4>3. Live(m, o)
        BY <4>2, <1>1, MarksAre
      <4>4. o \in Slots /\ (h[o].tt = "upval" => UpvalValue(k, o) = UpvalValue(h, o))
        BY <1>14
      <4>5. v \in Held(h, o)
        BY <4>2, <4>4 DEF Held
      <4>6. v \in Slots /\ Live(m, v)
        BY <4>3, <4>5, HeldLive
      <4> QED BY <4>2, <4>5, <4>6, <3>1, <3>2, <1>10 DEF Marking, NoBlackToWhite
    <3> QED BY <3>1, <3>2, <3>3, <3>4, <3>5, <1>9, <1>19, HeapAssumption DEF Marking
  <2>3. \A o \in Slots : Swept(m, o) => Swept(n, o)
    BY <1>9, <1>10 DEF Swept
  <2>4. Swept(n, u)
    BY <1>9 DEF Swept
  <2>5. ASSUME NEW i, SweptStrings(h, m, i) PROVE SweptStrings(k, n, i)
    BY <2>3, <2>4, <2>5, <1>6, <1>7 DEF SweptStrings
  <2>6. ASSUME NEW i, SweptList(h, m, i) PROVE SweptList(k, n, i)
    <3> SUFFICES ASSUME NEW j \in DOMAIN m.rootgc, j < i
                 PROVE  /\ Swept(n, m.rootgc[j])
                        /\ k[m.rootgc[j]].tt = "thread" => \A f \in Range(k[m.rootgc[j]].openupval) : Swept(n, f)
      BY <1>9 DEF SweptList
    <3> DEFINE o == m.rootgc[j]
    <3>1. o \in Slots /\ o # u
      <4>1. m.rootgc \in Seq(Slots)
        BY <1>1, ListsAreOfSlots
      <4>2. o \in Slots /\ o \in Range(m.rootgc)
        BY <4>1, SeqParts
      <4> QED BY <4>2, <1>19
    <3>2. Swept(m, o) /\ (h[o].tt = "thread" => \A f \in Range(h[o].openupval) : Swept(m, f))
      BY <2>6 DEF SweptList
    <3>3. h[o].tt = "thread" => Range(h[o].openupval) \subseteq Slots
      BY <3>1, <1>1, Kinds, KindsAre, SeqParts
    <3> HIDE DEF o
    <3>4. Swept(n, o)
      BY <3>1, <3>2, <2>3
    <3>5. ASSUME k[o].tt = "thread", NEW f \in Range(k[o].openupval) PROVE Swept(n, f)
      <4>1. CASE o = th
        BY <3>1, <3>2, <3>3, <3>5, <4>1, <1>4, <1>6, <2>3, <2>4
      <4>2. CASE o # th
        BY <3>1, <3>2, <3>3, <3>5, <4>2, <1>6, <2>3
      <4> QED BY <4>1, <4>2
    <3> QED BY <3>4, <3>5 DEF o
  <2>7. DeadFinalized(h, m) => DeadFinalized(k, n)
    BY <1>6, <1>7, <1>9, <1>13 DEF DeadFinalized, IsDead
  <2>8. AllSwept(h, m, tmu) => AllSwept(k, n, tmu)
    BY <2>3, <2>4, <1>6, <1>1 DEF AllSwept
  <2> QED BY <2>1, <2>2, <2>5, <2>6, <2>7, <2>8, <1>9 DEF Cycle
<1>24. Good(k, n, tmu, cs, p)
  BY <1>11, <1>15, <1>16, <1>20, <1>21, <1>22, <1>23 DEF Good, HeapInv
<1> QED BY <1>24 DEF n

(* The head of tmudata goes back in the list of objects.                   *)
LEMMA Relinked ==
  ASSUME NEW h, NEW m, NEW tmu, NEW cs, NEW p, Good(h, m, tmu, cs, p), tmu # <<>>, NEW u, u = Head(tmu),
         NEW n, n \in Collectors, p = "open" => m.gcstate = "finalize",
         n.marked = [m.marked EXCEPT ![u] = m.currentwhite], n.currentwhite = m.currentwhite,
         n.gcstate = m.gcstate, InLists(n) = InLists(m), Entered(m, n, u)
  PROVE  Good(h, n, Tail(tmu), cs, p)
<1> DEFINE t == Tail(tmu)
<1>1. /\ Typed(h, m) /\ HeapInv(h, m, tmu, cs) /\ m \in Collectors
      /\ \A o \in Slots : h[o] \in Objects
  BY ListsAreOfSlots DEF Good, Typed
<1>2. Placed(h, m, tmu) /\ RootsLive(h, m, tmu, cs) /\ Lists(h, m) /\ tmu \in Seq(Slots)
  BY <1>1 DEF HeapInv, Placed, SlotSeqs
<1>3. /\ u \in Slots /\ t \in Seq(Slots) /\ Range(tmu) = {u} \cup Range(t) /\ IsInjective(t)
      /\ u \notin Range(t) /\ u \in Range(tmu)
  <2>1. IsInjective(tmu)
    BY <1>2 DEF Placed
  <2> QED BY <2>1, <1>2, Cut
<1>4. h[u].tt = "userdata" /\ h[u].finalized /\ u \notin Range(m.rootgc) /\ Live(m, u)
  BY <1>2, <1>3 DEF Placed, RootsLive
<1>5. /\ n.marked[u] = m.currentwhite /\ \A o \in Slots \ {u} : n.marked[o] = m.marked[o]
      /\ OtherWhite(n) = OtherWhite(m)
  BY <1>1, <1>3 DEF Collectors, OtherWhite
<1>6. /\ m.currentwhite \in {"white0", "white1"} /\ m.currentwhite # OtherWhite(m)
      /\ OtherWhite(m) \in {"white0", "white1"} /\ h[u] # Free
  BY <1>1, <1>3, <1>4, MarksAre DEF Whites
<1>7. \A o \in Slots : Live(n, o) <=> Live(m, o)
  BY <1>4, <1>5, <1>6 DEF Live
<1>8. Typed(h, n)
  BY <1>1, <1>5, <1>6 DEF Typed
<1>9. Closed(h, n)
  BY <1>1, <1>7, LiveSound DEF Closed, HeapInv
<1> HIDE DEF t
<1>10. Placed(h, n, t)
  <2>1. m.rootgc \in Seq(Slots) /\ n.rootgc \in Seq(Slots) /\ m.sweepgc \in Nat
    BY <1>1, <1>8, ListsAreOfSlots
  <2>2. (IsInjective(m.rootgc) /\ u \notin Range(m.rootgc)) => IsInjective(n.rootgc)
    BY <2>1, EnteredParts
  <2>3. Range(n.rootgc) = Range(m.rootgc) \cup {u}
    BY <2>1, EnteredParts
  <2>4. IsInjective(n.rootgc)
    BY <2>2, <1>2, <1>4 DEF Placed
  <2>5. Range(n.rootgc) \cap Range(t) = {} /\ Range(n.rootgc) \cup Range(t) = Range(m.rootgc) \cup Range(tmu)
    BY <2>3, <1>2, <1>3 DEF Placed
  <2> QED BY <2>4, <2>5, <1>2, <1>3 DEF Placed, SlotSeqs
<1>11. RootsLive(h, n, t, cs)
  <2>1. cs \in Seq(Slots)
    BY <1>2 DEF RootsLive, SlotSeqs
  <2>2. \A i \in DOMAIN cs : cs[i] \in Slots
    BY <2>1
  <2>3. \A o \in Range(t) : o \in Slots /\ o \in Range(tmu)
    BY <1>2, <1>3 DEF Placed
  <2> QED BY <2>2, <2>3, <1>2, <1>7, HeapAssumption DEF RootsLive
<1>12. Lists(h, n)
  <2>1. n.marked[u] \notin {"black", "gray"} /\ u \notin Range(InLists(m))
    BY <1>2, <1>4, <1>5, <1>6 DEF Lists, Traversed
  <2>2. Range(InLists(m)) \subseteq Slots
    BY <1>1, ListsAreOfSlots
  <2> QED BY <2>1, <2>2, <1>2, <1>5 DEF Lists
<1>13. ASSUME p = "open" PROVE Cycle(h, n, t)
  <2>1. AllSwept(h, m, tmu)
    BY <1>13 DEF Good, Cycle
  <2>2. AllSwept(h, n, t)
    BY <2>1, <1>3, <1>5 DEF AllSwept, Swept
  <2> QED BY <2>2, <1>13 DEF Cycle
<1>14. UpvalsOK(h)
  BY <1>1 DEF HeapInv
<1>15. Good(h, n, t, cs, p)
  BY <1>8, <1>9, <1>10, <1>11, <1>12, <1>13, <1>14 DEF Good, HeapInv
<1> QED BY <1>15 DEF t

-----------------------------------------------------------------------------
(* The mark phase.                                                         *)
Pending(m) == Range(m.gray) \cup Range(m.grayagain) \cup Range(m.weak)
OnceListed(m) ==
  /\ IsInjective(m.gray) /\ IsInjective(m.grayagain) /\ IsInjective(m.weak)
  /\ Range(m.gray) \cap Range(m.grayagain) = {}
  /\ Range(m.gray) \cap Range(m.weak) = {}
  /\ Range(m.grayagain) \cap Range(m.weak) = {}

(* The lists of the mark phase as sets.                                    *)
LEMMA ListsApart ==
  ASSUME NEW m \in Collectors
  PROVE  /\ Range(InLists(m)) = Pending(m)
         /\ IsInjective(InLists(m)) <=> OnceListed(m)
<1> DEFINE a == m.gray
           b == m.grayagain
           c == m.weak
           ab == a \o b
<1>1. a \in Seq(Slots) /\ b \in Seq(Slots) /\ c \in Seq(Slots)
  BY DEF Collectors, SlotSeqs
<1> HIDE DEF a, b, c
<1>2. /\ ab \in Seq(Slots) /\ Range(ab) = Range(a) \cup Range(b)
      /\ IsInjective(ab) <=> IsInjective(a) /\ IsInjective(b) /\ Range(a) \cap Range(b) = {}
  BY <1>1, Joined
<1> HIDE DEF ab
<1>3. /\ Range(ab \o c) = Range(ab) \cup Range(c)
      /\ IsInjective(ab \o c) <=> IsInjective(ab) /\ IsInjective(c) /\ Range(ab) \cap Range(c) = {}
  BY <1>1, <1>2, Joined
<1>4. InLists(m) = ab \o c
  BY DEF InLists, ab, a, b, c
<1>5. Range(ab) \cap Range(c) = {} <=> Range(a) \cap Range(c) = {} /\ Range(b) \cap Range(c) = {}
  BY <1>2
<1>6. Range(InLists(m)) = Range(a) \cup Range(b) \cup Range(c)
  BY <1>2, <1>3, <1>4
<1>7. IsInjective(InLists(m)) <=> /\ IsInjective(a) /\ IsInjective(b) /\ IsInjective(c)
                                  /\ Range(a) \cap Range(b) = {} /\ Range(a) \cap Range(c) = {}
                                  /\ Range(b) \cap Range(c) = {}
  BY <1>2, <1>3, <1>4, <1>5
<1> QED BY <1>6, <1>7 DEF a, b, c, Pending, OnceListed

(* tmp: the object that is being traversed.  stage 1: the values of gray   *)
(* open upvalues are marked, 2: and the strong sides of weak tables, 3:    *)
(* and what waits in grayagain.                                            *)
Marked(m, v) == v \in Slots => ~IsWhite(m, v)
AllMarked(h, m, s) == \A v \in Held(h, s) : ~IsWhite(m, v)
StrongMarked(h, m, t) ==
  /\ Marked(m, h[t].meta)
  /\ "v" \notin Mode(h, t) => \A k \in DOMAIN h[t].entries : Marked(m, h[t].entries[k])
  /\ "k" \notin Mode(h, t) => \A k \in DOMAIN h[t].entries : Marked(m, k)
IsOpen(h, s) == h[s].tt = "upval" /\ h[s].open
BlackRight(h, m, ex, s) == m.marked[s] = "black" => Blackens(h, s) /\ (s \in ex \/ AllMarked(h, m, s))
GrayRight(h, m, s) == m.marked[s] = "gray" => Grayens(h, s) /\ (h[s].tt = "string" \/ IsOpen(h, s) \/ s \in Pending(m))
StageRight(h, m, stage, s) ==
  /\ (stage >= 1 /\ m.marked[s] = "gray" /\ IsOpen(h, s)) => Marked(m, UpvalValue(h, s))
  /\ (stage >= 2 /\ s \in Range(m.weak)) => h[s].tt = "table" /\ StrongMarked(h, m, s)
  /\ (stage >= 3 /\ s \in Range(m.grayagain)) => AllMarked(h, m, s)
Right(h, m, ex, stage, s) ==
  /\ BlackRight(h, m, ex, s) /\ GrayRight(h, m, s) /\ StageRight(h, m, stage, s)
  /\ s \in Pending(m) => m.marked[s] = "gray"

(* The invariant within a step of the mark phase: m is the collector, ex   *)
(* the userdata that may point to white objects, tmp the objects whose     *)
(* colour was changed and whose contents are not all marked yet.           *)
MarkInv(h, m, ex, tmp, stage) ==
  /\ m \in Collectors /\ stage \in 0..3 /\ tmp \in SUBSET Slots
  /\ \A s \in Slots : m.marked[s] = "none" <=> h[s] = Free
  /\ \A s \in Slots \ tmp : Right(h, m, ex, stage, s)
  /\ \A s \in tmp : ~IsWhite(m, s) /\ h[s] # Free
  /\ OnceListed(m)
  /\ \A s \in Pending(m) : s \in Slots /\ Traversed(h, s) /\ ~IsWhite(m, s)
WellFormed(h) ==
  /\ h \in [Slots -> Objects]
  /\ \A s \in Slots :
       /\ h[s].tt = "upval" => (UpvalValue(h, s) \in Slots => h[UpvalValue(h, s)].tt \in FirstClass)
       /\ h[s].tt \in {"table", "userdata"} => (h[s].meta \in Slots => h[h[s].meta].tt = "table")

(* What marking never undoes.                                              *)
Further(m, n) ==
  /\ n.rootgc = m.rootgc /\ n.currentwhite = m.currentwhite /\ n.gcstate = m.gcstate
  /\ n.full = m.full /\ n.sweepgc = m.sweepgc /\ n.sweepstrgc = m.sweepstrgc
  /\ \A s \in Slots : ~IsWhite(m, s) => ~IsWhite(n, s)
  /\ \A s \in Slots : n.marked[s] \in {m.marked[s], "gray", "black"}
Keeping(m, n) ==
  /\ n.grayagain = m.grayagain /\ n.weak = m.weak
  /\ Range(m.gray) \subseteq Range(n.gray)
  /\ \A s \in Range(n.gray) : s \in Range(m.gray) \/ IsWhite(m, s)
  /\ \A s \in Slots : ~IsWhite(m, s) => n.marked[s] = m.marked[s]
MarkedBy(h, m, n, v, ex, tmp, stage) ==
  MarkInv(h, n, ex, tmp, stage) /\ Further(m, n) /\ Keeping(m, n) /\ Marked(n, v)

(* What was marked stays marked.                                           *)
LEMMA FurtherMarked ==
  ASSUME NEW h, NEW m, NEW n, \A s \in Slots : ~IsWhite(m, s) => ~IsWhite(n, s)
  PROVE  /\ \A v : Marked(m, v) => Marked(n, v)
         /\ \A s : AllMarked(h, m, s) => AllMarked(h, n, s)
         /\ \A s : StrongMarked(h, m, s) => StrongMarked(h, n, s)
<1>1. \A v : Marked(m, v) => Marked(n, v)
  BY DEF Marked
<1>2. \A s : AllMarked(h, m, s) => AllMarked(h, n, s)
  BY DEF AllMarked, Held
<1>3. \A s : StrongMarked(h, m, s) => StrongMarked(h, n, s)
  BY <1>1 DEF StrongMarked
<1> QED BY <1>1, <1>2, <1>3

(* Steps of marking, one after the other.                                  *)
LEMMA FurtherTransitive ==
  ASSUME NEW m, NEW n, NEW o, Further(m, n), Further(n, o)
  PROVE  Further(m, o) /\ (Keeping(m, n) /\ Keeping(n, o) /\ Range(o.gray) \subseteq Slots => Keeping(m, o))
<1>1. Further(m, o)
  BY DEF Further
<1>2. ASSUME Keeping(m, n), Keeping(n, o), Range(o.gray) \subseteq Slots PROVE Keeping(m, o)
  <2>1. \A s \in Slots : IsWhite(n, s) => IsWhite(m, s)
    BY DEF Further
  <2>2. \A s \in Slots : ~IsWhite(m, s) => o.marked[s] = m.marked[s]
    BY <1>2 DEF Keeping, Further
  <2>3. \A s \in Range(o.gray) : s \in Range(m.gray) \/ IsWhite(m, s)
    BY <1>2, <2>1 DEF Keeping
  <2> QED BY <1>2, <2>2, <2>3 DEF Keeping
<1> QED BY <1>1, <1>2

(* No step at all.                                                         *)
LEMMA FurtherReflexive ==
  ASSUME NEW m
  PROVE  Further(m, m) /\ Keeping(m, m)
BY DEF Further, Keeping

(* One white object changes its colour, and may enter the list gray.       *)
Repaints(h, m, n, s, tmp, t2) ==
  /\ n \in Collectors /\ n.marked[s] \in {"gray", "black"}
  /\ \A o \in Slots : o # s => n.marked[o] = m.marked[o]
  /\ n.rootgc = m.rootgc /\ n.currentwhite = m.currentwhite /\ n.gcstate = m.gcstate
  /\ n.full = m.full /\ n.sweepgc = m.sweepgc /\ n.sweepstrgc = m.sweepstrgc
  /\ n.grayagain = m.grayagain /\ n.weak = m.weak
  /\ \/ n.gray = m.gray
     \/ n.gray = <<s>> \o m.gray /\ Traversed(h, s) /\ n.marked[s] = "gray"
  /\ \/ t2 = tmp \cup {s}
     \/ t2 = tmp /\ n.marked[s] = "gray" /\ (h[s].tt = "string" \/ s \in Range(n.gray))

(* Such a change keeps MarkInv, the object being in tmp or already where   *)
(* it should be.                                                           *)
LEMMA Repainted ==
  ASSUME NEW h, NEW m, NEW n, NEW ex, NEW tmp, NEW stage, MarkInv(h, m, ex, tmp, stage),
         NEW s \in Slots, IsWhite(m, s), NEW t2, Repaints(h, m, n, s, tmp, t2)
  PROVE  MarkedBy(h, m, n, s, ex, t2, stage)
<1> USE DEF Repaints
<1>1. /\ m \in Collectors /\ stage \in 0..3 /\ tmp \in SUBSET Slots /\ OnceListed(m)
      /\ \A o \in Slots : m.marked[o] = "none" <=> h[o] = Free
      /\ \A o \in tmp : ~IsWhite(m, o) /\ h[o] # Free
      /\ \A o \in Pending(m) : o \in Slots /\ Traversed(h, o) /\ ~IsWhite(m, o)
  BY DEF MarkInv
<1>2. ~IsWhite(n, s) /\ \A o \in Slots : ~IsWhite(m, o) => ~IsWhite(n, o) /\ o # s /\ n.marked[o] = m.marked[o]
  BY DEF IsWhite
<1>3. \A o \in Slots : n.marked[o] = "none" <=> h[o] = Free
  BY <1>1 DEF IsWhite
<1>4. /\ Range(n.gray) \in {Range(m.gray), Range(m.gray) \cup {s}} /\ IsInjective(n.gray)
      /\ s \in Range(n.gray) => Traversed(h, s) /\ n.marked[s] = "gray"
      /\ Range(m.gray) \subseteq Range(n.gray)
  <2>1. m.gray \in Seq(Slots) /\ IsInjective(m.gray) /\ s \notin Range(m.gray)
    BY <1>1 DEF Collectors, SlotSeqs, OnceListed, Pending
  <2>2. CASE n.gray = m.gray
    BY <2>1, <2>2
  <2>3. CASE n.gray = <<s>> \o m.gray /\ Traversed(h, s) /\ n.marked[s] = "gray"
    <3> DEFINE e == <<s>>
    <3>1. e \in Seq(Slots) /\ Range(e) = {s} /\ IsInjective(e)
      BY Single
    <3> HIDE DEF e
    <3>2. /\ Range(e \o m.gray) = Range(e) \cup Range(m.gray)
          /\ IsInjective(e \o m.gray) <=> IsInjective(e) /\ IsInjective(m.gray) /\ Range(e) \cap Range(m.gray) = {}
      BY <2>1, <3>1, Joined
    <3>3. n.gray = e \o m.gray
      BY <2>3 DEF e
    <3> QED BY <2>1, <2>3, <3>1, <3>2, <3>3
  <2> QED BY <2>2, <2>3
<1>5. Pending(n) \in {Pending(m), Pending(m) \cup {s}} /\ Pending(m) \subseteq Pending(n)
      /\ (s \in Pending(n) => s \in Range(n.gray)) /\ s \notin Pending(m)
  BY <1>1, <1>4 DEF Pending
<1>6. OnceListed(n)
  BY <1>1, <1>4, <1>5 DEF OnceListed, Pending
<1>7. \A o \in Pending(n) : o \in Slots /\ Traversed(h, o) /\ ~IsWhite(n, o)
  BY <1>1, <1>2, <1>4, <1>5
<1>8. Further(m, n)
  BY <1>2 DEF Further
<1>9. Keeping(m, n)
  BY <1>2, <1>4 DEF Keeping
<1>10. \A o \in Slots \ t2 : Right(h, n, ex, stage, o)
  <2> SUFFICES ASSUME NEW o \in Slots \ t2 PROVE Right(h, n, ex, stage, o)
    OBVIOUS
  <2>1. \A x \in Slots : ~IsWhite(m, x) => ~IsWhite(n, x)
    BY <1>2
  <2>2. CASE o # s
    <3>1. Right(h, m, ex, stage, o) /\ n.marked[o] = m.marked[o] /\ o \in Slots
      BY <2>2 DEF MarkInv
    <3>2. BlackRight(h, n, ex, o)
      BY <3>1, <2>1, FurtherMarked DEF Right, BlackRight
    <3>3. GrayRight(h, n, o)
      BY <3>1, <1>5 DEF Right, GrayRight
    <3>4. StageRight(h, n, stage, o)
      BY <3>1, <2>1, FurtherMarked DEF Right, StageRight
    <3>5. o \in Pending(n) => o \in Pending(m)
      BY <2>2, <1>5
    <3> QED BY <3>1, <3>2, <3>3, <3>4, <3>5 DEF Right
  <2>3. CASE o = s
    <3>1. n.marked[s] = "gray" /\ (h[s].tt = "string" \/ s \in Range(n.gray))
      BY <2>3
    <3>2. Grayens(h, s) /\ (h[s].tt = "string" \/ s \in Pending(n)) /\ ~IsOpen(h, s)
      BY <3>1, <1>4 DEF Grayens, Pending, IsOpen, Traversed
    <3>3. s \notin Range(n.weak) /\ s \notin Range(n.grayagain)
      BY <1>5 DEF Pending
    <3> QED BY <2>3, <3>1, <3>2, <3>3 DEF Right, BlackRight, GrayRight, StageRight
  <2> QED BY <2>2, <2>3
<1>11. t2 \in SUBSET Slots /\ \A o \in t2 : ~IsWhite(n, o) /\ h[o] # Free
  <2>1. m.marked[s] # "none"
    BY DEF IsWhite
  <2> QED BY <2>1, <1>1, <1>2
<1>12. MarkInv(h, n, ex, t2, stage) /\ Marked(n, s)
  BY <1>1, <1>2, <1>3, <1>6, <1>7, <1>10, <1>11 DEF MarkInv, Marked
<1> QED BY <1>12, <1>8, <1>9 DEF MarkedBy

(* An object of tmp all of whose values are marked leaves tmp.             *)
LEMMA Finished ==
  ASSUME NEW h, NEW m, NEW ex, NEW tmp, NEW t2, NEW stage, NEW s \in Slots, MarkInv(h, m, ex, t2, stage),
         t2 = tmp \cup {s}, tmp \in SUBSET Slots, Right(h, m, ex, stage, s)
  PROVE  MarkInv(h, m, ex, tmp, stage)
BY DEF MarkInv

(* An object of tmp may turn gray or black.                                *)
LEMMA RepaintedTmp ==
  ASSUME NEW h, NEW m, NEW ex, NEW tmp, NEW stage, MarkInv(h, m, ex, tmp, stage),
         NEW s \in tmp, NEW c \in {"gray", "black"}, NEW n, Painted(m, n, s, c)
  PROVE  /\ MarkInv(h, n, ex, tmp, stage) /\ Further(m, n)
         /\ \A o \in Slots : IsWhite(n, o) <=> IsWhite(m, o)
<1>1. /\ m \in Collectors /\ stage \in 0..3 /\ tmp \in SUBSET Slots /\ OnceListed(m) /\ s \in Slots
      /\ \A o \in Slots : m.marked[o] = "none" <=> h[o] = Free
      /\ \A o \in tmp : ~IsWhite(m, o) /\ h[o] # Free
      /\ \A o \in Pending(m) : o \in Slots /\ Traversed(h, o) /\ ~IsWhite(m, o)
  BY DEF MarkInv
<1>2. /\ n \in Collectors /\ n.marked[s] = c /\ \A o \in Slots : o # s => n.marked[o] = m.marked[o]
      /\ n.gray = m.gray /\ n.grayagain = m.grayagain /\ n.weak = m.weak
  BY DEF Painted
<1>3. \A o \in Slots : IsWhite(n, o) <=> IsWhite(m, o)
  BY <1>1, <1>2 DEF IsWhite
<1>4. Pending(n) = Pending(m) /\ OnceListed(n)
  BY <1>1, <1>2 DEF Pending, OnceListed
<1>5. Further(m, n)
  BY <1>2, <1>3 DEF Further, Painted
<1>6. \A o \in Slots \ tmp : Right(h, n, ex, stage, o)
  <2> SUFFICES ASSUME NEW o \in Slots \ tmp PROVE Right(h, n, ex, stage, o)
    OBVIOUS
  <2>1. Right(h, m, ex, stage, o) /\ n.marked[o] = m.marked[o] /\ o \in Slots
    BY <1>2 DEF MarkInv
  <2>2. BlackRight(h, n, ex, o)
    BY <2>1, <1>3, FurtherMarked DEF Right, BlackRight
  <2>3. GrayRight(h, n, o)
    BY <2>1, <1>4 DEF Right, GrayRight
  <2>4. StageRight(h, n, stage, o)
    BY <2>1, <1>2, <1>3, FurtherMarked DEF Right, StageRight
  <2> QED BY <2>1, <2>2, <2>3, <2>4, <1>4 DEF Right
<1>7. \A o \in Slots : n.marked[o] = "none" <=> h[o] = Free
  <2>1. h[s] # Free /\ n.marked[s] # "none"
    BY <1>1, <1>2
  <2> QED BY <1>1, <1>2, <2>1
<1> QED BY <1>1, <1>2, <1>3, <1>4, <1>5, <1>6, <1>7 DEF MarkInv

(* A value that is not a white object needs no marking.                    *)
LEMMA MarkedNothing ==
  ASSUME NEW h, NEW m, NEW ex, NEW tmp, NEW stage, MarkInv(h, m, ex, tmp, stage), NEW v,
         v \in Slots => ~IsWhite(m, v)
  PROVE  MarkedBy(h, m, m, v, ex, tmp, stage)
BY FurtherReflexive DEF MarkedBy, Marked

(* reallymarkobject for tables, functions, threads and strings.            *)
LEMMA MarkSimpleStep ==
  ASSUME NEW h, NEW m, NEW ex, NEW tmp, NEW stage, MarkInv(h, m, ex, tmp, stage), NEW v,
         (v \in Slots /\ IsWhite(m, v)) => h[v].tt \in {"table", "function", "thread", "string"}
  PROVE  MarkedBy(h, m, MarkSimple(h, m, v), v, ex, tmp, stage)
<1> DEFINE n == MarkSimple(h, m, v)
<1>1. m \in Collectors /\ "gray" \in Marks
  BY DEF MarkInv, Marks, Colours
<1>2. CASE v \notin Slots \/ ~IsWhite(m, v)
  <2>1. n = m
    BY <1>2 DEF MarkSimple
  <2> QED BY <2>1, <1>2, MarkedNothing
<1>3. CASE v \in Slots /\ IsWhite(m, v) /\ h[v].tt = "string"
  <2>1. n = Paint(m, v, "gray")
    BY <1>3 DEF MarkSimple
  <2> HIDE DEF n
  <2>2. Painted(m, n, v, "gray")
    BY <2>1, <1>1, <1>3, PaintIs
  <2>3. /\ n \in Collectors /\ n.marked[v] = "gray" /\ \A o \in Slots : o # v => n.marked[o] = m.marked[o]
        /\ n.rootgc = m.rootgc /\ n.currentwhite = m.currentwhite /\ n.gcstate = m.gcstate
        /\ n.full = m.full /\ n.sweepgc = m.sweepgc /\ n.sweepstrgc = m.sweepstrgc
        /\ n.grayagain = m.grayagain /\ n.weak = m.weak /\ n.gray = m.gray
    BY <2>2 DEF Painted
  <2>4. Repaints(h, m, n, v, tmp, tmp)
    BY <2>3, <1>3 DEF Repaints
  <2>5. MarkedBy(h, m, n, v, ex, tmp, stage)
    BY <2>4, <1>3, Repainted
  <2> QED BY <2>5 DEF n
<1>4. CASE v \in Slots /\ IsWhite(m, v) /\ h[v].tt # "string"
  <2>1. n = [m EXCEPT !.marked[v] = "gray", !.gray = <<v>> \o @]
    BY <1>4 DEF MarkSimple
  <2>2. n \in Collectors
    <3>1. <<v>> \o m.gray \in SlotSeqs
      BY <1>1, <1>4 DEF Collectors, SlotSeqs
    <3> DEFINE q == <<v>> \o m.gray
               c == [m.marked EXCEPT ![v] = "gray"]
    <3>2. q \in SlotSeqs /\ c \in [Slots -> Marks]
      BY <3>1, <1>1, <1>4 DEF Collectors
    <3>3. n = [m EXCEPT !.marked = c, !.gray = q]
      BY <2>1, <1>1 DEF Collectors
    <3> HIDE DEF q, c
    <3> QED BY <3>2, <3>3, <1>1 DEF Collectors
  <2>3. /\ n.marked[v] = "gray" /\ \A o \in Slots : o # v => n.marked[o] = m.marked[o]
        /\ n.rootgc = m.rootgc /\ n.currentwhite = m.currentwhite /\ n.gcstate = m.gcstate
        /\ n.full = m.full /\ n.sweepgc = m.sweepgc /\ n.sweepstrgc = m.sweepstrgc
        /\ n.grayagain = m.grayagain /\ n.weak = m.weak /\ n.gray = <<v>> \o m.gray
    BY <2>1, <1>1, <1>4 DEF Collectors
  <2> HIDE DEF n
  <2>4. Traversed(h, v)
    BY <1>4 DEF Traversed
  <2>5. v \in Range(n.gray)
    <3> DEFINE e == <<v>>
    <3>1. m.gray \in Seq(Slots) /\ e \in Seq(Slots) /\ Range(e) = {v}
      BY <1>1, <1>4, Single DEF Collectors, SlotSeqs
    <3> HIDE DEF e
    <3>2. Range(e \o m.gray) = Range(e) \cup Range(m.gray)
      BY <3>1, Joined
    <3>3. n.gray = e \o m.gray
      BY <2>3 DEF e
    <3> QED BY <3>1, <3>2, <3>3
  <2>6. Repaints(h, m, n, v, tmp, tmp)
    BY <2>2, <2>3, <2>4, <2>5, <1>4 DEF Repaints
  <2>7. MarkedBy(h, m, n, v, ex, tmp, stage)
    BY <2>6, <1>4, Repainted
  <2> QED BY <2>7 DEF n
<1> QED BY <1>2, <1>3, <1>4

(* A white object that turns gray or black joins tmp.                      *)
LEMMA PaintedTmp ==
  ASSUME NEW h, NEW m, NEW ex, NEW tmp, NEW stage, MarkInv(h, m, ex, tmp, stage),
         NEW s \in Slots, IsWhite(m, s), NEW c \in {"gray", "black"}, NEW t2, t2 = tmp \cup {s}
  PROVE  MarkedBy(h, m, Paint(m, s, c), s, ex, t2, stage) /\ Paint(m, s, c).marked[s] = c
<1> DEFINE n == Paint(m, s, c)
<1>1. m \in Collectors /\ c \in Marks
  BY DEF MarkInv, Marks, Colours
<1>2. Painted(m, n, s, c)
  BY <1>1, PaintIs
<1> HIDE DEF n
<1>3. /\ n \in Collectors /\ n.marked[s] = c /\ \A o \in Slots : o # s => n.marked[o] = m.marked[o]
      /\ n.rootgc = m.rootgc /\ n.currentwhite = m.currentwhite /\ n.gcstate = m.gcstate
      /\ n.full = m.full /\ n.sweepgc = m.sweepgc /\ n.sweepstrgc = m.sweepstrgc
      /\ n.grayagain = m.grayagain /\ n.weak = m.weak /\ n.gray = m.gray
  BY <1>2 DEF Painted
<1>4. Repaints(h, m, n, s, tmp, t2)
  BY <1>3 DEF Repaints
<1>5. MarkedBy(h, m, n, s, ex, t2, stage)
  BY <1>4, Repainted
<1> QED BY <1>3, <1>5 DEF n

(* A white object is of one of the six kinds.                              *)
LEMMA WhiteKinds ==
  ASSUME NEW h, NEW m, NEW ex, NEW tmp, NEW stage, MarkInv(h, m, ex, tmp, stage), WellFormed(h),
         NEW v \in Slots, IsWhite(m, v)
  PROVE  h[v].tt \in {"table", "userdata", "string", "function", "upval", "thread"}
<1>1. h[v] \in Objects /\ h[v] # Free
  BY DEF MarkInv, WellFormed, IsWhite
<1> QED BY <1>1 DEF Objects, TableObjects, UserdataObjects, StringObjects, FunctionObjects, UpvalObjects,
              ThreadObjects, FreeObjects, Free

(* reallymarkobject for userdata: the metatable is marked with it.         *)
LEMMA MarkUserdataStep ==
  ASSUME NEW h, NEW m, NEW ex, NEW tmp, NEW stage, MarkInv(h, m, ex, tmp, stage), WellFormed(h), NEW v,
         (v \in Slots /\ IsWhite(m, v)) => h[v].tt # "upval"
  PROVE  MarkedBy(h, m, MarkUserdata(h, m, v), v, ex, tmp, stage)
<1>1. CASE ~(IsA(h, v, "userdata") /\ IsWhite(m, v))
  <2>1. MarkUserdata(h, m, v) = MarkSimple(h, m, v)
    BY <1>1 DEF MarkUserdata
  <2>2. (v \in Slots /\ IsWhite(m, v)) => h[v].tt \in {"table", "function", "thread", "string"}
    BY <1>1, WhiteKinds DEF IsA
  <2> QED BY <2>1, <2>2, MarkSimpleStep
<1>2. CASE IsA(h, v, "userdata") /\ IsWhite(m, v)
  <2> DEFINE a == Paint(m, v, "black")
             n == MarkSimple(h, a, h[v].meta)
             t2 == tmp \cup {v}
  <2>1. v \in Slots /\ h[v].tt = "userdata"
    BY <1>2 DEF IsA
  <2>2. MarkUserdata(h, m, v) = n
    BY <1>2 DEF MarkUserdata
  <2>3. tmp \in SUBSET Slots /\ "black" \in {"gray", "black"}
    BY DEF MarkInv
  <2>4. t2 = tmp \cup {v}
    OBVIOUS
  <2> HIDE DEF t2
  <2>5. MarkedBy(h, m, a, v, ex, t2, stage) /\ a.marked[v] = "black"
    BY <2>1, <2>3, <2>4, <1>2, PaintedTmp
  <2> HIDE DEF a
  <2>6. MarkInv(h, a, ex, t2, stage) /\ Further(m, a) /\ Keeping(m, a) /\ a.marked[v] = "black"
    BY <2>5 DEF MarkedBy
  <2>7. (h[v].meta \in Slots /\ IsWhite(a, h[v].meta)) => h[h[v].meta].tt \in {"table", "function", "thread", "string"}
    BY <2>1 DEF WellFormed
  <2>8. MarkedBy(h, a, n, h[v].meta, ex, t2, stage)
    BY <2>6, <2>7, MarkSimpleStep
  <2> HIDE DEF n
  <2>9. MarkInv(h, n, ex, t2, stage) /\ Further(a, n) /\ Keeping(a, n) /\ Marked(n, h[v].meta)
    BY <2>8 DEF MarkedBy
  <2>10. n.marked[v] = "black"
    BY <2>1, <2>6, <2>9 DEF Keeping, IsWhite
  <2>11. Right(h, n, ex, stage, v)
    <3>1. v \notin Pending(n)
      BY <2>1, <2>9 DEF MarkInv, Traversed
    <3>2. AllMarked(h, n, v)
      BY <2>1, <2>9 DEF AllMarked, Held, Marked
    <3> QED BY <2>1, <2>10, <3>1, <3>2 DEF Right, BlackRight, GrayRight, StageRight, Blackens, Pending
  <2>12. MarkInv(h, n, ex, tmp, stage)
    BY <2>1, <2>3, <2>9, <2>4, <2>11, Finished
  <2>13. Further(m, n) /\ Keeping(m, n)
    <3>1. Range(n.gray) \subseteq Slots
      BY <2>9 DEF MarkInv, Pending
    <3> QED BY <3>1, <2>6, <2>9, FurtherTransitive
  <2>14. Marked(n, v)
    BY <2>10 DEF Marked, IsWhite
  <2> QED BY <2>2, <2>12, <2>13, <2>14 DEF MarkedBy
<1> QED BY <1>1, <1>2

(* reallymarkobject: the value is marked afterwards, and MarkInv holds.    *)
LEMMA MarkStep ==
  ASSUME NEW h, NEW m, NEW ex, NEW tmp, NEW stage, MarkInv(h, m, ex, tmp, stage), WellFormed(h), NEW v
  PROVE  MarkedBy(h, m, Mark(h, m, v), v, ex, tmp, stage)
<1>1. CASE ~(IsA(h, v, "upval") /\ IsWhite(m, v))
  <2>1. Mark(h, m, v) = MarkUserdata(h, m, v)
    BY <1>1 DEF Mark
  <2>2. (v \in Slots /\ IsWhite(m, v)) => h[v].tt # "upval"
    BY <1>1 DEF IsA
  <2> QED BY <2>1, <2>2, MarkUserdataStep
<1>2. CASE IsA(h, v, "upval") /\ IsWhite(m, v)
  <2> DEFINE a == Paint(m, v, "gray")
             n == MarkUserdata(h, a, UpvalValue(h, v))
             t2 == tmp \cup {v}
  <2>1. v \in Slots /\ h[v].tt = "upval"
    BY <1>2 DEF IsA
  <2>2. Mark(h, m, v) = IF h[v].open THEN n ELSE Paint(n, v, "black")
    BY <1>2 DEF Mark
  <2>3. tmp \in SUBSET Slots /\ "gray" \in {"gray", "black"}
    BY DEF MarkInv
  <2>4. t2 = tmp \cup {v}
    OBVIOUS
  <2> HIDE DEF t2
  <2>5. MarkedBy(h, m, a, v, ex, t2, stage) /\ a.marked[v] = "gray"
    BY <2>1, <2>3, <2>4, <1>2, PaintedTmp
  <2> HIDE DEF a
  <2>6. MarkInv(h, a, ex, t2, stage) /\ Further(m, a) /\ Keeping(m, a) /\ a.marked[v] = "gray"
    BY <2>5 DEF MarkedBy
  <2>7. (UpvalValue(h, v) \in Slots /\ IsWhite(a, UpvalValue(h, v))) => h[UpvalValue(h, v)].tt # "upval"
    BY <2>1 DEF WellFormed, FirstClass
  <2>8. MarkedBy(h, a, n, UpvalValue(h, v), ex, t2, stage)
    BY <2>6, <2>7, MarkUserdataStep
  <2> HIDE DEF n
  <2>9. MarkInv(h, n, ex, t2, stage) /\ Further(a, n) /\ Keeping(a, n) /\ Marked(n, UpvalValue(h, v))
    BY <2>8 DEF MarkedBy
  <2>10. n.marked[v] = "gray"
    BY <2>1, <2>6, <2>9 DEF Keeping, IsWhite
  <2>11. Range(n.gray) \subseteq Slots
    BY <2>9 DEF MarkInv, Pending
  <2>12. Further(m, n) /\ Keeping(m, n)
    BY <2>11, <2>6, <2>9, FurtherTransitive
  <2>13. CASE h[v].open
    <3>1. v \notin Pending(n)
      BY <2>1, <2>9 DEF MarkInv, Traversed
    <3>2. Right(h, n, ex, stage, v)
      BY <2>1, <2>9, <2>10, <2>13, <3>1 DEF Right, BlackRight, GrayRight, StageRight, Grayens, Pending, IsOpen
    <3>3. MarkInv(h, n, ex, tmp, stage)
      BY <2>1, <2>3, <2>9, <2>4, <3>2, Finished
    <3>4. Marked(n, v)
      BY <2>10 DEF Marked, IsWhite
    <3> QED BY <2>2, <2>12, <2>13, <3>3, <3>4 DEF MarkedBy
  <2>14. CASE ~h[v].open
    <3> DEFINE o == Paint(n, v, "black")
    <3>1. n \in Collectors /\ "black" \in Marks /\ "black" \in {"gray", "black"} /\ v \in t2
      BY <2>9, <2>4 DEF MarkInv, Marks, Colours
    <3>2. Painted(n, o, v, "black")
      BY <3>1, <2>1, PaintIs
    <3> HIDE DEF o
    <3>3. /\ MarkInv(h, o, ex, t2, stage) /\ Further(n, o)
          /\ \A x \in Slots : IsWhite(o, x) <=> IsWhite(n, x)
      BY <3>1, <3>2, <2>9, RepaintedTmp
    <3>4. o.marked[v] = "black" /\ o.gray = n.gray /\ o.grayagain = n.grayagain /\ o.weak = n.weak
          /\ \A x \in Slots : x # v => o.marked[x] = n.marked[x]
      BY <3>2 DEF Painted
    <3>5. v \notin Pending(o)
      BY <2>1, <3>3 DEF MarkInv, Traversed
    <3>6. AllMarked(h, o, v)
      BY <2>1, <2>9, <3>3 DEF AllMarked, Held, Marked
    <3>7. Right(h, o, ex, stage, v)
      BY <2>1, <2>14, <3>4, <3>5, <3>6 DEF Right, BlackRight, GrayRight, StageRight, Blackens, Pending, IsOpen
    <3>8. MarkInv(h, o, ex, tmp, stage)
      BY <2>1, <2>3, <2>4, <3>3, <3>7, Finished
    <3>9. Further(m, o)
      BY <2>12, <3>3, FurtherTransitive
    <3>10. Keeping(m, o)
      BY <2>12, <3>4, <1>2 DEF Keeping
    <3>11. Marked(o, v)
      BY <3>4 DEF Marked, IsWhite
    <3> QED BY <2>2, <2>14, <3>8, <3>9, <3>10, <3>11 DEF MarkedBy, o
  <2> QED BY <2>13, <2>14
<1> QED BY <1>1, <1>2

(* All the values of a list are marked.                                    *)
AllMarkedBy(h, m, n, seq, ex, tmp, stage) ==
  /\ MarkInv(h, n, ex, tmp, stage) /\ Further(m, n) /\ Keeping(m, n)
  /\ \A i \in DOMAIN seq : Marked(n, seq[i])

(* Marking the values of a list, one after the other.                      *)
LEMMA MarkAllStep ==
  ASSUME NEW h, NEW m, NEW ex, NEW tmp, NEW stage, MarkInv(h, m, ex, tmp, stage), WellFormed(h),
         NEW n \in Nat, NEW seq, DOMAIN seq = 1..n
  PROVE  AllMarkedBy(h, m, MarkAll(h, m, seq), seq, ex, tmp, stage)
<1> DEFINE M == {c \in Collectors : MarkInv(h, c, ex, tmp, stage) /\ Further(m, c) /\ Keeping(m, c)}
<1>1. m \in M
  BY FurtherReflexive DEF MarkInv
<1>2. ASSUME NEW c \in M, NEW v
      PROVE  Mark(h, c, v) \in M /\ Marked(Mark(h, c, v), v) /\ Further(c, Mark(h, c, v))
  <2>1. MarkInv(h, c, ex, tmp, stage) /\ Further(m, c) /\ Keeping(m, c)
    OBVIOUS
  <2> DEFINE d == Mark(h, c, v)
  <2>2. MarkedBy(h, c, d, v, ex, tmp, stage)
    BY <2>1, MarkStep
  <2> HIDE DEF d
  <2>3. MarkInv(h, d, ex, tmp, stage) /\ Further(c, d) /\ Keeping(c, d) /\ Marked(d, v)
    BY <2>2 DEF MarkedBy
  <2>4. Range(d.gray) \subseteq Slots /\ d \in Collectors
    BY <2>3 DEF MarkInv, Pending
  <2>5. Further(m, d) /\ Keeping(m, d)
    BY <2>1, <2>3, <2>4, FurtherTransitive
  <2> QED BY <2>3, <2>4, <2>5 DEF d
<1> HIDE DEF M
<1>3. \E W : MarkAllTrace(h, m, seq, M, n, W)
  <2>1. \A x \in M, i \in 1..n : Mark(h, x, seq[i]) \in M
    BY <1>2
  <2> QED BY <1>1, <2>1, MarkAllSteps
<1>4. PICK W : /\ W[0] = m /\ MarkAll(h, m, seq) = W[n]
               /\ \A i \in 1..n : W[i] = Mark(h, W[i - 1], seq[i])
               /\ \A i \in 0..n : W[i] \in M
  BY <1>3 DEF MarkAllTrace
<1> DEFINE A == {j \in 0..n : \A i \in 1..j : Marked(W[j], seq[i])}
<1>5. 0 \in A
  OBVIOUS
<1>6. ASSUME NEW j \in 1..n, j - 1 \in A PROVE j \in A
  <2>1. W[j - 1] \in M /\ W[j] = Mark(h, W[j - 1], seq[j])
    BY <1>4
  <2>2. Marked(W[j], seq[j]) /\ Further(W[j - 1], W[j])
    BY <2>1, <1>2
  <2>3. \A v : Marked(W[j - 1], v) => Marked(W[j], v)
    BY <2>2 DEF Further, Marked
  <2>4. \A i \in 1..j : i = j \/ i \in 1..(j - 1)
    OBVIOUS
  <2>5. \A i \in 1..(j - 1) : Marked(W[j - 1], seq[i])
    BY <1>6
  <2>6. \A i \in 1..j : Marked(W[j], seq[i])
    BY <2>2, <2>3, <2>4, <2>5
  <2> QED BY <2>6
<1> HIDE DEF A
<1>7. n \in A
  BY <1>5, <1>6, Induct
<1>8. \A i \in 1..n : Marked(W[n], seq[i])
  BY <1>7 DEF A
<1>9. W[n] \in M
  BY <1>4
<1> QED BY <1>4, <1>8, <1>9 DEF M, AllMarkedBy

(* A finite set as a list.                                                 *)
LEMMA SetAsList ==
  ASSUME NEW S, IsFiniteSet(S)
  PROVE  /\ SetToSeq(S) \in Seq(S) /\ Len(SetToSeq(S)) = Cardinality(S)
         /\ DOMAIN SetToSeq(S) = 1..Cardinality(S) /\ Cardinality(S) \in Nat
         /\ \A x \in S : \E i \in DOMAIN SetToSeq(S) : SetToSeq(S)[i] = x
<1> DEFINE n == Cardinality(S)
<1>1. n \in Nat /\ \E f : ExistsBijection(1..n, S)
  BY FS_CardinalityType
<1>2. PICK f \in [1..n -> S] : IsInjective(f)
  BY <1>1 DEF ExistsBijection, Bijection, Injection, IsInjective
<1>3. SetToSeq(S) \in [1..n -> S] /\ IsInjective(SetToSeq(S))
  BY <1>2, Zenon DEF SetToSeq
<1> DEFINE q == SetToSeq(S)
<1> HIDE DEF q
<1>4. IsFiniteSet(1..n) /\ Cardinality(1..n) = n
  BY <1>1, FS_Interval
<1>5. q \in Injection(1..n, S)
  BY <1>3 DEF Injection, IsInjective, q
<1>6. q \in Surjection(1..n, S)
  BY <1>4, <1>5, FS_Injection
<1>7. q \in Seq(S) /\ Len(q) = n /\ DOMAIN q = 1..n
  BY <1>1, <1>3 DEF q
<1>8. \A x \in S : \E i \in 1..n : q[i] = x
  BY <1>6 DEF Surjection
<1> QED BY <1>1, <1>7, <1>8 DEF q

(* What the mark phase has still to look at.                               *)
Work(m) == {s \in Slots : IsWhite(m, s) \/ s \in Range(m.gray)}
Traverses(h, m, n, ex, stage) ==
  /\ MarkInv(h, n, ex, {}, stage) /\ Further(m, n)
  /\ \E o \in Work(m) : Work(n) \subseteq Work(m) \ {o}

Popped(m, n, o) == o = Head(m.gray) /\ n = [Paint(m, o, "black") EXCEPT !.gray = Tail(@)]
(* The head of the list gray is black, and in no list.                     *)
Takes(h, m, n, o, ex, stage) ==
  /\ MarkInv(h, n, ex, {o}, stage) /\ Further(m, n) /\ n.marked[o] = "black"
  /\ n.grayagain = m.grayagain /\ n.weak = m.weak /\ n.gray = Tail(m.gray)
  /\ o \in Slots /\ Traversed(h, o) /\ o \notin Pending(n) /\ o \in Range(m.gray)
  /\ \A s \in Slots : IsWhite(n, s) <=> IsWhite(m, s)

(* The object propagatemark takes from the list gray is the only one in    *)
(* tmp.                                                                    *)
LEMMA TakeHead ==
  ASSUME NEW h, NEW m, NEW ex, NEW stage, MarkInv(h, m, ex, {}, stage), m.gray # <<>>,
         NEW o, NEW n, Popped(m, n, o)
  PROVE  Takes(h, m, n, o, ex, stage)
<1>1. /\ m \in Collectors /\ stage \in 0..3 /\ OnceListed(m)
      /\ \A s \in Slots : m.marked[s] = "none" <=> h[s] = Free
      /\ \A s \in Slots : Right(h, m, ex, stage, s)
      /\ \A s \in Pending(m) : s \in Slots /\ Traversed(h, s) /\ ~IsWhite(m, s)
  BY DEF MarkInv
<1>2. /\ m.gray \in Seq(Slots) /\ o \in Slots /\ Tail(m.gray) \in Seq(Slots)
      /\ Range(m.gray) = {o} \cup Range(Tail(m.gray))
      /\ IsInjective(Tail(m.gray)) /\ o \notin Range(Tail(m.gray))
  <2>1. m.gray \in Seq(Slots) /\ IsInjective(m.gray)
    BY <1>1 DEF Collectors, SlotSeqs, OnceListed
  <2> QED BY <2>1, Cut DEF Popped
<1>3. o \in Pending(m) /\ Traversed(h, o) /\ ~IsWhite(m, o) /\ m.marked[o] = "gray"
  BY <1>1, <1>2 DEF Pending, Right
<1> DEFINE a == Paint(m, o, "black")
<1>4. Painted(m, a, o, "black")
  BY <1>1, <1>2, PaintIs DEF Marks, Colours
<1> HIDE DEF a
<1>5. n = [a EXCEPT !.gray = Tail(m.gray)]
  BY <1>4 DEF Painted, Collectors, a, Popped
<1>6. /\ n \in Collectors /\ n.marked[o] = "black" /\ \A s \in Slots : s # o => n.marked[s] = m.marked[s]
      /\ n.rootgc = m.rootgc /\ n.currentwhite = m.currentwhite
      /\ n.gray = Tail(m.gray) /\ n.grayagain = m.grayagain /\ n.weak = m.weak /\ n.gcstate = m.gcstate
      /\ n.full = m.full /\ n.sweepgc = m.sweepgc /\ n.sweepstrgc = m.sweepstrgc
  <2>1. a \in Collectors /\ Tail(m.gray) \in SlotSeqs
    BY <1>2, <1>4 DEF Painted, SlotSeqs
  <2> HIDE DEF SlotSeqs
  <2>2. n \in Collectors
    BY <2>1, <1>5 DEF Collectors
  <2> QED BY <2>1, <2>2, <1>4, <1>5 DEF Painted, Collectors
<1>7. \A s \in Slots : IsWhite(n, s) <=> IsWhite(m, s)
  BY <1>3, <1>6 DEF IsWhite
<1>8. \A s \in Slots : ~IsWhite(m, s) => ~IsWhite(n, s)
  BY <1>7
<1>9. /\ \A v : Marked(m, v) => Marked(n, v)
      /\ \A s : AllMarked(h, m, s) => AllMarked(h, n, s)
      /\ \A s : StrongMarked(h, m, s) => StrongMarked(h, n, s)
  BY <1>8, FurtherMarked
<1>10. Pending(m) = Pending(n) \cup {o} /\ o \notin Pending(n)
  BY <1>1, <1>2, <1>6 DEF Pending, OnceListed
<1>11. OnceListed(n)
  BY <1>1, <1>2, <1>6 DEF OnceListed
<1>12. Further(m, n)
  BY <1>6, <1>7 DEF Further
<1>13. \A s \in Slots \ {o} : Right(h, n, ex, stage, s)
  <2> SUFFICES ASSUME NEW s \in Slots \ {o} PROVE Right(h, n, ex, stage, s)
    OBVIOUS
  <2>1. Right(h, m, ex, stage, s) /\ n.marked[s] = m.marked[s] /\ s \in Slots
    BY <1>1, <1>6
  <2>2. BlackRight(h, n, ex, s)
    BY <2>1, <1>9 DEF Right, BlackRight
  <2>3. GrayRight(h, n, s)
    BY <2>1, <1>10 DEF Right, GrayRight
  <2>4. StageRight(h, n, stage, s)
    BY <2>1, <1>6, <1>9 DEF Right, StageRight
  <2> QED BY <2>1, <2>2, <2>3, <2>4, <1>10 DEF Right
<1>14. \A s \in Slots : n.marked[s] = "none" <=> h[s] = Free
  <2>1. h[o] # Free /\ n.marked[o] # "none"
    BY <1>1, <1>2, <1>3, <1>6
  <2> QED BY <1>1, <1>6, <2>1
<1>15. ~IsWhite(n, o) /\ h[o] # Free
  BY <1>2, <1>6, <1>14 DEF IsWhite
<1>16. \A s \in Pending(n) : s \in Slots /\ Traversed(h, s) /\ ~IsWhite(n, s)
  BY <1>1, <1>7, <1>10
<1>17. MarkInv(h, n, ex, {o}, stage)
  BY <1>1, <1>2, <1>6, <1>11, <1>13, <1>14, <1>15, <1>16 DEF MarkInv
<1>18. o \in Range(m.gray)
  BY <1>2
<1> QED BY <1>2, <1>3, <1>6, <1>7, <1>10, <1>12, <1>17, <1>18 DEF Takes

(* A traversed object enters the list grayagain or the list weak.          *)
Enlists(m, n, o) ==
  /\ n \in Collectors /\ n.marked = m.marked /\ n.gray = m.gray
  /\ n.rootgc = m.rootgc /\ n.currentwhite = m.currentwhite /\ n.gcstate = m.gcstate
  /\ n.full = m.full /\ n.sweepgc = m.sweepgc /\ n.sweepstrgc = m.sweepstrgc
  /\ \/ n.grayagain = <<o>> \o m.grayagain /\ n.weak = m.weak
     \/ n.grayagain = m.grayagain /\ n.weak = <<o>> \o m.weak

(* MarkInv holds with the traversed object in its new list.                *)
LEMMA Enlisted ==
  ASSUME NEW h, NEW m, NEW ex, NEW stage, NEW o \in Slots, MarkInv(h, m, ex, {o}, stage),
         Traversed(h, o), o \notin Pending(m), NEW n, Enlists(m, n, o)
  PROVE  MarkInv(h, n, ex, {o}, stage) /\ Further(m, n)
<1>1. /\ m \in Collectors /\ stage \in 0..3 /\ OnceListed(m) /\ ~IsWhite(m, o) /\ h[o] # Free
      /\ \A s \in Slots : m.marked[s] = "none" <=> h[s] = Free
      /\ \A s \in Slots \ {o} : Right(h, m, ex, stage, s)
      /\ \A s \in Pending(m) : s \in Slots /\ Traversed(h, s) /\ ~IsWhite(m, s)
  BY DEF MarkInv
<1>2. \A s : IsWhite(n, s) <=> IsWhite(m, s)
  BY DEF Enlists, IsWhite
<1>3. ASSUME NEW q \in Seq(Slots), IsInjective(q), o \notin Range(q)
      PROVE  IsInjective(<<o>> \o q) /\ Range(<<o>> \o q) = Range(q) \cup {o}
  <2> DEFINE e == <<o>>
  <2>1. e \in Seq(Slots) /\ Range(e) = {o} /\ IsInjective(e)
    BY Single
  <2> HIDE DEF e
  <2>2. /\ Range(e \o q) = Range(e) \cup Range(q)
        /\ IsInjective(e \o q) <=> IsInjective(e) /\ IsInjective(q) /\ Range(e) \cap Range(q) = {}
    BY <2>1, Joined
  <2>3. IsInjective(e \o q) /\ Range(e \o q) = Range(q) \cup {o}
    BY <1>3, <2>1, <2>2
  <2> QED BY <2>3 DEF e
<1>4. /\ m.grayagain \in Seq(Slots) /\ IsInjective(m.grayagain) /\ o \notin Range(m.grayagain)
      /\ m.weak \in Seq(Slots) /\ IsInjective(m.weak) /\ o \notin Range(m.weak)
      /\ o \notin Range(m.gray)
  BY <1>1 DEF Collectors, SlotSeqs, OnceListed, Pending
<1>5. /\ OnceListed(n) /\ Pending(n) = Pending(m) \cup {o}
      /\ \A s \in Range(n.weak) : s = o \/ s \in Range(m.weak)
      /\ \A s \in Range(n.grayagain) : s = o \/ s \in Range(m.grayagain)
  <2>1. CASE n.grayagain = <<o>> \o m.grayagain /\ n.weak = m.weak
    <3>1. IsInjective(n.grayagain) /\ Range(n.grayagain) = Range(m.grayagain) \cup {o}
      BY <1>3, <1>4, <2>1
    <3> QED BY <3>1, <1>1, <1>4, <2>1 DEF OnceListed, Pending, Enlists
  <2>2. CASE n.grayagain = m.grayagain /\ n.weak = <<o>> \o m.weak
    <3>1. IsInjective(n.weak) /\ Range(n.weak) = Range(m.weak) \cup {o}
      BY <1>3, <1>4, <2>2
    <3> QED BY <3>1, <1>1, <1>4, <2>2 DEF OnceListed, Pending, Enlists
  <2> QED BY <2>1, <2>2 DEF Enlists
<1>6. \A s \in Slots \ {o} : Right(h, n, ex, stage, s)
  <2> SUFFICES ASSUME NEW s \in Slots \ {o} PROVE Right(h, n, ex, stage, s)
    OBVIOUS
  <2>1. Right(h, m, ex, stage, s) /\ n.marked[s] = m.marked[s] /\ s \in Slots /\ s # o
    BY <1>1 DEF Enlists
  <2>2. BlackRight(h, n, ex, s)
    BY <2>1, <1>2, FurtherMarked DEF Right, BlackRight
  <2>3. GrayRight(h, n, s)
    BY <2>1, <1>5 DEF Right, GrayRight
  <2>4. StageRight(h, n, stage, s)
    BY <2>1, <1>2, <1>5, FurtherMarked DEF Right, StageRight
  <2> QED BY <2>1, <2>2, <2>3, <2>4, <1>5 DEF Right
<1>7. \A s \in Pending(n) : s \in Slots /\ Traversed(h, s) /\ ~IsWhite(n, s)
  BY <1>1, <1>2, <1>5
<1>8. MarkInv(h, n, ex, {o}, stage)
  BY <1>1, <1>2, <1>5, <1>6, <1>7 DEF MarkInv, Enlists
<1>9. Further(m, n)
  BY <1>2 DEF Further, Enlists
<1> QED BY <1>8, <1>9

(* The traversed object is done: the conclusion common to the cases.       *)
LEMMA TraversalDone ==
  ASSUME NEW h, NEW m, NEW a, NEW n, NEW o, NEW ex, NEW stage,
         Takes(h, m, a, o, ex, stage), MarkInv(h, n, ex, {o}, stage), Further(a, n),
         \A s \in Range(n.gray) : s \in Range(a.gray) \/ IsWhite(a, s),
         Right(h, n, ex, stage, o), m.gray # <<>>, m.gray \in Seq(Slots), Popped(m, a, o)
  PROVE  Traverses(h, m, n, ex, stage)
<1>1. o \in Slots /\ {o} = {} \cup {o} /\ {} \in SUBSET Slots
  BY DEF Takes
<1>2. MarkInv(h, n, ex, {}, stage)
  BY <1>1, Finished
<1>3. Further(m, n)
  BY FurtherTransitive DEF Takes
<1>4. Head(m.gray) = o /\ o \in Range(m.gray) /\ o \notin Range(Tail(m.gray))
      /\ \A s \in Range(Tail(m.gray)) : s \in Range(m.gray)
  <2>1. o \notin Range(a.gray) /\ a.gray = Tail(m.gray)
    BY DEF Takes, Pending
  <2>2. Head(m.gray) = o
    BY DEF Popped
  <2> QED BY <2>1, <2>2, Cut
<1>5. o \in Work(m)
  BY <1>1, <1>4 DEF Work
<1>6. \A s \in Work(n) : s \in Work(m) \ {o}
  <2> SUFFICES ASSUME NEW s \in Work(n) PROVE s \in Work(m) \ {o}
    OBVIOUS
  <2>1. s \in Slots /\ (IsWhite(n, s) \/ s \in Range(n.gray))
    BY DEF Work
  <2>2. CASE IsWhite(n, s)
    <3>1. IsWhite(a, s)
      BY <2>1, <2>2 DEF Further
    <3>2. IsWhite(m, s) /\ s # o
      BY <2>1, <3>1 DEF Takes, IsWhite
    <3> QED BY <2>1, <3>2 DEF Work
  <2>3. CASE s \in Range(n.gray)
    <3>1. s \in Range(Tail(m.gray)) \/ IsWhite(m, s)
      BY <2>1, <2>3 DEF Takes
    <3>2. s # o
      BY <1>4, <3>1, <2>1, <2>3 DEF Takes, IsWhite
    <3> QED BY <2>1, <3>1, <3>2, <1>4 DEF Work
  <2> QED BY <2>1, <2>2, <2>3
<1> QED BY <1>2, <1>3, <1>5, <1>6 DEF Traverses

(* traverseclosure: its upvalues are marked, and the function is black.    *)
LEMMA FunctionTraversed ==
  ASSUME NEW h, NEW m, NEW ex, NEW stage, MarkInv(h, m, ex, {}, stage), WellFormed(h), m.gray # <<>>,
         NEW o, NEW a, Popped(m, a, o), h[o].tt = "function"
  PROVE  Traverses(h, m, TraverseClosure(h, a, o), ex, stage)
<1>1. Takes(h, m, a, o, ex, stage)
  BY TakeHead
<1>2. o \in Slots /\ MarkInv(h, a, ex, {o}, stage) /\ a.marked[o] = "black" /\ o \notin Pending(a)
      /\ m.gray \in Seq(Slots)
  BY <1>1 DEF Takes, MarkInv, Collectors, SlotSeqs
<1> DEFINE q == h[o].upvals
           n == MarkAll(h, a, q)
<1>3. q \in Seq(Slots) /\ Len(q) \in Nat /\ DOMAIN q = 1..Len(q) /\ \A x \in Range(q) : \E i \in DOMAIN q : q[i] = x
  <2>1. q \in Seq(Slots)
    BY <1>2, Kinds, KindsAre DEF WellFormed
  <2> QED BY <2>1, SeqParts
<1>4. TraverseClosure(h, a, o) = n
  BY DEF TraverseClosure
<1> HIDE DEF q
<1>5. AllMarkedBy(h, a, n, q, ex, {o}, stage)
  BY <1>2, <1>3, MarkAllStep
<1> HIDE DEF n
<1>6. MarkInv(h, n, ex, {o}, stage) /\ Further(a, n) /\ Keeping(a, n) /\ \A x \in Range(q) : Marked(n, x)
  BY <1>3, <1>5 DEF AllMarkedBy
<1>7. n.marked[o] = "black"
  BY <1>2, <1>6 DEF Keeping, IsWhite
<1>8. AllMarked(h, n, o)
  BY <1>6 DEF AllMarked, Held, Marked, q
<1>9. o \notin Pending(n)
  BY <1>2, <1>6 DEF Keeping, Pending, IsWhite
<1>10. Right(h, n, ex, stage, o)
  BY <1>7, <1>8, <1>9 DEF Right, BlackRight, GrayRight, StageRight, Pending, Blackens
<1>11. \A s \in Range(n.gray) : s \in Range(a.gray) \/ IsWhite(a, s)
  BY <1>6 DEF Keeping
<1>12. Traverses(h, m, n, ex, stage)
  BY <1>1, <1>2, <1>6, <1>10, <1>11, TraversalDone
<1> QED BY <1>4, <1>12

(* traversestack: its registers are marked, and the thread is gray again,  *)
(* in grayagain.                                                           *)
LEMMA ThreadTraversed ==
  ASSUME NEW h, NEW m, NEW ex, NEW stage, MarkInv(h, m, ex, {}, stage), WellFormed(h), m.gray # <<>>,
         NEW o, NEW a, Popped(m, a, o), h[o].tt = "thread"
  PROVE  Traverses(h, m, TraverseStack(h, a, o), ex, stage)
<1>1. Takes(h, m, a, o, ex, stage)
  BY TakeHead
<1>2. /\ o \in Slots /\ MarkInv(h, a, ex, {o}, stage) /\ a.marked[o] = "black" /\ o \notin Pending(a)
      /\ m.gray \in Seq(Slots) /\ Traversed(h, o) /\ a \in Collectors
  BY <1>1 DEF Takes, MarkInv, Collectors, SlotSeqs
<1> DEFINE b == [a EXCEPT !.grayagain = <<o>> \o @]
           c == Paint(b, o, "gray")
           q == <<Globals, h[o].resumed>> \o h[o].stack
           n == MarkAll(h, c, q)
<1>3. /\ q \in Seq(Values) /\ Len(q) \in Nat /\ DOMAIN q = 1..Len(q)
      /\ \A x \in Range(q) : \E i \in DOMAIN q : q[i] = x
      /\ Range(q) = {Globals, h[o].resumed} \cup Range(h[o].stack)
  <2>1. h[o].stack \in [Registers -> Values] /\ h[o].resumed \in Pointers
    BY <1>2, Kinds, KindsAre DEF WellFormed
  <2>2. Cardinality(Registers) \in Nat
    BY HeapAssumption, FS_CardinalityType
  <2>3. h[o].stack \in Seq(Values)
    BY <2>1, <2>2, HeapAssumption
  <2> DEFINE e == <<Globals, h[o].resumed>>
  <2>4. e \in Seq(Values) /\ Range(e) = {Globals, h[o].resumed}
    BY <2>1, HeapAssumption DEF Values, Pointers, Range
  <2> HIDE DEF e
  <2>5. e \o h[o].stack \in Seq(Values) /\ Range(e \o h[o].stack) = Range(e) \cup Range(h[o].stack)
    BY <2>3, <2>4, Joined
  <2>6. q = e \o h[o].stack
    BY DEF e
  <2> HIDE DEF q
  <2>7. q \in Seq(Values) /\ Range(q) = {Globals, h[o].resumed} \cup Range(h[o].stack)
    BY <2>4, <2>5, <2>6
  <2> QED BY <2>7, SeqParts
<1>4. TraverseStack(h, a, o) = n
  BY DEF TraverseStack
<1> HIDE DEF q
<1>5. Enlists(a, b, o)
  <2>1. a.grayagain \in Seq(Slots)
    BY <1>2 DEF Collectors, SlotSeqs
  <2>2. <<o>> \o a.grayagain \in SlotSeqs
    BY <2>1, <1>2 DEF SlotSeqs
  <2> DEFINE d == <<o>> \o a.grayagain
  <2>3. d \in SlotSeqs /\ b = [a EXCEPT !.grayagain = d]
    BY <2>2, <1>2 DEF Collectors
  <2> HIDE DEF d, b
  <2>4. /\ b \in Collectors /\ b.marked = a.marked /\ b.gray = a.gray
        /\ b.rootgc = a.rootgc /\ b.currentwhite = a.currentwhite /\ b.gcstate = a.gcstate
        /\ b.full = a.full /\ b.sweepgc = a.sweepgc /\ b.sweepstrgc = a.sweepstrgc
        /\ b.grayagain = d /\ b.weak = a.weak
    BY <2>3, <1>2 DEF Collectors
  <2> QED BY <2>4 DEF Enlists, d
<1> HIDE DEF b
<1>6. MarkInv(h, b, ex, {o}, stage) /\ Further(a, b) /\ b.gray = a.gray /\ b \in Collectors
      /\ b.grayagain = <<o>> \o a.grayagain /\ b.weak = a.weak
  <2>1. MarkInv(h, b, ex, {o}, stage) /\ Further(a, b)
    BY <1>2, <1>5, Enlisted
  <2>2. b.grayagain = <<o>> \o a.grayagain /\ b.weak = a.weak
    BY <1>2 DEF b, Collectors
  <2> QED BY <1>5, <2>1, <2>2 DEF Enlists
<1>7. Painted(b, c, o, "gray")
  BY <1>2, <1>6, PaintIs DEF Marks, Colours
<1> HIDE DEF c
<1>8. MarkInv(h, c, ex, {o}, stage) /\ Further(b, c) /\ \A s \in Slots : IsWhite(c, s) <=> IsWhite(b, s)
  <2>1. o \in {o} /\ "gray" \in {"gray", "black"}
    OBVIOUS
  <2> QED BY <1>6, <1>7, <2>1, RepaintedTmp
<1>9. c.gray = a.gray /\ c.grayagain = <<o>> \o a.grayagain /\ c.weak = a.weak /\ c.marked[o] = "gray"
      /\ \A s \in Slots : IsWhite(c, s) <=> IsWhite(a, s)
  BY <1>5, <1>6, <1>7, <1>8 DEF Painted, Enlists, IsWhite
<1>10. AllMarkedBy(h, c, n, q, ex, {o}, stage)
  BY <1>3, <1>8, MarkAllStep
<1> HIDE DEF n
<1>11. MarkInv(h, n, ex, {o}, stage) /\ Further(c, n) /\ Keeping(c, n) /\ \A x \in Range(q) : Marked(n, x)
  BY <1>3, <1>10 DEF AllMarkedBy
<1>12. n.marked[o] = "gray"
  BY <1>2, <1>9, <1>11 DEF Keeping, IsWhite
<1>13. AllMarked(h, n, o)
  BY <1>3, <1>11 DEF AllMarked, Held, Marked
<1>14. o \in Range(n.grayagain) /\ o \notin Range(n.weak)
  <2>1. n.grayagain = <<o>> \o a.grayagain /\ n.weak = a.weak /\ a.grayagain \in Seq(Slots)
    BY <1>2, <1>9, <1>11 DEF Keeping, Collectors, SlotSeqs
  <2> DEFINE e == <<o>>
  <2>2. e \in Seq(Slots) /\ Range(e) = {o}
    BY <1>2, Single
  <2> HIDE DEF e
  <2>3. Range(e \o a.grayagain) = Range(e) \cup Range(a.grayagain)
    BY <2>1, <2>2, Joined
  <2> QED BY <2>1, <2>2, <2>3, <1>2 DEF e, Pending
<1>15. Right(h, n, ex, stage, o)
  BY <1>12, <1>13, <1>14, <1>2 DEF Right, BlackRight, GrayRight, StageRight, Pending, Grayens, IsOpen
<1>16. \A s \in Range(n.gray) : s \in Range(a.gray) \/ IsWhite(a, s)
  <2>1. Range(n.gray) \subseteq Slots
    BY <1>11 DEF MarkInv, Pending
  <2> QED BY <1>9, <1>11, <2>1 DEF Keeping
<1>17. Further(a, n)
  BY <1>6, <1>8, <1>11, FurtherTransitive
<1>18. Traverses(h, m, n, ex, stage)
  BY <1>1, <1>2, <1>11, <1>15, <1>16, <1>17, TraversalDone
<1> QED BY <1>4, <1>18

(* The values a table makes traversetable mark: those of its strong sides. *)
LEMMA EntriesAsLists ==
  ASSUME NEW t \in TableObjects, NEW keys, keys = SetToSeq(DOMAIN t.entries),
         NEW values, values = [i \in DOMAIN keys |-> t.entries[keys[i]]]
  PROVE  /\ keys \in Seq(Values) /\ values \in Seq(Values) /\ <<t.meta>> \in Seq(Values)
         /\ \A k \in DOMAIN t.entries : k \in Range(keys) /\ t.entries[k] \in Range(values)
         /\ t.meta \in Range(<<t.meta>>)
<1> DEFINE e == t.entries
<1>1. PICK D \in SUBSET Values : e \in [D -> Values]
  BY KindsAre
<1>2. IsFiniteSet(Values)
  <2>1. IsFiniteSet({Nil}) /\ IsFiniteSet({Number}) /\ IsFiniteSet(Slots)
    BY HeapAssumption, FS_Singleton
  <2>2. IsFiniteSet({Nil} \cup {Number})
    BY <2>1, FS_Union
  <2>3. {Nil, Number} = {Nil} \cup {Number}
    OBVIOUS
  <2> QED BY <2>1, <2>2, <2>3, FS_Union DEF Values
<1>3. D = DOMAIN e /\ IsFiniteSet(D) /\ \A k \in D : e[k] \in Values
  BY <1>1, <1>2, FS_Subset
<1> HIDE DEF e
<1>4. /\ keys \in Seq(D) /\ Len(keys) \in Nat /\ DOMAIN keys = 1..Len(keys)
      /\ \A x \in D : \E i \in DOMAIN keys : keys[i] = x
  <2>1. keys = SetToSeq(D)
    BY <1>3 DEF e
  <2> QED BY <2>1, <1>3, SetAsList
<1>5. keys \in Seq(Values) /\ \A i \in 1..Len(keys) : keys[i] \in D
  BY <1>4
<1>6. values \in Seq(Values)
  <2>1. \A i \in DOMAIN keys : t.entries[keys[i]] \in Values
    BY <1>3, <1>4, <1>5 DEF e
  <2> QED BY <2>1, <1>4
<1>7. \A k \in D : k \in Range(keys) /\ e[k] \in Range(values)
  <2> TAKE k \in D
  <2>1. PICK i \in DOMAIN keys : keys[i] = k
    BY <1>4
  <2>2. values[i] = e[k] /\ i \in DOMAIN values
    BY <2>1 DEF e
  <2> QED BY <2>1, <2>2 DEF Range
<1>8. <<t.meta>> \in Seq(Values) /\ t.meta \in Range(<<t.meta>>)
  <2>1. t.meta \in Values
    BY KindsAre DEF Pointers, Values
  <2> QED BY <2>1, Single
<1> QED BY <1>3, <1>5, <1>6, <1>7, <1>8 DEF e

(* traversetable: the strong sides are marked; a weak table stays gray, in *)
(* the list weak.                                                          *)
LEMMA TableTraversed ==
  ASSUME NEW h, NEW m, NEW ex, NEW stage, MarkInv(h, m, ex, {}, stage), WellFormed(h), m.gray # <<>>,
         NEW o, NEW a, Popped(m, a, o), h[o].tt = "table"
  PROVE  Traverses(h, m, IF Mode(h, o) = {} THEN TraverseTable(h, a, o)
                         ELSE Paint(TraverseTable(h, a, o), o, "gray"), ex, stage)
<1>1. Takes(h, m, a, o, ex, stage)
  BY TakeHead
<1>2. /\ o \in Slots /\ MarkInv(h, a, ex, {o}, stage) /\ a.marked[o] = "black" /\ o \notin Pending(a)
      /\ m.gray \in Seq(Slots) /\ Traversed(h, o) /\ a \in Collectors
  BY <1>1 DEF Takes, MarkInv, Collectors, SlotSeqs
<1> DEFINE e == h[o].entries
           b == [a EXCEPT !.weak = IF Mode(h, o) = {} THEN @ ELSE <<o>> \o @]
           keys == SetToSeq(DOMAIN e)
           values == [i \in DOMAIN keys |-> e[keys[i]]]
           w1 == IF "v" \in Mode(h, o) THEN <<>> ELSE values
           w2 == IF "k" \in Mode(h, o) THEN <<>> ELSE keys
           q == <<h[o].meta>> \o w1 \o w2
           n == MarkAll(h, b, q)
<1>3. TraverseTable(h, a, o) = n
  BY DEF TraverseTable
<1> HIDE DEF n
<1>4. /\ keys \in Seq(Values) /\ values \in Seq(Values) /\ <<h[o].meta>> \in Seq(Values)
      /\ \A k \in DOMAIN e : k \in Range(keys) /\ e[k] \in Range(values)
      /\ h[o].meta \in Range(<<h[o].meta>>)
  <2>1. h[o] \in TableObjects
    BY <1>2, Kinds DEF WellFormed
  <2> QED BY <2>1, EntriesAsLists
<1> HIDE DEF keys, values
<1>5. /\ w1 \in Seq(Values) /\ w2 \in Seq(Values)
      /\ "v" \notin Mode(h, o) => \A k \in DOMAIN e : e[k] \in Range(w1)
      /\ "k" \notin Mode(h, o) => \A k \in DOMAIN e : k \in Range(w2)
  <2>1. w1 \in Seq(Values) /\ w2 \in Seq(Values)
    BY <1>4
  <2> QED BY <1>4, <2>1
<1> HIDE DEF w1, w2
<1>6. /\ q \in Seq(Values) /\ Len(q) \in Nat /\ DOMAIN q = 1..Len(q)
      /\ \A x \in Range(q) : \E i \in DOMAIN q : q[i] = x
      /\ Range(w1) \subseteq Range(q) /\ Range(w2) \subseteq Range(q) /\ h[o].meta \in Range(q)
  <2> DEFINE q1 == <<h[o].meta>>
             q2 == q1 \o w1
  <2>1. q1 \in Seq(Values) /\ h[o].meta \in Range(q1)
    BY <1>4
  <2> HIDE DEF q1
  <2>2. q2 \in Seq(Values) /\ Range(q2) = Range(q1) \cup Range(w1)
    BY <1>5, <2>1, Joined
  <2> HIDE DEF q2
  <2>3. q2 \o w2 \in Seq(Values) /\ Range(q2 \o w2) = Range(q2) \cup Range(w2)
    BY <1>5, <2>2, Joined
  <2>4. q = q2 \o w2
    BY DEF q1, q2
  <2> HIDE DEF q
  <2>5. q \in Seq(Values) /\ Range(q) = Range(q2) \cup Range(w2)
    BY <2>3, <2>4
  <2>6. Len(q) \in Nat /\ DOMAIN q = 1..Len(q) /\ \A x \in Range(q) : \E i \in DOMAIN q : q[i] = x
    BY <2>5, SeqParts
  <2> QED BY <2>1, <2>2, <2>5, <2>6
<1> HIDE DEF q
<1>7. /\ MarkInv(h, b, ex, {o}, stage) /\ Further(a, b) /\ b.gray = a.gray /\ b.marked = a.marked
      /\ b.grayagain = a.grayagain /\ b.weak = IF Mode(h, o) = {} THEN a.weak ELSE <<o>> \o a.weak
  <2>1. CASE Mode(h, o) = {}
    <3>1. b = a
      BY <1>2, <2>1 DEF Collectors
    <3>2. Further(a, a)
      BY FurtherReflexive
    <3> QED BY <2>1, <3>1, <3>2, <1>2
  <2>2. CASE Mode(h, o) # {}
    <3>1. b = [a EXCEPT !.weak = <<o>> \o @]
      BY <2>2
    <3> HIDE DEF b
    <3>2. a.weak \in Seq(Slots)
      BY <1>2 DEF Collectors, SlotSeqs
    <3>3. <<o>> \o a.weak \in SlotSeqs
      BY <3>2, <1>2 DEF SlotSeqs
    <3> DEFINE d == <<o>> \o a.weak
    <3>4. d \in SlotSeqs /\ b = [a EXCEPT !.weak = d]
      BY <3>1, <3>3, <1>2 DEF Collectors
    <3> HIDE DEF d
    <3>5. /\ b \in Collectors /\ b.marked = a.marked /\ b.gray = a.gray
          /\ b.rootgc = a.rootgc /\ b.currentwhite = a.currentwhite /\ b.gcstate = a.gcstate
          /\ b.full = a.full /\ b.sweepgc = a.sweepgc /\ b.sweepstrgc = a.sweepstrgc
          /\ b.grayagain = a.grayagain /\ b.weak = d
      BY <3>4, <1>2 DEF Collectors
    <3>6. Enlists(a, b, o)
      BY <3>5 DEF Enlists, d
    <3>7. MarkInv(h, b, ex, {o}, stage) /\ Further(a, b)
      BY <1>2, <3>6, Enlisted
    <3> QED BY <2>2, <3>5, <3>7 DEF d
  <2> QED BY <2>1, <2>2
<1> HIDE DEF b
<1>8. AllMarkedBy(h, b, n, q, ex, {o}, stage)
  BY <1>6, <1>7, MarkAllStep DEF n
<1>9. MarkInv(h, n, ex, {o}, stage) /\ Further(b, n) /\ Keeping(b, n) /\ \A x \in Range(q) : Marked(n, x)
  BY <1>6, <1>8 DEF AllMarkedBy
<1>10. \A s \in Slots : IsWhite(b, s) <=> IsWhite(a, s)
  BY <1>7 DEF IsWhite
<1>11. n.marked[o] = "black" /\ o \notin Range(n.gray) /\ o \notin Range(n.grayagain)
  BY <1>2, <1>7, <1>9 DEF Keeping, IsWhite, Pending
<1>12. \A s \in Range(n.gray) : s \in Range(a.gray) \/ IsWhite(a, s)
  <2>1. Range(n.gray) \subseteq Slots
    BY <1>9 DEF MarkInv, Pending
  <2> QED BY <1>7, <1>9, <1>10, <2>1 DEF Keeping
<1>13. Further(a, n)
  BY <1>7, <1>9, FurtherTransitive
<1>14. StrongMarked(h, n, o)
  BY <1>5, <1>6, <1>9 DEF StrongMarked
<1>15. CASE Mode(h, o) = {}
  <2>1. o \notin Range(n.weak)
    BY <1>2, <1>7, <1>9, <1>15 DEF Keeping, Pending
  <2>2. AllMarked(h, n, o)
    <3>1. Marked(n, h[o].meta) /\ \A k \in DOMAIN h[o].entries : Marked(n, k) /\ Marked(n, h[o].entries[k])
      BY <1>14, <1>15 DEF StrongMarked
    <3>2. \A v \in Held(h, o) : v \in Slots /\ (v = h[o].meta \/ v \in DOMAIN h[o].entries \/ v \in Range(h[o].entries))
      BY DEF Held
    <3>3. \A v \in Held(h, o) : v \in Slots /\ (v = h[o].meta \/ v \in DOMAIN h[o].entries
                                                \/ \E k \in DOMAIN h[o].entries : v = h[o].entries[k])
      BY <3>2 DEF Range
    <3> QED BY <3>1, <3>3 DEF AllMarked, Marked
  <2>3. Right(h, n, ex, stage, o)
    BY <1>11, <2>1, <2>2 DEF Right, BlackRight, GrayRight, StageRight, Pending, Blackens
  <2>4. Traverses(h, m, n, ex, stage)
    BY <1>1, <1>2, <1>9, <1>12, <1>13, <2>3, TraversalDone
  <2> QED BY <1>3, <1>15, <2>4
<1>16. CASE Mode(h, o) # {}
  <2> DEFINE c == Paint(n, o, "gray")
  <2>1. n \in Collectors /\ "gray" \in Marks
    BY <1>9 DEF MarkInv, Marks, Colours
  <2>2. Painted(n, c, o, "gray")
    BY <1>2, <2>1, PaintIs
  <2> HIDE DEF c
  <2>3. MarkInv(h, c, ex, {o}, stage) /\ Further(n, c) /\ \A s \in Slots : IsWhite(c, s) <=> IsWhite(n, s)
    <3>1. o \in {o} /\ "gray" \in {"gray", "black"}
      OBVIOUS
    <3> QED BY <1>9, <2>2, <3>1, RepaintedTmp
  <2>4. c.marked[o] = "gray" /\ c.gray = n.gray /\ c.weak = n.weak /\ c.grayagain = n.grayagain
    BY <2>2 DEF Painted
  <2>5. o \in Range(c.weak)
    <3>1. c.weak = <<o>> \o a.weak /\ a.weak \in Seq(Slots)
      BY <1>2, <1>7, <1>9, <1>16, <2>4 DEF Keeping, Collectors, SlotSeqs
    <3> DEFINE d == <<o>>
    <3>2. d \in Seq(Slots) /\ Range(d) = {o}
      BY <1>2, Single
    <3> HIDE DEF d
    <3>3. Range(d \o a.weak) = Range(d) \cup Range(a.weak)
      BY <3>1, <3>2, Joined
    <3> QED BY <3>1, <3>2, <3>3 DEF d
  <2>6. StrongMarked(h, c, o)
    <3>1. \A s \in Slots : ~IsWhite(n, s) => ~IsWhite(c, s)
      BY <2>3
    <3> QED BY <3>1, <1>14, FurtherMarked
  <2>7. Right(h, c, ex, stage, o)
    BY <1>11, <2>4, <2>5, <2>6 DEF Right, BlackRight, GrayRight, StageRight, Pending, Grayens, IsOpen, Traversed
  <2>8. Further(a, c)
    BY <1>13, <2>3, FurtherTransitive
  <2>9. \A s \in Range(c.gray) : s \in Range(a.gray) \/ IsWhite(a, s)
    BY <1>12, <2>4
  <2>10. Traverses(h, m, c, ex, stage)
    BY <1>1, <1>2, <2>3, <2>7, <2>8, <2>9, TraversalDone
  <2> QED BY <1>3, <1>16, <2>10 DEF c
<1> QED BY <1>15, <1>16

(* propagatemark keeps MarkInv, and there is less left to do.              *)
LEMMA PropagateStep ==
  ASSUME NEW h, NEW m, NEW ex, NEW stage, MarkInv(h, m, ex, {}, stage), WellFormed(h), m.gray # <<>>
  PROVE  Traverses(h, m, PropagateMark(h, m), ex, stage)
<1> DEFINE o == Head(m.gray)
           a == [Paint(m, o, "black") EXCEPT !.gray = Tail(@)]
<1>1. Popped(m, a, o)
  BY DEF Popped
<1>2. h[o].tt \in {"table", "function", "thread"}
  <2>1. Takes(h, m, a, o, ex, stage)
    BY <1>1, TakeHead
  <2> QED BY <2>1 DEF Takes, Traversed
<1>3. CASE h[o].tt = "table"
  <2> DEFINE t == TraverseTable(h, a, o)
  <2>1. PropagateMark(h, m) = IF Mode(h, o) = {} THEN t ELSE Paint(t, o, "gray")
    BY <1>3 DEF PropagateMark
  <2> HIDE DEF o, a
  <2> QED BY <1>1, <1>3, <2>1, TableTraversed
<1>4. CASE h[o].tt = "function"
  <2>1. PropagateMark(h, m) = TraverseClosure(h, a, o)
    BY <1>4 DEF PropagateMark
  <2> HIDE DEF o, a
  <2> QED BY <1>1, <1>4, <2>1, FunctionTraversed
<1>5. CASE h[o].tt = "thread"
  <2>1. PropagateMark(h, m) = TraverseStack(h, a, o)
    BY <1>5 DEF PropagateMark
  <2> HIDE DEF o, a
  <2> QED BY <1>1, <1>5, <2>1, ThreadTraversed
<1> QED BY <1>2, <1>3, <1>4, <1>5

(* propagateall leaves nothing in the list gray.                           *)
LEMMA PropagateAllStep ==
  ASSUME NEW h, NEW m, NEW ex, NEW stage, MarkInv(h, m, ex, {}, stage), WellFormed(h)
  PROVE  /\ MarkInv(h, PropagateAll(h, m), ex, {}, stage) /\ Further(m, PropagateAll(h, m))
         /\ PropagateAll(h, m).gray = <<>>
<1> DEFINE N == Cardinality(Slots)
           M == {c \in Collectors : MarkInv(h, c, ex, {}, stage) /\ Further(m, c)}
<1>1. N \in Nat /\ IsFiniteSet(Slots)
  BY HeapAssumption, FS_CardinalityType
<1>2. m \in M
  BY FurtherReflexive DEF MarkInv
<1>3. ASSUME NEW c \in M, c.gray # <<>>
      PROVE  Propagated(h, c) \in M /\ \E o \in Work(c) : Work(Propagated(h, c)) \subseteq Work(c) \ {o}
  <2> DEFINE d == PropagateMark(h, c)
  <2>1. Propagated(h, c) = d
    BY <1>3 DEF Propagated
  <2>2. Traverses(h, c, d, ex, stage)
    BY <1>3, PropagateStep
  <2> HIDE DEF d
  <2>3. MarkInv(h, d, ex, {}, stage) /\ Further(c, d) /\ d \in Collectors
    BY <2>2 DEF Traverses, MarkInv
  <2>4. Further(m, d)
    BY <2>3, FurtherTransitive
  <2> QED BY <2>1, <2>2, <2>3, <2>4 DEF Traverses
<1>4. \A c \in M : Propagated(h, c) \in M
  <2> TAKE c \in M
  <2>1. CASE c.gray = <<>>
    BY <2>1 DEF Propagated
  <2> HIDE DEF M
  <2>2. CASE c.gray # <<>>
    BY <1>3, <2>2
  <2> QED BY <2>1, <2>2
<1>5. \A c : IsFiniteSet(Work(c)) /\ Cardinality(Work(c)) \in Nat /\ Cardinality(Work(c)) <= N
  <2> TAKE c
  <2>1. Work(c) \subseteq Slots
    BY DEF Work
  <2> QED BY <1>1, <2>1, FS_Subset, FS_CardinalityType
<1> HIDE DEF M
<1>6. \E W : PropagateAllTrace(h, m, M, N, W)
  BY <1>1, <1>2, <1>4, PropagateAllSteps
<1> HIDE DEF N
<1>7. PICK W : /\ W[0] = m /\ PropagateAll(h, m) = W[N]
               /\ \A i \in 1..N : W[i] = Propagated(h, W[i - 1])
               /\ \A i \in 0..N : W[i] \in M
  BY <1>6 DEF PropagateAllTrace
<1> DEFINE A == {i \in 0..N : W[i].gray = <<>> \/ Cardinality(Work(W[i])) <= N - i}
<1>8. 0 \in A
  BY <1>1, <1>5
<1>9. ASSUME NEW i \in 1..N, i - 1 \in A PROVE i \in A
  <2>1. i - 1 \in 0..N /\ W[i - 1] \in M /\ W[i] = Propagated(h, W[i - 1])
        /\ (W[i - 1].gray = <<>> \/ Cardinality(Work(W[i - 1])) <= N - (i - 1))
    BY <1>1, <1>7, <1>9
  <2>2. CASE W[i - 1].gray = <<>>
    <3>1. W[i] = W[i - 1]
      BY <2>1, <2>2 DEF Propagated
    <3> QED BY <2>2, <3>1
  <2>3. CASE W[i - 1].gray # <<>>
    <3> DEFINE c == W[i - 1]
               d == W[i]
    <3>1. c \in M /\ d = Propagated(h, c) /\ c.gray # <<>>
      BY <2>1, <2>3
    <3> HIDE DEF c, d
    <3>2. PICK o \in Work(c) : Work(d) \subseteq Work(c) \ {o}
      BY <1>3, <3>1
    <3> DEFINE S == Work(c)
               T == Work(d)
    <3>3. o \in S /\ T \subseteq S \ {o} /\ IsFiniteSet(S) /\ IsFiniteSet(T) /\ Cardinality(S) \in Nat /\ Cardinality(T) \in Nat
      BY <3>2, <1>5
    <3> HIDE DEF S, T
    <3>4. IsFiniteSet(S \ {o}) /\ Cardinality(S \ {o}) = Cardinality(S) - 1
      BY <3>3, FS_RemoveElement
    <3>5. Cardinality(T) <= Cardinality(S) - 1
      BY <3>3, <3>4, FS_Subset
    <3>6. Cardinality(S) <= N - (i - 1)
      BY <2>1, <2>3 DEF S, c
    <3>7. Cardinality(T) <= N - i
      BY <3>3, <3>5, <3>6, <1>1
    <3> QED BY <3>7 DEF T, d
  <2> QED BY <2>2, <2>3
<1> HIDE DEF A
<1>10. N \in A
  BY <1>1, <1>8, <1>9, Induct
<1>11. W[N].gray = <<>>
  <2>1. W[N].gray = <<>> \/ Cardinality(Work(W[N])) <= 0
    BY <1>1, <1>10 DEF A
  <2>2. ASSUME Cardinality(Work(W[N])) <= 0 PROVE W[N].gray = <<>>
    <3> DEFINE c == W[N]
    <3>1. c \in M
      BY <1>1, <1>7
    <3> HIDE DEF c
    <3>2. Cardinality(Work(c)) = 0
      BY <1>5, <2>2 DEF c
    <3>3. Work(c) = {}
      BY <3>2, <1>5, FS_EmptySet
    <3>4. c.gray \in Seq(Slots)
      BY <3>1 DEF M, Collectors, SlotSeqs
    <3>5. ASSUME c.gray # <<>> PROVE FALSE
      <4>1. Head(c.gray) \in Slots /\ Head(c.gray) \in Range(c.gray)
        BY <3>4, <3>5, Cut
      <4> QED BY <4>1, <3>3 DEF Work
    <3> QED BY <3>5 DEF c
  <2> QED BY <2>1, <2>2
<1>12. W[N] \in M
  BY <1>1, <1>7
<1> QED BY <1>7, <1>11, <1>12 DEF M

(* Between the steps of the mark phase.                                    *)
LEMMA NothingDeadIsWellFormed ==
  ASSUME NEW h, NEW m, Typed(h, m), Closed(h, m), \A s \in Slots : ~IsDead(m, s)
  PROVE  WellFormed(h) /\ \A s \in Slots : h[s] # Free => Live(m, s)
<1>1. \A s \in Slots : h[s] # Free => Live(m, s) /\ Sound(h, m, s)
  <2>1. \A s \in Slots : h[s] # Free => Live(m, s)
    BY DEF Typed, Live, IsDead
  <2> QED BY <2>1 DEF Closed
<1>2. \A s \in Slots : h[s].tt # "free" => h[s] # Free
  BY DEF Free
<1>3. \A s \in Slots : h[s].tt = "upval" => (UpvalValue(h, s) \in Slots => h[UpvalValue(h, s)].tt \in FirstClass)
  BY <1>1, <1>2 DEF Sound, Fine
<1>4. \A s \in Slots : h[s].tt \in {"table", "userdata"} => (h[s].meta \in Slots => h[h[s].meta].tt = "table")
  BY <1>1, <1>2 DEF Sound, FineMeta
<1> QED BY <1>1, <1>3, <1>4 DEF Typed, WellFormed

(* Between two steps of the mark phase nothing is dead, and tmp is empty.  *)
LEMMA MarkingBegun ==
  ASSUME NEW h, NEW m, NEW tmu, NEW cs, Good(h, m, tmu, cs, "open"), m.gcstate = "propagate"
  PROVE  /\ MarkInv(h, m, Range(tmu), {}, 0) /\ WellFormed(h) /\ \A s \in Slots : ~IsDead(m, s)
         /\ ~IsWhite(m, Main) /\ ~IsWhite(m, Globals) /\ (m.full = "no" => tmu = <<>>)
<1>1. Typed(h, m) /\ HeapInv(h, m, tmu, cs) /\ Marking(h, m, tmu)
  BY DEF Good, Cycle
<1>2. /\ \A s \in Slots : ~IsDead(m, s)
      /\ ~IsWhite(m, Main) /\ ~IsWhite(m, Globals) /\ (m.full = "no" => tmu = <<>>)
  BY <1>1 DEF Marking
<1>3. WellFormed(h)
  BY <1>1, <1>2, NothingDeadIsWellFormed DEF HeapInv
<1>4. m \in Collectors /\ OnceListed(m) /\ Range(InLists(m)) = Pending(m) /\ Pending(m) \subseteq Slots
  BY <1>1, ListsApart, ListsAreOfSlots DEF Typed, HeapInv, Lists
<1>5. \A s \in Pending(m) : s \in Slots /\ Traversed(h, s) /\ m.marked[s] = "gray"
  BY <1>1, <1>4 DEF HeapInv, Lists
<1>6. \A s \in Pending(m) : ~IsWhite(m, s)
  BY <1>5 DEF IsWhite
<1>7. \A s \in Slots : Right(h, m, Range(tmu), 0, s)
  <2> SUFFICES ASSUME NEW s \in Slots PROVE Right(h, m, Range(tmu), 0, s)
    OBVIOUS
  <2>1. BlackRight(h, m, Range(tmu), s)
    BY <1>1 DEF BlackRight, HeapInv, Lists, Marking, NoBlackToWhite, AllMarked
  <2>2. GrayRight(h, m, s)
    BY <1>1, <1>4 DEF GrayRight, HeapInv, Lists, Marking, GrayListed, IsOpen
  <2> QED BY <2>1, <2>2, <1>5 DEF Right, StageRight
<1>8. MarkInv(h, m, Range(tmu), {}, 0)
  BY <1>1, <1>4, <1>5, <1>6, <1>7 DEF MarkInv, Typed
<1> QED BY <1>2, <1>3, <1>8

(* Conversely, MarkInv with tmp empty gives the invariant.                 *)
LEMMA MarkingGood ==
  ASSUME NEW h, NEW m, NEW tmu, NEW cs, Good(h, m, tmu, cs, "open"), \A s \in Slots : ~IsDead(m, s),
         NEW n, MarkInv(h, n, Range(tmu), {}, 0), n.gcstate = "propagate",
         n.rootgc = m.rootgc, n.currentwhite = m.currentwhite,
         \A s \in Slots : n.marked[s] \in {m.marked[s], "gray", "black"},
         ~IsWhite(n, Main), ~IsWhite(n, Globals), n.full = "no" => tmu = <<>>
  PROVE  Good(h, n, tmu, cs, "open") /\ \A s \in Slots : Live(m, s) => Live(n, s)
<1>1. Typed(h, m) /\ HeapInv(h, m, tmu, cs)
  BY DEF Good
<1>2. Typed(h, n) /\ n \in Collectors
  BY <1>1 DEF Typed, MarkInv
<1>3. OtherWhite(n) = OtherWhite(m) /\ OtherWhite(m) \in Whites
  BY <1>1, MarksAre DEF OtherWhite
<1>4. \A s \in Slots : Live(m, s) => Live(n, s)
  BY <1>3 DEF Live, Whites
<1>5. \A s \in Slots : Live(n, s) => Live(m, s)
  <2>1. \A s \in Slots : h[s] # Free => Live(m, s)
    BY <1>1, NothingDeadIsWellFormed DEF HeapInv
  <2> QED BY <2>1, <1>2, MarksAre
<1>6. Range(InLists(n)) = Pending(n) /\ IsInjective(InLists(n))
  BY <1>2, ListsApart DEF MarkInv
<1>7. \A s \in Slots : Right(h, n, Range(tmu), 0, s)
  BY DEF MarkInv
<1>8. Lists(h, n)
  <2>1. \A s \in Slots : /\ n.marked[s] = "black" => Blackens(h, s)
                         /\ n.marked[s] = "gray" => Grayens(h, s)
    BY <1>7 DEF Right, BlackRight, GrayRight
  <2>2. \A s \in Pending(n) : n.marked[s] = "gray" /\ Traversed(h, s)
    BY <1>7 DEF MarkInv, Right
  <2> QED BY <1>6, <2>1, <2>2 DEF Lists
<1>9. Marking(h, n, tmu)
  <2>1. \A s \in Slots : ~IsDead(n, s)
    BY <1>3 DEF IsDead, Whites
  <2>2. GrayListed(h, n)
    BY <1>6, <1>7 DEF GrayListed, Right, GrayRight, IsOpen
  <2>3. NoBlackToWhite(h, n, Range(tmu))
    BY <1>7 DEF NoBlackToWhite, Right, BlackRight, AllMarked
  <2> QED BY <2>1, <2>2, <2>3 DEF Marking
<1>10. Cycle(h, n, tmu)
  BY <1>9 DEF Cycle
<1>11. Good(h, n, tmu, cs, "open")
  BY <1>2, <1>4, <1>5, <1>8, <1>10, Recoloured
<1> QED BY <1>4, <1>11

(* A step of marking that leads from a good state to a good one.           *)
LEMMA MarkingGoesOn ==
  ASSUME NEW h, NEW m, NEW tmu, NEW cs, Good(h, m, tmu, cs, "open"), m.gcstate = "propagate",
         NEW n, MarkInv(h, n, Range(tmu), {}, 0), Further(m, n)
  PROVE  Good(h, n, tmu, cs, "open") /\ \A s \in Slots : Live(m, s) => Live(n, s)
<1>1. /\ \A s \in Slots : ~IsDead(m, s)
      /\ ~IsWhite(m, Main) /\ ~IsWhite(m, Globals) /\ (m.full = "no" => tmu = <<>>)
  BY MarkingBegun
<1>2. /\ n.gcstate = "propagate" /\ n.rootgc = m.rootgc /\ n.currentwhite = m.currentwhite
      /\ \A s \in Slots : n.marked[s] \in {m.marked[s], "gray", "black"}
      /\ ~IsWhite(n, Main) /\ ~IsWhite(n, Globals) /\ (n.full = "no" => tmu = <<>>)
  BY <1>1, HeapAssumption DEF Further
<1> QED BY <1>1, <1>2, MarkingGood

(* The step singlestep makes while the list gray is not empty.             *)
LEMMA Propagation ==
  ASSUME NEW h, NEW m, NEW tmu, NEW cs, Good(h, m, tmu, cs, "open"), m.gcstate = "propagate", m.gray # <<>>
  PROVE  Good(h, PropagateMark(h, m), tmu, cs, "open")
<1>1. MarkInv(h, m, Range(tmu), {}, 0) /\ WellFormed(h)
  BY MarkingBegun
<1> DEFINE n == PropagateMark(h, m)
<1>2. Traverses(h, m, n, Range(tmu), 0)
  BY <1>1, PropagateStep
<1> HIDE DEF n
<1>3. MarkInv(h, n, Range(tmu), {}, 0) /\ Further(m, n)
  BY <1>2 DEF Traverses
<1>4. Good(h, n, tmu, cs, "open")
  BY <1>3, MarkingGoesOn
<1> QED BY <1>4 DEF n

(* The start of a cycle: nothing is marked yet.                            *)
LEMMA MarkingStarts ==
  ASSUME NEW h, NEW m, NEW tmu, NEW cs, Good(h, m, tmu, cs, "open"),
         \/ m.gcstate = "pause"
         \/ m.gcstate = "finalize",
         NEW full \in Fulls, full = "no" => tmu = <<>>
  PROVE  Good(h, [MarkRoot(h, m) EXCEPT !.full = full], tmu, cs, "open")
<1>1. /\ Typed(h, m) /\ HeapInv(h, m, tmu, cs) /\ AllSwept(h, m, tmu) /\ m \in Collectors
      /\ tmu \in SlotSeqs /\ \A u \in Range(tmu) : Live(m, u) /\ h[u].tt = "userdata"
  BY DEF Good, Cycle, Typed, HeapInv, Placed, RootsLive
<1> DEFINE a == [m EXCEPT !.gray = <<>>, !.grayagain = <<>>, !.weak = <<>>, !.gcstate = "propagate"]
           q == <<Main, Globals>>
           b == MarkAll(h, a, q)
           n == [b EXCEPT !.full = full]
<1>2. /\ a \in Collectors /\ a.marked = m.marked /\ a.currentwhite = m.currentwhite /\ a.rootgc = m.rootgc
      /\ a.gray = <<>> /\ a.grayagain = <<>> /\ a.weak = <<>> /\ a.gcstate = "propagate"
  <2>1. <<>> \in SlotSeqs /\ "propagate" \in GcStates
    BY DEF SlotSeqs, GcStates
  <2> QED BY <2>1, <1>1 DEF Collectors
<1>3. MarkRoot(h, m) = b
  BY DEF MarkRoot
<1> HIDE DEF a, b, n
<1>4. Pending(a) = {} /\ OnceListed(a)
  BY <1>2, Empty DEF Pending, OnceListed
<1>5. \A s \in Slots : /\ a.marked[s] # "gray" /\ ~IsDead(m, s)
                       /\ (a.marked[s] = "black" => Blackens(h, s) /\ s \in Range(tmu))
  <2> SUFFICES ASSUME NEW s \in Slots PROVE /\ a.marked[s] # "gray" /\ ~IsDead(m, s)
                                            /\ (a.marked[s] = "black" => Blackens(h, s) /\ s \in Range(tmu))
    OBVIOUS
  <2>1. m.currentwhite \in Whites /\ m.currentwhite # OtherWhite(m) /\ OtherWhite(m) \in Whites
        /\ (h[s].tt = "free" => m.marked[s] = "none")
    BY <1>1, MarksAre
  <2>2. m.marked[s] = "black" => Blackens(h, s)
    BY <1>1 DEF HeapInv, Lists
  <2>3. CASE h[s].tt = "free"
    BY <2>1, <2>3, <1>2 DEF IsDead, Whites
  <2>4. CASE h[s].tt # "free" /\ s \notin Range(tmu)
    <3>1. m.marked[s] = m.currentwhite
      BY <2>4, <1>1 DEF AllSwept, Swept
    <3> QED BY <3>1, <2>1, <2>4, <1>2 DEF IsDead, Whites
  <2>5. CASE s \in Range(tmu)
    <3>1. h[s].tt = "userdata" /\ Live(m, s)
      BY <1>1, <2>5
    <3>2. m.marked[s] # "gray"
      BY <1>1, <3>1 DEF HeapInv, Lists, Grayens, Traversed
    <3> QED BY <2>2, <2>5, <3>1, <3>2, <1>2 DEF Live, IsDead
  <2> QED BY <2>3, <2>4, <2>5
<1>6. MarkInv(h, a, Range(tmu), {}, 0)
  <2>1. \A s \in Slots : Right(h, a, Range(tmu), 0, s)
    BY <1>4, <1>5 DEF Right, BlackRight, GrayRight, StageRight
  <2> QED BY <1>1, <1>2, <1>4, <2>1 DEF MarkInv, Typed
<1>7. WellFormed(h)
  BY <1>1, <1>5, NothingDeadIsWellFormed DEF HeapInv
<1>8. DOMAIN q = 1..2 /\ 2 \in Nat /\ q[1] = Main /\ q[2] = Globals /\ 1 \in DOMAIN q /\ 2 \in DOMAIN q
  OBVIOUS
<1> HIDE DEF q
<1>9. AllMarkedBy(h, a, b, q, Range(tmu), {}, 0)
  BY <1>6, <1>7, <1>8, MarkAllStep DEF b
<1>10. MarkInv(h, b, Range(tmu), {}, 0) /\ Further(a, b) /\ Marked(b, Main) /\ Marked(b, Globals)
       /\ b \in Collectors
  BY <1>8, <1>9 DEF AllMarkedBy, MarkInv
<1>11. /\ n \in Collectors /\ n.marked = b.marked /\ n.gray = b.gray /\ n.grayagain = b.grayagain
       /\ n.weak = b.weak /\ n.full = full /\ n.gcstate = b.gcstate /\ n.rootgc = b.rootgc
       /\ n.currentwhite = b.currentwhite
  BY <1>10 DEF n, Collectors
<1>12. MarkInv(h, n, Range(tmu), {}, 0)
  <2>1. \A s : IsWhite(n, s) <=> IsWhite(b, s)
    BY <1>11 DEF IsWhite
  <2>2. Pending(n) = Pending(b) /\ (OnceListed(b) <=> OnceListed(n))
    BY <1>11 DEF Pending, OnceListed
  <2>3. \A s \in Slots : ~IsWhite(b, s) => ~IsWhite(n, s)
    BY <2>1
  <2>4. \A s : AllMarked(h, b, s) => AllMarked(h, n, s)
    BY <2>3, FurtherMarked
  <2>5. \A s \in Slots : Right(h, n, Range(tmu), 0, s)
    <3> SUFFICES ASSUME NEW s \in Slots PROVE Right(h, n, Range(tmu), 0, s)
      OBVIOUS
    <3>1. Right(h, b, Range(tmu), 0, s)
      BY <1>10 DEF MarkInv
    <3> QED BY <3>1, <2>2, <2>4, <1>11 DEF Right, BlackRight, GrayRight, StageRight
  <2> QED BY <1>10, <1>11, <2>1, <2>2, <2>5 DEF MarkInv
<1>13. /\ n.gcstate = "propagate" /\ n.rootgc = m.rootgc /\ n.currentwhite = m.currentwhite
       /\ \A s \in Slots : n.marked[s] \in {m.marked[s], "gray", "black"}
       /\ ~IsWhite(n, Main) /\ ~IsWhite(n, Globals) /\ (n.full = "no" => tmu = <<>>)
  BY <1>2, <1>10, <1>11, HeapAssumption DEF Further, Marked, IsWhite
<1>14. Good(h, n, tmu, cs, "open")
  BY <1>5, <1>12, <1>13, MarkingGood
<1> QED BY <1>3, <1>14 DEF n

(* A write barrier: afterwards the value may be stored in the object.      *)
BarrierDone(h, m, n, tmu, cs, o, v) ==
  /\ Good(h, n, tmu, cs, "open") /\ Allowed(n, "open", o, v)
  /\ \A s \in Slots : Live(m, s) => Live(n, s)
  /\ \A w : Allowed(m, "open", o, w) => Allowed(n, "open", o, w)

PaintedAgain(m, n, t) == n = [Paint(m, t, "gray") EXCEPT !.grayagain = <<t>> \o @]

(* luaC_barrierback while marking: the black table turns gray, in          *)
(* grayagain.                                                              *)
LEMMA BarrierAgain ==
  ASSUME NEW h, NEW m, NEW tmu, NEW cs, Good(h, m, tmu, cs, "open"), m.gcstate = "propagate",
         NEW t \in Slots, h[t].tt = "table", m.marked[t] = "black",
         NEW n, PaintedAgain(m, n, t)
  PROVE  /\ Good(h, n, tmu, cs, "open") /\ \A s \in Slots : Live(m, s) => Live(n, s)
         /\ n.marked[t] = "gray"
<1> DEFINE ex == Range(tmu)
           a == Paint(m, t, "gray")
<1>1. MarkInv(h, m, ex, {}, 0)
  BY MarkingBegun
<1>2. /\ m \in Collectors /\ ~IsWhite(m, t) /\ h[t] # Free /\ t \notin Pending(m)
      /\ \A s \in Slots : Right(h, m, ex, 0, s)
  BY <1>1 DEF MarkInv, Right, IsWhite, Free
<1>3. MarkInv(h, m, ex, {t}, 0)
  BY <1>1, <1>2 DEF MarkInv
<1>4. Painted(m, a, t, "gray")
  BY <1>2, PaintIs DEF Marks, Colours
<1>5. n = [a EXCEPT !.grayagain = <<t>> \o @]
  BY DEF PaintedAgain
<1> HIDE DEF a
<1>6. MarkInv(h, a, ex, {t}, 0) /\ Further(m, a)
  <2>1. t \in {t} /\ "gray" \in {"gray", "black"}
    OBVIOUS
  <2> QED BY <1>3, <1>4, <2>1, RepaintedTmp
<1>7. t \notin Pending(a) /\ Traversed(h, t) /\ a \in Collectors /\ a.marked[t] = "gray"
  BY <1>2, <1>4 DEF Painted, Pending, Traversed
<1>8. /\ n \in Collectors /\ n.marked = a.marked /\ n.gray = a.gray
      /\ n.rootgc = a.rootgc /\ n.currentwhite = a.currentwhite /\ n.gcstate = a.gcstate
      /\ n.full = a.full /\ n.sweepgc = a.sweepgc /\ n.sweepstrgc = a.sweepstrgc
      /\ n.grayagain = <<t>> \o a.grayagain /\ n.weak = a.weak
  <2>1. a.grayagain \in Seq(Slots)
    BY <1>7 DEF Collectors, SlotSeqs
  <2>2. <<t>> \o a.grayagain \in SlotSeqs
    BY <2>1 DEF SlotSeqs
  <2> DEFINE d == <<t>> \o a.grayagain
  <2>3. d \in SlotSeqs /\ n = [a EXCEPT !.grayagain = d]
    BY <2>2, <1>7, <1>5 DEF Collectors
  <2> HIDE DEF d
  <2>4. /\ n \in Collectors /\ n.marked = a.marked /\ n.gray = a.gray
        /\ n.rootgc = a.rootgc /\ n.currentwhite = a.currentwhite /\ n.gcstate = a.gcstate
        /\ n.full = a.full /\ n.sweepgc = a.sweepgc /\ n.sweepstrgc = a.sweepstrgc
        /\ n.grayagain = d /\ n.weak = a.weak
    BY <2>3, <1>7 DEF Collectors
  <2> QED BY <2>4 DEF d
<1>9. PICK b : b = n
  OBVIOUS
<1>10. MarkInv(h, b, ex, {t}, 0) /\ Further(a, b)
  <2>1. Enlists(a, b, t)
    BY <1>8, <1>9 DEF Enlists
  <2> QED BY <1>6, <1>7, <2>1, Enlisted
<1>11. t \in Range(b.grayagain)
  <2> DEFINE e == <<t>>
  <2>1. e \in Seq(Slots) /\ Range(e) = {t} /\ a.grayagain \in Seq(Slots)
    BY <1>7, Single DEF Collectors, SlotSeqs
  <2> HIDE DEF e
  <2>2. Range(e \o a.grayagain) = Range(e) \cup Range(a.grayagain)
    BY <2>1, Joined
  <2> QED BY <2>1, <2>2, <1>8, <1>9 DEF e
<1>12. Right(h, b, ex, 0, t)
  BY <1>7, <1>8, <1>9, <1>11 DEF Right, BlackRight, GrayRight, StageRight, Pending, Grayens, Traversed
<1>13. MarkInv(h, b, ex, {}, 0)
  <2>1. {t} = {} \cup {t} /\ {} \in SUBSET Slots
    OBVIOUS
  <2> QED BY <1>10, <1>12, <2>1, Finished
<1>14. Further(m, b)
  BY <1>6, <1>10, FurtherTransitive
<1>15. Good(h, b, tmu, cs, "open") /\ \A s \in Slots : Live(m, s) => Live(b, s)
  BY <1>13, <1>14, MarkingGoesOn
<1>16. b.marked[t] = "gray"
  BY <1>7, <1>8, <1>9
<1> QED BY <1>9, <1>15, <1>16

(* The same outside the mark phase: only the colour changes.               *)
LEMMA BarrierSweeping ==
  ASSUME NEW h, NEW m, NEW tmu, NEW cs, Good(h, m, tmu, cs, "open"), m.gcstate # "propagate",
         NEW t \in Slots, h[t].tt = "table", m.marked[t] = "black",
         NEW n, Painted(m, n, t, "gray")
  PROVE  Good(h, n, tmu, cs, "open") /\ \A s \in Slots : Live(m, s) => Live(n, s)
<1>1. Typed(h, m) /\ HeapInv(h, m, tmu, cs) /\ Cycle(h, m, tmu) /\ Lists(h, m)
  BY DEF Good, HeapInv
<1>2. /\ n \in Collectors /\ n.marked[t] = "gray" /\ \A s \in Slots : s # t => n.marked[s] = m.marked[s]
      /\ n.rootgc = m.rootgc /\ n.currentwhite = m.currentwhite /\ n.gcstate = m.gcstate
      /\ n.full = m.full /\ n.sweepgc = m.sweepgc /\ n.sweepstrgc = m.sweepstrgc
      /\ InLists(n) = InLists(m) /\ OtherWhite(n) = OtherWhite(m)
  BY DEF Painted
<1>3. m.currentwhite \in Whites /\ OtherWhite(m) \in Whites
  BY <1>1, MarksAre
<1>4. \A s \in Slots : (Live(m, s) <=> Live(n, s)) /\ (IsDead(n, s) <=> IsDead(m, s)) /\ (Swept(m, s) => Swept(n, s))
  BY <1>2, <1>3 DEF Live, IsDead, Swept, Whites
<1>5. Typed(h, n)
  BY <1>1, <1>2 DEF Typed, Free
<1>6. Lists(h, n)
  <2>1. InLists(n) = <<>> /\ Range(InLists(n)) = {} /\ IsInjective(InLists(n))
    <3>1. InLists(n) = <<>>
      BY <1>1, <1>2 DEF Lists
    <3> QED BY <3>1, Empty
  <2>2. Grayens(h, t)
    BY DEF Grayens, Traversed
  <2> QED BY <1>1, <1>2, <2>1, <2>2 DEF Lists
<1>7. Cycle(h, n, tmu)
  <2>1. ASSUME NEW k, SweptStrings(h, m, k) PROVE SweptStrings(h, n, k)
    BY <2>1, <1>4 DEF SweptStrings
  <2>2. ASSUME NEW k, SweptList(h, m, k) PROVE SweptList(h, n, k)
    <3>1. \A i \in DOMAIN m.rootgc : m.rootgc[i] \in Slots
      BY <1>1, ListsAreOfSlots
    <3>2. \A s \in Slots : h[s].tt = "thread" => Range(h[s].openupval) \subseteq Slots
      BY <1>1, Kinds, KindsAre, ListsAreOfSlots, SeqParts
    <3>3. \A s \in Slots : h[s].tt = "thread" => \A u \in Range(h[s].openupval) : u \in Slots
      BY <3>2
    <3> QED BY <2>2, <3>1, <3>3, <1>2, <1>4 DEF SweptList
  <2>3. DeadFinalized(h, m) => DeadFinalized(h, n)
    BY <1>4 DEF DeadFinalized
  <2>4. AllSwept(h, m, tmu) => AllSwept(h, n, tmu)
    BY <1>4 DEF AllSwept
  <2> QED BY <1>1, <1>2, <2>1, <2>2, <2>3, <2>4 DEF Cycle
<1>8. Good(h, n, tmu, cs, "open")
  BY <1>2, <1>4, <1>5, <1>6, <1>7, Recoloured
<1> QED BY <1>4, <1>8

(* luaC_barrier, luaC_objbarrier and luaC_barriert: after them v may be    *)
(* stored in o, and all that was live is live.                             *)
LEMMA BarrierStep ==
  ASSUME NEW h, NEW m, NEW tmu, NEW cs, Good(h, m, tmu, cs, "open"), NEW o \in Slots,
         h[o].tt \in {"table", "userdata", "upval"}, Live(m, o), NEW v, Fine(h, m, v)
  PROVE  BarrierDone(h, m, Barrier(h, m, o, v), tmu, cs, o, v)
<1> DEFINE n == Barrier(h, m, o, v)
           needed == v \in Slots /\ IsWhite(m, v) /\ m.marked[o] = "black"
<1>1. Typed(h, m) /\ HeapInv(h, m, tmu, cs) /\ m \in Collectors
  BY DEF Good, Typed
<1>2. CASE ~needed
  <2>1. n = m
    BY <1>2 DEF Barrier, BarrierBack, BarrierForward
  <2>2. Allowed(m, "open", o, v)
    BY <1>2 DEF Allowed
  <2> QED BY <2>1, <2>2 DEF BarrierDone
<1>3. CASE needed /\ h[o].tt = "table" /\ m.gcstate = "propagate"
  <2> DEFINE b == [Paint(m, o, "gray") EXCEPT !.grayagain = <<o>> \o @]
  <2>1. n = b
    BY <1>3 DEF Barrier, BarrierBack
  <2>2. PaintedAgain(m, b, o)
    BY DEF PaintedAgain
  <2> HIDE DEF n, b
  <2>3. /\ Good(h, b, tmu, cs, "open") /\ (\A s \in Slots : Live(m, s) => Live(b, s))
        /\ b.marked[o] = "gray"
    BY <1>3, <2>2, BarrierAgain
  <2>4. \A w : Allowed(b, "open", o, w)
    BY <2>3 DEF Allowed
  <2> QED BY <2>1, <2>3, <2>4 DEF BarrierDone, n
<1>4. CASE needed /\ h[o].tt = "table" /\ m.gcstate # "propagate"
  <2> DEFINE b == Paint(m, o, "gray")
  <2>1. Painted(m, b, o, "gray")
    BY <1>1, PaintIs DEF Marks, Colours
  <2>2. n = b
    <3>1. n = [b EXCEPT !.grayagain = @]
      BY <1>4 DEF Barrier, BarrierBack
    <3> HIDE DEF b, n
    <3> QED BY <3>1, <2>1 DEF Painted, Collectors
  <2> HIDE DEF n, b
  <2>3. Good(h, b, tmu, cs, "open") /\ \A s \in Slots : Live(m, s) => Live(b, s)
    BY <1>4, <2>1, BarrierSweeping
  <2>4. \A w : Allowed(b, "open", o, w)
    BY <2>1, <1>4 DEF Allowed, Painted
  <2> QED BY <2>2, <2>3, <2>4 DEF BarrierDone, n
<1>5. CASE needed /\ h[o].tt # "table" /\ m.gcstate = "propagate"
  <2> DEFINE b == Mark(h, m, v)
  <2>1. n = b
    BY <1>5 DEF Barrier, BarrierForward
  <2> HIDE DEF n
  <2>2. MarkedBy(h, m, b, v, Range(tmu), {}, 0)
    BY <1>5, MarkingBegun, MarkStep
  <2> HIDE DEF b
  <2>3. MarkInv(h, b, Range(tmu), {}, 0) /\ Further(m, b) /\ Marked(b, v)
    BY <2>2 DEF MarkedBy
  <2>4. Good(h, b, tmu, cs, "open") /\ \A s \in Slots : Live(m, s) => Live(b, s)
    BY <1>5, <2>3, MarkingGoesOn
  <2>5. Allowed(b, "open", o, v)
    BY <2>3 DEF Allowed, Marked
  <2>6. \A w : Allowed(m, "open", o, w) => Allowed(b, "open", o, w)
    BY <1>5, <2>3 DEF Allowed, Further
  <2> QED BY <2>1, <2>4, <2>5, <2>6 DEF BarrierDone, n
<1>6. CASE needed /\ h[o].tt # "table" /\ m.gcstate # "propagate"
  <2> DEFINE b == MakeWhite(m, o)
  <2>1. n = b
    BY <1>6 DEF Barrier, BarrierForward
  <2> HIDE DEF n
  <2>2. h[o] # Free /\ Sound(h, m, o) /\ o \notin Range(InLists(m))
    <3>1. h[o] # Free /\ Sound(h, m, o)
      BY <1>1, MarksAre DEF HeapInv, Closed
    <3>2. InLists(m) = <<>>
      BY <1>1, <1>6 DEF HeapInv, Lists
    <3> QED BY <3>1, <3>2, Empty
  <2>3. Good(h, b, tmu, cs, "open")
    BY <2>2, <1>6, Whitened
  <2>4. /\ b.marked = [m.marked EXCEPT ![o] = m.currentwhite] /\ b.gcstate = m.gcstate
        /\ OtherWhite(b) = OtherWhite(m)
    BY <1>1, <2>2, MakeWhiteIs
  <2> HIDE DEF b
  <2>5. \A s \in Slots : Live(m, s) => Live(b, s)
    <3>1. m.currentwhite # OtherWhite(m) /\ m.currentwhite \in Whites
      BY <1>1, MarksAre
    <3> QED BY <3>1, <2>4, <1>1 DEF Live, Whites, Collectors
  <2>6. \A w : Allowed(b, "open", o, w)
    BY <2>4, <1>6 DEF Allowed
  <2> QED BY <2>1, <2>3, <2>5, <2>6 DEF BarrierDone, n
<1> HIDE DEF n
<1>7. CASE needed
  BY <1>3, <1>4, <1>5, <1>6, <1>7
<1> QED BY <1>2, <1>7 DEF n

(* The same of the upvalues CloseUpvals closes, in sets that grow: M[i]    *)
(* holds the states in which the upvalues after the i-th are still open.   *)
LEMMA GuardedFold ==
  ASSUME NEW n \in Nat, NEW M, NEW base \in M[0], \A i, j \in 0..n : i <= j => M[i] \subseteq M[j],
         NEW F, \A i \in 1..n : \A x \in M[i - 1] : F[<<x, i>>] \in M[i],
         NEW V \in [SUBSET (1..n) -> M[n]], IsFold(V, base, n, F)
  PROVE  \A s \in SUBSET (1..n) : s # {} => V[s \ {Max(s)}] \in M[Max(s) - 1] /\ Max(s) \in 1..n
<1> DEFINE A == {k \in 0..n : \A s \in SUBSET (1..k) : V[s] \in M[k]}
<1>1. \A s \in SUBSET (1..n) : V[s] = IF s = {} THEN base ELSE F[<<V[s \ {Max(s)}], Max(s)>>]
  BY DEF IsFold
<1>2. 0 \in A
  <2>1. {} \in SUBSET (1..n) /\ \A s \in SUBSET (1..0) : s = {}
    OBVIOUS
  <2>2. V[{}] = base
    BY <2>1, <1>1
  <2>3. \A s \in SUBSET (1..0) : V[s] \in M[0]
    BY <2>1, <2>2
  <2>4. 0 \in 0..n
    OBVIOUS
  <2> QED BY <2>3, <2>4
<1>3. ASSUME NEW k \in 1..n, k - 1 \in A PROVE k \in A
  <2>1. ASSUME NEW s \in SUBSET (1..k) PROVE V[s] \in M[k]
    <3>1. k - 1 \in 0..n /\ k \in 0..n /\ k - 1 <= k /\ s \in SUBSET (1..n)
          /\ \A t \in SUBSET (1..(k - 1)) : V[t] \in M[k - 1]
      BY <1>3
    <3>2. CASE k \notin s
      <4>1. s \in SUBSET (1..(k - 1))
        BY <3>2
      <4>2. M[k - 1] \subseteq M[k]
        BY <3>1
      <4> QED BY <3>1, <4>1, <4>2
    <3>3. CASE k \in s
      <4>1. Max(s) = k
        <5>1. Max(s) \in s /\ \A j \in s : j <= Max(s)
          BY <3>1, <3>3, MaxIn
        <5>2. Max(s) \in 1..k /\ k <= Max(s)
          BY <3>3, <5>1
        <5> QED BY <5>2
      <4>2. s \ {k} \in SUBSET (1..(k - 1))
        OBVIOUS
      <4>3. V[s] = F[<<V[s \ {k}], k>>]
        BY <1>1, <3>1, <3>3, <4>1
      <4> QED BY <3>1, <4>2, <4>3
    <3> QED BY <3>2, <3>3
  <2>2. k \in 0..n
    OBVIOUS
  <2> QED BY <2>1, <2>2
<1> HIDE DEF A
<1>4. \A k \in 0..n : k \in A
  BY <1>2, <1>3, Induct
<1>5. ASSUME NEW s \in SUBSET (1..n), s # {} PROVE V[s \ {Max(s)}] \in M[Max(s) - 1] /\ Max(s) \in 1..n
  <2>1. Max(s) \in s /\ \A j \in s : j <= Max(s)
    BY <1>5, MaxIn
  <2> DEFINE x == Max(s)
  <2> HIDE DEF x
  <2>2. x \in s /\ \A j \in s : j <= x
    BY <2>1 DEF x
  <2>3. x \in 1..n /\ x - 1 \in 0..n
    BY <2>2
  <2>4. \A j \in s \ {x} : j \in 1..(x - 1)
    BY <2>2, <2>3
  <2>5. Max(s) \in 1..n /\ Max(s) - 1 \in 0..n
    BY <2>3 DEF x
  <2>6. s \ {Max(s)} \in SUBSET (1..(Max(s) - 1))
    BY <2>4 DEF x
  <2>7. Max(s) - 1 \in A
    BY <1>4, <2>5
  <2> QED BY <2>5, <2>6, <2>7 DEF A
<1> QED BY <1>5

CloseAllTrace(c, seq, M, n, W) ==
  /\ W[0] = c /\ FoldLeft(CloseOne, c, seq) = W[n]
  /\ \A i \in 1..n : W[i] = CloseOne(W[i - 1], seq[i])
  /\ \A i \in 0..n : W[i] \in M[i]

(* luaF_close's loop, and the states between its steps.                    *)
LEMMA CloseAllSteps ==
  ASSUME NEW n \in Nat, NEW M, NEW c \in M[0], \A i, j \in 0..n : i <= j => M[i] \subseteq M[j],
         NEW seq, DOMAIN seq = 1..n,
         \A i \in 1..n : \A x \in M[i - 1] : CloseOne(x, seq[i]) \in M[i]
  PROVE  \E W : CloseAllTrace(c, seq, M, n, W)
<1> DEFINE F == [p \in M[n] \X (1..n) |-> IF p[1] \in M[p[2] - 1] THEN CloseOne(p[1], seq[p[2]]) ELSE c]
           Eq(V) == V = [s \in SUBSET (1..n) |-> IF s = {} THEN c
                                                 ELSE CloseOne(V[s \ {Max(s)}], seq[Max(s)])]
           U == CHOOSE V : Eq(V)
           W == [i \in 0..n |-> U[1..i]]
<1>1. c \in M[n] /\ \A i \in 1..n : M[i - 1] \subseteq M[n] /\ M[i] \subseteq M[n] /\ M[i - 1] \subseteq M[i]
  <2>1. \A i \in 1..n : i \in 0..n /\ i - 1 \in 0..n /\ n \in 0..n /\ i - 1 <= i /\ i <= n /\ i - 1 <= n /\ 0 \in 0..n /\ 0 <= n
    OBVIOUS
  <2>2. 0 \in 0..n /\ n \in 0..n /\ 0 <= n
    OBVIOUS
  <2>3. M[0] \subseteq M[n]
    BY <2>2
  <2> QED BY <2>1, <2>3
<1>2. \A i \in 1..n : \A x \in M[i - 1] : F[<<x, i>>] = CloseOne(x, seq[i])
  BY <1>1
<1>3. \A x \in M[n], i \in 1..n : F[<<x, i>>] \in M[n]
  <2> TAKE x \in M[n], i \in 1..n
  <2>1. F[<<x, i>>] = IF x \in M[i - 1] THEN CloseOne(x, seq[i]) ELSE c
    OBVIOUS
  <2> HIDE DEF F
  <2> QED BY <2>1, <1>1
<1> HIDE DEF F
<1>4. \A i \in 1..n : \A x \in M[i - 1] : F[<<x, i>>] \in M[i]
  <2> TAKE i \in 1..n
  <2> TAKE x \in M[i - 1]
  <2>1. F[<<x, i>>] = CloseOne(x, seq[i])
    BY <1>2
  <2>2. CloseOne(x, seq[i]) \in M[i]
    OBVIOUS
  <2> QED BY <2>1, <2>2
<1>5. PICK V \in [SUBSET (1..n) -> M[n]] : IsFold(V, c, n, F)
  <2> DEFINE X == M[n]
  <2>1. c \in X /\ \A x \in X, i \in 1..n : F[<<x, i>>] \in X
    BY <1>1, <1>3
  <2> HIDE DEF X
  <2>2. \E V \in [SUBSET (1..n) -> X] : IsFold(V, c, n, F)
    BY <2>1, FoldExists
  <2> QED BY <2>2 DEF X
<1>6. \A s \in SUBSET (1..n) : s # {} => V[s \ {Max(s)}] \in M[Max(s) - 1] /\ Max(s) \in 1..n
  BY <1>4, <1>5, GuardedFold
<1>7. Eq(V)
  BY <1>2, <1>5, <1>6 DEF IsFold
<1>8. Eq(U)
  BY <1>7, Zenon
<1>9. FoldLeft(CloseOne, c, seq) = U[1..n]
  BY DEF FoldLeft, MapThenFoldSet
<1> HIDE DEF U
<1>10. U[1..0] = c
  <2>1. 1..0 = {} /\ 1..0 \in SUBSET (1..n)
    OBVIOUS
  <2> QED BY <2>1, <1>8
<1>11. ASSUME NEW i \in 1..n PROVE U[1..i] = CloseOne(U[1..(i - 1)], seq[i])
  <2> DEFINE s == 1..i
  <2>1. Max(s) = i /\ s \ {i} = 1..(i - 1) /\ s \in SUBSET (1..n) /\ s # {}
    BY FoldSteps
  <2> HIDE DEF s
  <2>2. U[s] = CloseOne(U[s \ {Max(s)}], seq[Max(s)])
    BY <2>1, <1>8
  <2> QED BY <2>1, <2>2 DEF s
<1>12. W[0] = c /\ W[n] = U[1..n] /\ \A i \in 1..n : W[i] = CloseOne(W[i - 1], seq[i])
  BY <1>10, <1>11
<1> HIDE DEF W
<1> DEFINE A == {j \in 0..n : W[j] \in M[j]}
<1>13. ASSUME NEW i \in 1..n, i - 1 \in A PROVE i \in A
  <2>1. W[i - 1] \in M[i - 1] /\ W[i] = CloseOne(W[i - 1], seq[i])
    BY <1>12, <1>13
  <2>2. W[i] \in M[i]
    BY <2>1
  <2> QED BY <2>2
<1>14. 0 \in A
  BY <1>12
<1> HIDE DEF A
<1>15. \A i \in 0..n : i \in A
  BY <1>13, <1>14, Induct
<1>16. \A i \in 0..n : W[i] \in M[i]
  BY <1>15 DEF A
<1> QED BY <1>9, <1>12, <1>16 DEF CloseAllTrace

(* An open upvalue is closed: it leaves the list of its thread with the    *)
(* value it pointed at.                                                    *)
ClosedUpval(h, k, u) ==
  /\ k \in [Slots -> Objects] /\ h[u].thread \in Slots /\ h[h[u].thread].tt = "thread" /\ u # h[u].thread
  /\ \A s \in Slots : s # u /\ s # h[u].thread => k[s] = h[s]
  /\ \A s \in Slots : k[s].tt = h[s].tt
  /\ k[h[u].thread].stack = h[h[u].thread].stack /\ k[h[u].thread].resumed = h[h[u].thread].resumed
  /\ IsInjective(k[h[u].thread].openupval)
  /\ Range(k[h[u].thread].openupval) = Range(h[h[u].thread].openupval) \ {u}
  /\ k[u].open = FALSE
  /\ \A s \in Slots : h[s].tt = "upval" => UpvalValue(k, s) = UpvalValue(h, s)
  /\ \A s \in Slots : Held(k, s) = Held(h, s)

Closes(h, k, u) ==
  k = [h EXCEPT ![h[u].thread].openupval = Those(@, Slots \ {u}),
                ![u] = [@ EXCEPT !.open = FALSE, !.value = UpvalValue(h, u)]]

(* CloseOne does that to the heap.                                         *)
LEMMA ClosedHeap ==
  ASSUME NEW h, NEW m, NEW tmu, NEW cs, NEW p, Good(h, m, tmu, cs, p), NEW u \in Slots,
         h[u].tt = "upval", h[u].open, NEW k, Closes(h, k, u)
  PROVE  ClosedUpval(h, k, u)
<1> DEFINE th == h[u].thread
           v == UpvalValue(h, u)
           list == Those(h[th].openupval, Slots \ {u})
<1>1. h \in [Slots -> Objects] /\ UpvalsOK(h)
  BY DEF Good, Typed, HeapInv
<1>2. th \in Slots /\ h[th].tt = "thread" /\ h[u].level \in Registers /\ th # u
  BY OpenUpvalThread
<1>3. h[th] \in ThreadObjects /\ h[u] \in UpvalObjects
  BY <1>1, <1>2, Kinds
<1>4. v \in Values
  BY <1>2, <1>3, KindsAre DEF UpvalValue
<1>5. h[th].openupval \in Seq(Slots) /\ IsInjective(h[th].openupval)
  BY <1>1, <1>2, <1>3, KindsAre DEF UpvalsOK
<1>6. list \in Seq(Slots) /\ IsInjective(list) /\ Range(list) = Range(h[th].openupval) \ {u}
  <2>1. list \in Seq(Slots) /\ Range(list) = Range(h[th].openupval) \cap (Slots \ {u}) /\ IsInjective(list)
    BY <1>5, Filtered
  <2>2. Range(h[th].openupval) \subseteq Slots
    BY <1>5, SeqParts
  <2> QED BY <2>1, <2>2
<1> DEFINE x == [h[u] EXCEPT !.open = FALSE, !.value = v]
           y == [h[th] EXCEPT !.openupval = list]
<1>7. k[u] = x /\ k[th] = y /\ k = [s \in Slots |-> k[s]] /\ \A s \in Slots : s # u /\ s # th => k[s] = h[s]
  BY <1>1, <1>2 DEF Closes
<1> HIDE DEF list, v
<1>8. x \in UpvalObjects /\ x.open = FALSE /\ x.value = v
  BY <1>3, <1>4 DEF UpvalObjects
<1>9. y \in ThreadObjects /\ y.stack = h[th].stack /\ y.resumed = h[th].resumed /\ y.openupval = list
  BY <1>3, <1>6 DEF ThreadObjects
<1> HIDE DEF x, y
<1>10. k \in [Slots -> Objects] /\ \A s \in Slots : k[s].tt = h[s].tt
  <2>1. x \in Objects /\ x.tt = "upval" /\ y \in Objects /\ y.tt = "thread"
    BY <1>8, <1>9, KindsAre
  <2>2. \A s \in Slots : k[s] \in Objects /\ k[s].tt = h[s].tt
    BY <1>1, <1>2, <1>7, <2>1
  <2>3. k \in [Slots -> Objects]
    BY <2>2, <1>7
  <2> QED BY <2>2, <2>3
<1>11. \A s \in Slots : h[s].tt = "upval" => UpvalValue(k, s) = UpvalValue(h, s)
  <2> SUFFICES ASSUME NEW s \in Slots, h[s].tt = "upval" PROVE UpvalValue(k, s) = UpvalValue(h, s)
    OBVIOUS
  <2>1. CASE s = u
    BY <2>1, <1>7, <1>8 DEF UpvalValue, v
  <2>2. CASE s # u
    <3>1. k[s] = h[s]
      BY <2>2, <1>2, <1>7
    <3>2. h[s].thread \in Slots /\ (h[s].open => h[h[s].thread].tt = "thread")
      BY OpenUpvalThread
    <3>3. h[s].open => k[h[s].thread].stack = h[h[s].thread].stack
      BY <3>2, <1>2, <1>7, <1>9
    <3>4. CASE h[s].open
      BY <3>1, <3>3, <3>4 DEF UpvalValue
    <3>5. CASE ~h[s].open
      BY <3>1, <3>5 DEF UpvalValue
    <3> QED BY <3>4, <3>5
  <2> QED BY <2>1, <2>2
<1>12. \A s \in Slots : Held(k, s) = Held(h, s)
  <2> SUFFICES ASSUME NEW s \in Slots PROVE Held(k, s) = Held(h, s)
    OBVIOUS
  <2>1. CASE h[s].tt = "upval"
    BY <2>1, <1>10, <1>11 DEF Held
  <2>2. CASE s = th
    BY <2>2, <1>2, <1>7, <1>9, <1>10 DEF Held
  <2>3. CASE h[s].tt # "upval" /\ s # th
    <3>1. k[s] = h[s]
      BY <2>3, <1>7
    <3> QED BY <3>1, <2>3 DEF Held
  <2> QED BY <2>1, <2>2, <2>3
<1> QED BY <1>2, <1>6, <1>7, <1>8, <1>9, <1>10, <1>11, <1>12 DEF ClosedUpval

(* The parts of the invariant that do not depend on the state of the       *)
(* cycle.                                                                  *)
LEMMA ClosedParts ==
  ASSUME NEW h, NEW m, NEW tmu, NEW cs, NEW p, Good(h, m, tmu, cs, p), NEW u \in Slots,
         h[u].tt = "upval", h[u].open, NEW k, ClosedUpval(h, k, u), NEW n \in Collectors,
         \A s \in Slots : n.marked[s] = "none" <=> m.marked[s] = "none",
         \A s \in Slots : Live(m, s) => Live(n, s), \A s \in Slots : Live(n, s) => s = u \/ Live(m, s),
         Live(m, u), Entered(m, n, u)
  PROVE  Typed(k, n) /\ Closed(k, n) /\ UpvalsOK(k) /\ Placed(k, n, tmu) /\ RootsLive(k, n, tmu, cs)
<1> DEFINE th == h[u].thread
<1>1. /\ Typed(h, m) /\ Closed(h, m) /\ UpvalsOK(h) /\ Placed(h, m, tmu) /\ RootsLive(h, m, tmu, cs)
      /\ h \in [Slots -> Objects] /\ k \in [Slots -> Objects]
  BY DEF Good, HeapInv, Typed, ClosedUpval
<1>2. /\ th \in Slots /\ h[th].tt = "thread" /\ u # th
      /\ \A s \in Slots : s # u /\ s # th => k[s] = h[s]
      /\ \A s \in Slots : k[s].tt = h[s].tt
      /\ k[th].stack = h[th].stack /\ k[th].resumed = h[th].resumed
      /\ IsInjective(k[th].openupval) /\ Range(k[th].openupval) = Range(h[th].openupval) \ {u}
      /\ k[u].open = FALSE
      /\ \A s \in Slots : h[s].tt = "upval" => UpvalValue(k, s) = UpvalValue(h, s)
  BY DEF ClosedUpval
<1>3. Typed(k, n)
  <2>1. \A s \in Slots : k[s] = Free <=> h[s] = Free
    BY <1>1, <1>2, Kinds
  <2> QED BY <2>1, <1>1 DEF Typed
<1>4. \A v : /\ Fine(h, m, v) => Fine(k, n, v)
             /\ FineMeta(h, m, v) => FineMeta(k, n, v)
             /\ (v \in Slots /\ FineUpval(h, m, v)) => FineUpval(k, n, v)
  BY <1>2 DEF Fine, FineMeta, FineUpval
<1>5. Closed(k, n)
  <2> SUFFICES ASSUME NEW s \in Slots, Live(n, s) PROVE Sound(k, n, s)
    BY DEF Closed
  <2>1. Sound(h, m, s)
    BY <1>1 DEF Closed
  <2>2. CASE h[s].tt = "upval"
    BY <2>1, <2>2, <1>2, <1>4 DEF Sound
  <2>3. CASE s = th
    BY <2>1, <2>3, <1>2, <1>4 DEF Sound
  <2>4. CASE h[s].tt # "upval" /\ s # th
    <3>1. k[s] = h[s]
      BY <1>2, <2>4
    <3>2. h[s].tt = "function" => \A x \in Range(h[s].upvals) : x \in Slots
      BY <1>1, Kinds, KindsAre, SeqParts
    <3> QED BY <2>1, <2>4, <3>1, <3>2, <1>4 DEF Sound
  <2> QED BY <2>2, <2>3, <2>4
<1>6. UpvalsOK(k)
  <2> SUFFICES ASSUME NEW s \in Slots
               PROVE  /\ k[s].tt = "thread" => /\ IsInjective(k[s].openupval)
                                               /\ \A x \in Range(k[s].openupval) : OpenIn(k, s, x)
                      /\ (k[s].tt = "upval" /\ k[s].open) => /\ k[k[s].thread].tt = "thread"
                                                             /\ s \in Range(k[k[s].thread].openupval)
    BY DEF UpvalsOK
  <2>1. \A t \in Slots : h[t].tt = "thread" => \A x \in Range(h[t].openupval) : x \in Slots /\ OpenIn(h, t, x)
    <3>1. \A t \in Slots : h[t].tt = "thread" => Range(h[t].openupval) \subseteq Slots
      BY <1>1, Kinds, KindsAre, SeqParts
    <3> QED BY <3>1, <1>1 DEF UpvalsOK
  <2>2. ASSUME k[s].tt = "thread"
        PROVE  IsInjective(k[s].openupval) /\ \A x \in Range(k[s].openupval) : OpenIn(k, s, x)
    <3>1. CASE s = th
      <4>1. \A x \in Range(k[th].openupval) : x \in Slots /\ x # u /\ x # th /\ OpenIn(h, th, x)
        BY <2>1, <1>2 DEF OpenIn
      <4> QED BY <3>1, <4>1, <1>2 DEF OpenIn
    <3>2. CASE s # th
      <4>1. k[s] = h[s] /\ h[s].tt = "thread"
        BY <2>2, <3>2, <1>2
      <4>2. \A x \in Range(h[s].openupval) : x \in Slots /\ x # u /\ x # th /\ OpenIn(h, s, x)
        BY <2>1, <3>2, <4>1, <1>2 DEF OpenIn
      <4>3. IsInjective(h[s].openupval)
        BY <4>1, <1>1 DEF UpvalsOK
      <4> QED BY <4>1, <4>2, <4>3, <1>2 DEF OpenIn
    <3> QED BY <3>1, <3>2
  <2>3. ASSUME k[s].tt = "upval", k[s].open
        PROVE  k[k[s].thread].tt = "thread" /\ s \in Range(k[k[s].thread].openupval)
    <3>1. s # u /\ s # th /\ k[s] = h[s] /\ h[s].tt = "upval" /\ h[s].open
      BY <2>3, <1>2
    <3>2. h[s].thread \in Slots /\ h[h[s].thread].tt = "thread" /\ s \in Range(h[h[s].thread].openupval)
      BY <3>1, <1>1, OpenUpvalThread DEF UpvalsOK
    <3>3. CASE h[s].thread = th
      BY <3>1, <3>2, <3>3, <1>2
    <3>4. CASE h[s].thread # th
      BY <3>1, <3>2, <3>4, <1>2
    <3> QED BY <3>3, <3>4
  <2> QED BY <2>2, <2>3
<1>7. Placed(k, n, tmu)
  <2>1. /\ tmu \in SlotSeqs /\ IsInjective(m.rootgc) /\ IsInjective(tmu)
        /\ Range(m.rootgc) \cap Range(tmu) = {}
        /\ Range(m.rootgc) \cup Range(tmu) = {s \in Slots : Listed(h, s)}
        /\ \A x \in Range(tmu) : h[x].tt = "userdata" /\ h[x].finalized
        /\ h[Main].tt = "thread" /\ h[Globals].tt = "table"
    BY <1>1 DEF Placed
  <2>2. u \notin Range(m.rootgc) /\ u \notin Range(tmu) /\ th \notin Range(tmu)
    BY <2>1, <1>2 DEF Listed
  <2>3. \A s \in Slots : Listed(k, s) <=> s = u \/ Listed(h, s)
    BY <1>2 DEF Listed
  <2>4. m.rootgc \in Seq(Slots) /\ n.rootgc \in Seq(Slots) /\ m.sweepgc \in Nat
    BY <1>1 DEF Typed, Collectors, SlotSeqs
  <2>5. Range(n.rootgc) = Range(m.rootgc) \cup {u} /\ IsInjective(n.rootgc)
    BY <2>1, <2>2, <2>4, EnteredParts
  <2>6. Range(n.rootgc) \cup Range(tmu) = {s \in Slots : Listed(k, s)}
    BY <2>1, <2>3, <2>5
  <2>7. \A x \in Range(tmu) : k[x].tt = "userdata" /\ k[x].finalized
    <3>1. \A x \in Range(tmu) : x \in Slots /\ x # u /\ x # th
      BY <2>1, <2>2
    <3> QED BY <3>1, <2>1, <1>2
  <2>8. k[Main].tt = "thread" /\ k[Globals].tt = "table"
    BY <2>1, <1>2, HeapAssumption
  <2> QED BY <2>1, <2>2, <2>5, <2>6, <2>7, <2>8 DEF Placed
<1>8. RootsLive(k, n, tmu, cs)
  <2>1. /\ Live(m, Main) /\ Live(m, Globals)
        /\ \A x \in Range(tmu) : Live(m, x)
        /\ cs \in SlotSeqs /\ cs # <<>> /\ cs[1] = Main /\ IsInjective(cs)
        /\ \A i \in DOMAIN cs : Live(m, cs[i]) /\ h[cs[i]].tt = "thread"
        /\ \A i \in 1..Len(cs) - 1 : h[cs[i]].resumed = cs[i + 1]
    BY <1>1 DEF RootsLive
  <2>2. \A s \in Slots : h[s].tt = "thread" => k[s].resumed = h[s].resumed
    <3> TAKE s \in Slots
    <3>1. s # u \/ h[s].tt # "thread"
      OBVIOUS
    <3> QED BY <3>1, <1>2
  <2>3. \A i \in DOMAIN cs : cs[i] \in Slots
    BY <2>1, SeqParts DEF SlotSeqs
  <2>4. Range(tmu) \subseteq Slots
    BY <1>1 DEF Placed
  <2>5. \A i \in 1..Len(cs) - 1 : i \in DOMAIN cs
    <3>1. Len(cs) \in Nat /\ DOMAIN cs = 1..Len(cs)
      BY <2>1 DEF SlotSeqs
    <3> QED BY <3>1
  <2>6. \A i \in DOMAIN cs : Live(n, cs[i]) /\ k[cs[i]].tt = "thread"
    BY <2>1, <2>3, <1>2
  <2>7. \A i \in 1..Len(cs) - 1 : k[cs[i]].resumed = cs[i + 1]
    BY <2>1, <2>2, <2>3, <2>5
  <2>8. Live(n, Main) /\ Live(n, Globals) /\ \A x \in Range(tmu) : Live(n, x)
    BY <2>1, <2>4, HeapAssumption
  <2> QED BY <2>1, <2>6, <2>7, <2>8 DEF RootsLive
<1> QED BY <1>3, <1>5, <1>6, <1>7, <1>8

(* The parts that depend on it, while marking.                             *)
LEMMA MarkingParts ==
  ASSUME NEW h, NEW n, NEW tmu, MarkInv(h, n, Range(tmu), {}, 0), n.gcstate = "propagate",
         \A s \in Slots : ~IsDead(n, s), ~IsWhite(n, Main), ~IsWhite(n, Globals), n.full = "no" => tmu = <<>>
  PROVE  Lists(h, n) /\ Cycle(h, n, tmu)
<1>1. Range(InLists(n)) = Pending(n) /\ IsInjective(InLists(n))
  BY ListsApart DEF MarkInv
<1>2. \A s \in Slots : Right(h, n, Range(tmu), 0, s)
  BY DEF MarkInv
<1>3. Lists(h, n)
  <2>1. \A s \in Slots : /\ n.marked[s] = "black" => Blackens(h, s)
                         /\ n.marked[s] = "gray" => Grayens(h, s)
    BY <1>2 DEF Right, BlackRight, GrayRight
  <2>2. \A s \in Pending(n) : n.marked[s] = "gray" /\ Traversed(h, s)
    BY <1>2 DEF MarkInv, Right
  <2> QED BY <1>1, <2>1, <2>2 DEF Lists
<1>4. GrayListed(h, n)
  BY <1>1, <1>2 DEF GrayListed, Right, GrayRight, IsOpen
<1>5. NoBlackToWhite(h, n, Range(tmu))
  BY <1>2 DEF NoBlackToWhite, Right, BlackRight, AllMarked
<1>6. Marking(h, n, tmu)
  BY <1>4, <1>5 DEF Marking
<1> QED BY <1>3, <1>6 DEF Cycle

(* A closed upvalue that is white joins the list of objects.               *)
LEMMA CloseWhite ==
  ASSUME NEW h, NEW m, NEW tmu, NEW cs, NEW p, Good(h, m, tmu, cs, p), NEW u \in Slots,
         h[u].tt = "upval", h[u].open, NEW k, ClosedUpval(h, k, u), Live(m, u), NEW n \in Collectors,
         n.marked = [m.marked EXCEPT ![u] = m.currentwhite], n.currentwhite = m.currentwhite,
         n.gcstate = m.gcstate, n.full = m.full, n.sweepstrgc = m.sweepstrgc, InLists(n) = InLists(m),
         Entered(m, n, u), (p = "open" /\ m.gcstate = "propagate") => IsWhite(m, u)
  PROVE  Good(k, n, tmu, cs, p)
<1> DEFINE th == h[u].thread
<1>1. /\ Typed(h, m) /\ Lists(h, m) /\ m \in Collectors
      /\ m.currentwhite \in Whites /\ OtherWhite(m) \in Whites /\ m.currentwhite # OtherWhite(m)
      /\ OtherWhite(n) = OtherWhite(m) /\ m.marked[u] # "none"
  BY MarksAre DEF Good, HeapInv, Typed, OtherWhite, Live
<1>2. n.marked[u] = m.currentwhite /\ \A s \in Slots : s # u => n.marked[s] = m.marked[s]
  BY <1>1 DEF Collectors
<1>3. /\ \A s \in Slots : n.marked[s] = "none" <=> m.marked[s] = "none"
      /\ \A s \in Slots : Live(m, s) => Live(n, s)
      /\ \A s \in Slots : Live(n, s) => s = u \/ Live(m, s)
  BY <1>1, <1>2 DEF Live, Whites
<1>4. Typed(k, n) /\ Closed(k, n) /\ UpvalsOK(k) /\ Placed(k, n, tmu) /\ RootsLive(k, n, tmu, cs)
  BY <1>3, ClosedParts
<1>5. /\ th \in Slots /\ h[th].tt = "thread" /\ u # th
      /\ \A s \in Slots : s # u /\ s # th => k[s] = h[s]
      /\ \A s \in Slots : k[s].tt = h[s].tt
      /\ Range(k[th].openupval) = Range(h[th].openupval) \ {u}
      /\ k[u].open = FALSE
      /\ \A s \in Slots : Held(k, s) = Held(h, s)
  BY DEF ClosedUpval
<1>6. u \notin Range(InLists(m)) /\ Range(InLists(m)) \subseteq Slots
  BY <1>1, ListsAreOfSlots DEF Lists, Traversed
<1>7. Lists(k, n)
  <2>1. \A s \in Slots : s # u => /\ Blackens(h, s) => Blackens(k, s)
                                  /\ Grayens(h, s) => Grayens(k, s)
                                  /\ Traversed(h, s) => Traversed(k, s)
    BY <1>5 DEF Blackens, Grayens, Traversed
  <2>2. \A s \in Slots : /\ n.marked[s] = "black" => Blackens(k, s)
                         /\ n.marked[s] = "gray" => Grayens(k, s)
    BY <2>1, <1>1, <1>2 DEF Lists, Whites
  <2>3. \A s \in Range(InLists(n)) : n.marked[s] = "gray" /\ Traversed(k, s)
    BY <2>1, <1>1, <1>2, <1>6 DEF Lists
  <2> QED BY <2>2, <2>3, <1>1 DEF Lists
<1>8. ASSUME p = "open" PROVE Cycle(k, n, tmu)
  <2>1. Cycle(h, m, tmu)
    BY <1>8 DEF Good
  <2>2. \A s \in Slots : Swept(m, s) => Swept(n, s)
    BY <1>2 DEF Swept
  <2>3. ASSUME m.gcstate = "propagate" PROVE Marking(k, n, tmu)
    <3>1. Marking(h, m, tmu) /\ IsWhite(m, u)
      BY <1>8, <2>1, <2>3 DEF Cycle
    <3>2. m.marked[u] = m.currentwhite
      BY <3>1, <1>1, MarksAre DEF Marking, IsDead
    <3>3. \A s \in Slots : n.marked[s] = m.marked[s]
      BY <3>2, <1>2
    <3>4. \A s \in Slots : (IsWhite(n, s) <=> IsWhite(m, s)) /\ (IsDead(n, s) <=> IsDead(m, s))
      BY <3>3, <1>1 DEF IsWhite, IsDead
    <3>5. GrayListed(k, n)
      BY <3>1, <3>3, <3>2, <1>1, <1>5 DEF Marking, GrayListed, Whites
    <3>6. NoBlackToWhite(k, n, Range(tmu))
      <4>1. \A s \in Slots : \A v \in Held(h, s) : v \in Slots
        BY DEF Held
      <4> QED BY <4>1, <3>1, <3>3, <3>4, <1>5 DEF Marking, NoBlackToWhite
    <3> QED BY <3>1, <3>4, <3>5, <3>6, HeapAssumption DEF Marking
  <2>4. ASSUME NEW j, SweptStrings(h, m, j) PROVE SweptStrings(k, n, j)
    <3> SUFFICES ASSUME NEW s \in Slots, k[s].tt = "string", k[s].text \in 1..j PROVE Swept(n, s)
      BY DEF SweptStrings
    <3>1. k[s] = h[s]
      BY <1>5
    <3> QED BY <3>1, <2>4, <2>2 DEF SweptStrings
  <2>5. m.rootgc \in Seq(Slots) /\ n.rootgc \in Seq(Slots) /\ m.sweepgc \in Nat
    BY <1>1 DEF Collectors, SlotSeqs
  <2>6. /\ \A j \in DOMAIN n.rootgc : j < n.sweepgc =>
             n.rootgc[j] = u \/ \E l \in DOMAIN m.rootgc : l < m.sweepgc /\ n.rootgc[j] = m.rootgc[l]
        /\ m.sweepgc \in 1..Len(m.rootgc) + 1 => n.sweepgc \in 1..Len(n.rootgc) + 1
        /\ m.sweepgc = 1 => n.sweepgc = 1
    BY <2>5, EnteredParts
  <2>7. ASSUME SweptList(h, m, m.sweepgc) PROVE SweptList(k, n, n.sweepgc)
    <3> SUFFICES ASSUME NEW j \in DOMAIN n.rootgc, j < n.sweepgc
                 PROVE  /\ Swept(n, n.rootgc[j])
                        /\ k[n.rootgc[j]].tt = "thread" => \A x \in Range(k[n.rootgc[j]].openupval) : Swept(n, x)
      BY DEF SweptList
    <3>1. CASE n.rootgc[j] = u
      BY <3>1, <1>2, <1>5 DEF Swept
    <3>2. CASE n.rootgc[j] # u
      <4>1. PICK l \in DOMAIN m.rootgc : l < m.sweepgc /\ n.rootgc[j] = m.rootgc[l]
        BY <3>2, <2>6
      <4> DEFINE o == m.rootgc[l]
      <4>2. /\ o \in Slots /\ Swept(m, o)
            /\ h[o].tt = "thread" => \A x \in Range(h[o].openupval) : Swept(m, x)
        BY <4>1, <2>7, <2>5, SeqParts DEF SweptList
      <4>3. h[o].tt = "thread" => \A x \in Range(h[o].openupval) : x \in Slots
        BY <4>2, <1>1, Kinds, KindsAre, ListsAreOfSlots, SeqParts
      <4>4. h[o].tt = "thread" => Range(k[o].openupval) \subseteq Range(h[o].openupval)
        BY <4>2, <1>5
      <4> HIDE DEF o
      <4>5. Swept(n, o) /\ (k[o].tt = "thread" => \A x \in Range(k[o].openupval) : Swept(n, x))
        BY <4>2, <4>3, <4>4, <1>5, <2>2
      <4> QED BY <4>1, <4>5 DEF o
    <3> QED BY <3>1, <3>2
  <2>8. DeadFinalized(h, m) => DeadFinalized(k, n)
    <3>1. \A s \in Slots : k[s].tt = "userdata" /\ IsDead(n, s) => k[s] = h[s] /\ IsDead(m, s)
      BY <1>1, <1>2, <1>5 DEF IsDead
    <3> QED BY <3>1 DEF DeadFinalized
  <2>9. AllSwept(h, m, tmu) => AllSwept(k, n, tmu)
    BY <2>2, <1>5 DEF AllSwept
  <2> QED BY <2>1, <2>3, <2>4, <2>7, <2>8, <2>9, <2>6 DEF Cycle
<1> QED BY <1>4, <1>7, <1>8 DEF Good, HeapInv

(* While marking, a gray upvalue turns black, and its value is marked.     *)
LEMMA CloseGray ==
  ASSUME NEW h, NEW m, NEW tmu, NEW cs, Good(h, m, tmu, cs, "open"), NEW u \in Slots,
         h[u].tt = "upval", h[u].open, NEW k, ClosedUpval(h, k, u), m.gcstate = "propagate",
         m.marked[u] = "gray", NEW e \in Collectors, e.marked = m.marked, e.currentwhite = m.currentwhite,
         e.gcstate = m.gcstate, e.full = m.full, e.sweepstrgc = m.sweepstrgc,
         e.gray = m.gray, e.grayagain = m.grayagain, e.weak = m.weak, Entered(m, e, u)
  PROVE  /\ Good(k, Barrier(k, Paint(e, u, "black"), u, k[u].value), tmu, cs, "open")
         /\ Barrier(k, Paint(e, u, "black"), u, k[u].value).gcstate = m.gcstate
         /\ Barrier(k, Paint(e, u, "black"), u, k[u].value).currentwhite = m.currentwhite
<1> DEFINE th == h[u].thread
           ex == Range(tmu)
           v == k[u].value
           a == Paint(e, u, "black")
           b == Barrier(k, a, u, v)
<1>1. Typed(h, m) /\ h \in [Slots -> Objects] /\ m \in Collectors
  BY DEF Good, Typed
<1>2. /\ MarkInv(h, m, ex, {}, 0) /\ WellFormed(h) /\ \A s \in Slots : ~IsDead(m, s)
      /\ ~IsWhite(m, Main) /\ ~IsWhite(m, Globals) /\ (m.full = "no" => tmu = <<>>)
  BY MarkingBegun
<1>3. /\ k \in [Slots -> Objects]
      /\ th \in Slots /\ h[th].tt = "thread" /\ u # th
      /\ \A s \in Slots : s # u /\ s # th => k[s] = h[s]
      /\ \A s \in Slots : k[s].tt = h[s].tt
      /\ k[u].open = FALSE
      /\ \A s \in Slots : h[s].tt = "upval" => UpvalValue(k, s) = UpvalValue(h, s)
      /\ \A s \in Slots : Held(k, s) = Held(h, s)
  BY DEF ClosedUpval
<1>4. Painted(e, a, u, "black")
  BY PaintIs DEF Marks, Colours
<1> HIDE DEF a
<1>5. /\ a \in Collectors /\ a.marked[u] = "black" /\ \A s \in Slots : s # u => a.marked[s] = m.marked[s]
      /\ a.gray = m.gray /\ a.grayagain = m.grayagain /\ a.weak = m.weak
      /\ a.rootgc = e.rootgc /\ a.currentwhite = m.currentwhite /\ a.gcstate = "propagate"
      /\ a.full = m.full /\ a.sweepgc = e.sweepgc /\ a.sweepstrgc = m.sweepstrgc
  BY <1>4 DEF Painted
<1>6. \A s \in Slots : IsWhite(a, s) <=> IsWhite(m, s)
  BY <1>5 DEF IsWhite
<1>7. Pending(a) = Pending(m) /\ (OnceListed(m) <=> OnceListed(a))
  BY <1>5 DEF Pending, OnceListed
<1>8. MarkInv(k, a, ex, {u}, 0)
  <2>1. \A s \in Slots \ {u} : Right(k, a, ex, 0, s)
    <3> SUFFICES ASSUME NEW s \in Slots \ {u} PROVE Right(k, a, ex, 0, s)
      OBVIOUS
    <3>1. Right(h, m, ex, 0, s) /\ a.marked[s] = m.marked[s] /\ s \in Slots
      BY <1>2, <1>5 DEF MarkInv
    <3>2. (Blackens(h, s) => Blackens(k, s)) /\ (Grayens(h, s) => Grayens(k, s)) /\ (IsOpen(h, s) => IsOpen(k, s))
      BY <1>3 DEF Blackens, Grayens, Traversed, IsOpen
    <3>3. AllMarked(h, m, s) => AllMarked(k, a, s)
      <4>1. \A x \in Held(h, s) : x \in Slots
        BY DEF Held
      <4> QED BY <4>1, <3>1, <1>3, <1>6 DEF AllMarked
    <3> QED BY <3>1, <3>2, <3>3, <1>3, <1>7 DEF Right, BlackRight, GrayRight, StageRight
  <2>2. \A s \in Slots : a.marked[s] = "none" <=> k[s] = Free
    <3>1. \A s \in Slots : k[s] = Free <=> h[s] = Free
      BY <1>1, <1>3, Kinds
    <3> QED BY <3>1, <1>1, <1>5 DEF Typed
  <2>3. \A s \in Pending(a) : s \in Slots /\ Traversed(k, s) /\ ~IsWhite(a, s)
    BY <1>2, <1>3, <1>6, <1>7 DEF MarkInv, Traversed
  <2>4. ~IsWhite(a, u) /\ k[u] # Free
    BY <1>3, <1>5 DEF IsWhite, Free
  <2>5. OnceListed(a) /\ 0 \in 0..3 /\ {u} \in SUBSET Slots
    BY <1>2, <1>7 DEF MarkInv
  <2> QED BY <2>1, <2>2, <2>3, <2>4, <2>5, <1>5 DEF MarkInv
<1>9. WellFormed(k)
  <2>1. \A s \in Slots : h[s].tt \in {"table", "userdata"} => k[s] = h[s]
    BY <1>3
  <2> QED BY <1>2, <1>3, <2>1 DEF WellFormed
<1>10. MarkInv(k, b, ex, {u}, 0) /\ Further(a, b) /\ b.marked[u] = "black" /\ Marked(b, v)
  <2>1. CASE v \notin Slots \/ ~IsWhite(a, v)
    <3>1. b = a
      BY <2>1, <1>3 DEF Barrier, BarrierForward
    <3>2. Further(a, a)
      BY FurtherReflexive
    <3> QED BY <2>1, <3>1, <3>2, <1>5, <1>8 DEF Marked
  <2>2. CASE v \in Slots /\ IsWhite(a, v)
    <3> DEFINE c == Mark(k, a, v)
    <3>1. b = c
      BY <2>2, <1>3, <1>5 DEF Barrier, BarrierForward
    <3> HIDE DEF b
    <3>2. MarkedBy(k, a, c, v, ex, {u}, 0)
      BY <1>8, <1>9, MarkStep
    <3> HIDE DEF c
    <3>3. MarkInv(k, c, ex, {u}, 0) /\ Further(a, c) /\ Keeping(a, c) /\ Marked(c, v)
      BY <3>2 DEF MarkedBy
    <3>4. c.marked[u] = "black"
      BY <3>3, <1>5 DEF Keeping, IsWhite
    <3> QED BY <3>1, <3>3, <3>4
  <2> QED BY <2>1, <2>2
<1> HIDE DEF b
<1>11. Right(k, b, ex, 0, u)
  <2>1. u \notin Pending(b)
    BY <1>3, <1>10 DEF MarkInv, Traversed
  <2>2. AllMarked(k, b, u)
    BY <1>3, <1>10 DEF AllMarked, Held, Marked, UpvalValue
  <2> QED BY <2>1, <2>2, <1>3, <1>10 DEF Right, BlackRight, GrayRight, StageRight, Blackens, Pending
<1>12. MarkInv(k, b, ex, {}, 0)
  <2>1. {u} = {} \cup {u} /\ {} \in SUBSET Slots
    OBVIOUS
  <2> QED BY <2>1, <1>10, <1>11, Finished
<1>13. /\ b \in Collectors /\ b.rootgc = e.rootgc /\ b.sweepgc = e.sweepgc /\ b.currentwhite = m.currentwhite
       /\ b.gcstate = "propagate" /\ b.full = m.full
       /\ \A s \in Slots : ~IsWhite(m, s) => ~IsWhite(b, s)
       /\ \A s \in Slots : b.marked[s] \in {m.marked[s], "gray", "black"}
  BY <1>5, <1>6, <1>10, <1>12 DEF Further, MarkInv
<1>14. OtherWhite(b) = OtherWhite(m) /\ OtherWhite(m) \in Whites
  BY <1>1, <1>13, MarksAre DEF OtherWhite
<1>15. /\ \A s \in Slots : b.marked[s] = "none" <=> m.marked[s] = "none"
       /\ \A s \in Slots : Live(m, s) => Live(b, s)
       /\ \A s \in Slots : Live(b, s) => s = u \/ Live(m, s)
       /\ Live(m, u) /\ \A s \in Slots : ~IsDead(b, s)
  <2>1. \A s \in Slots : b.marked[s] = "none" <=> m.marked[s] = "none"
    <3>1. \A s \in Slots : (b.marked[s] = "none" <=> k[s] = Free) /\ (m.marked[s] = "none" <=> h[s] = Free)
      BY <1>2, <1>12 DEF MarkInv
    <3>2. \A s \in Slots : k[s] = Free <=> h[s] = Free
      BY <1>1, <1>3, Kinds
    <3> QED BY <3>1, <3>2
  <2> QED BY <2>1, <1>2, <1>13, <1>14 DEF Live, IsDead, Whites
<1>16. Entered(m, b, u)
  BY <1>13 DEF Entered
<1>17. Typed(k, b) /\ Closed(k, b) /\ UpvalsOK(k) /\ Placed(k, b, tmu) /\ RootsLive(k, b, tmu, cs)
  BY <1>13, <1>15, <1>16, ClosedParts
<1>18. Lists(k, b) /\ Cycle(k, b, tmu)
  <2>1. ~IsWhite(b, Main) /\ ~IsWhite(b, Globals) /\ (b.full = "no" => tmu = <<>>)
    BY <1>2, <1>13, HeapAssumption
  <2> QED BY <2>1, <1>12, <1>13, <1>15, MarkingParts
<1>19. Good(k, b, tmu, cs, "open")
  BY <1>17, <1>18 DEF Good, HeapInv
<1> QED BY <1>13, <1>19 DEF a, b
=============================================================================
