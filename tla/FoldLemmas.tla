----------------------------- MODULE FoldLemmas -----------------------------
(***************************************************************************)
(* Induction over numbers in the form the proofs about lgc.c and ltable.c  *)
(* use it, what a fold computes step by step, and what sequences hold.     *)
(***************************************************************************)
EXTENDS Integers, SequencesExt, FiniteSetTheorems, SequenceTheorems, WellFoundedInduction, TLAPS

(* A set of finite sets has a member that is minimal for inclusion.        *)
LEMMA Minimal ==
  ASSUME NEW S, NEW T, T \subseteq FiniteSubsetsOf(S), T # {}
  PROVE  \E x \in T : \A y \in T : ~ (y \subseteq x /\ y # x)
<1>1. \E x \in T : \A y \in T : ~ (<<y, x>> \in StrictSubsetOrdering(S))
  BY FS_StrictSubsetOrderingWellFounded, WFMin
<1> QED BY <1>1 DEF StrictSubsetOrdering, FiniteSubsetsOf

(* A set of natural numbers has a least member.                            *)
LEMMA Least ==
  ASSUME NEW T, T \subseteq Nat, T # {}
  PROVE  \E x \in T : \A y \in T : x <= y
<1> DEFINE Below == {1..n : n \in T}
<1>1. Below \subseteq FiniteSubsetsOf(Nat)
  <2> SUFFICES ASSUME NEW n \in T PROVE 1..n \in FiniteSubsetsOf(Nat)
    OBVIOUS
  <2> QED BY FS_Interval DEF FiniteSubsetsOf
<1>2. Below # {}
  OBVIOUS
<1> HIDE DEF Below
<1>3. PICK a \in Below : \A b \in Below : ~(b \subseteq a /\ b # a)
  BY <1>1, <1>2, Minimal
<1> USE DEF Below
<1>4. PICK x \in T : a = 1..x
  OBVIOUS
<1>5. ASSUME NEW y \in T, y < x PROVE FALSE
  <2>1. 1..y \in Below /\ 1..y \subseteq a
    BY <1>4, <1>5
  <2>2. x \in a /\ x \notin 1..y
    BY <1>4, <1>5
  <2> QED BY <2>1, <2>2, <1>3
<1> QED BY <1>5

(* Induction up to n, over the members of a set: the form in which the     *)
(* proofs below use it.                                                    *)
LEMMA Induct ==
  ASSUME NEW n \in Nat, NEW A, 0 \in A, \A i \in 1..n : i - 1 \in A => i \in A
  PROVE  \A i \in 0..n : i \in A
<1> DEFINE T == (0..n) \ A
<1> SUFFICES ASSUME T # {} PROVE FALSE
  OBVIOUS
<1>1. T \subseteq Nat
  OBVIOUS
<1> HIDE DEF T
<1>2. PICK x \in T : \A y \in T : x <= y
  BY <1>1, Least
<1> USE DEF T
<1>3. x # 0 /\ x - 1 \in 0..n /\ x \in 1..n
  OBVIOUS
<1>4. x - 1 \notin T
  BY <1>2, <1>3
<1> QED BY <1>3, <1>4

(* A set of the first indices has a greatest member.                       *)
LEMMA MaxIn ==
  ASSUME NEW n \in Nat, NEW s \in SUBSET (1..n), s # {}
  PROVE  Max(s) \in s /\ \A j \in s : j <= Max(s)
<1> DEFINE T == {n - i : i \in s}
<1>1. \A i \in s : i \in 1..n /\ n - i \in Nat
  OBVIOUS
<1>2. T \subseteq Nat /\ T # {}
  BY <1>1
<1> HIDE DEF T
<1>3. PICK x \in T : \A y \in T : x <= y
  BY <1>2, Least
<1> USE DEF T
<1>4. PICK i \in s : x = n - i
  OBVIOUS
<1>5. \A j \in s : i >= j
  <2> TAKE j \in s
  <2>1. n - j \in T
    OBVIOUS
  <2>2. n - i <= n - j
    BY <2>1, <1>3, <1>4
  <2> HIDE DEF T
  <2> QED BY <2>2, <1>1
<1> HIDE DEF T
<1>6. Max(s) \in s /\ \A j \in s : Max(s) >= j
  BY <1>4, <1>5 DEF Max
<1>7. \A j \in s : j \in Int
  OBVIOUS
<1> QED BY <1>6, <1>7

IsFold(V, base, n, F) ==
  V = [s \in SUBSET (1..n) |-> IF s = {} THEN base ELSE F[<<V[s \ {Max(s)}], Max(s)>>]]

(* The equation of a fold has a solution, IsFold: V maps every set of      *)
(* indices to what the fold makes of it.  It is the least set V is not     *)
(* defined on that shows it.                                               *)
LEMMA FoldExists ==
  ASSUME NEW M, NEW base \in M, NEW n \in Nat, NEW F, \A x \in M, i \in 1..n : F[<<x, i>>] \in M
  PROVE  \E V \in [SUBSET (1..n) -> M] : IsFold(V, base, n, F)
<1> USE DEF IsFold
<1> DEFINE Small(k) == {s \in SUBSET (1..n) : Cardinality(s) <= k}
           Solves(V, k) == V = [s \in Small(k) |-> IF s = {} THEN base
                                                   ELSE F[<<V[s \ {Max(s)}], Max(s)>>]]
           A == {k \in Nat : \E V \in [Small(k) -> M] : Solves(V, k)}
<1>1. \A s \in SUBSET (1..n) : IsFiniteSet(s) /\ Cardinality(s) \in Nat /\ Cardinality(s) <= n
  <2> TAKE s \in SUBSET (1..n)
  <2>1. IsFiniteSet(1..n) /\ Cardinality(1..n) = n
    BY FS_Interval
  <2> QED BY <2>1, FS_Subset, FS_CardinalityType
<1>2. ASSUME NEW s \in SUBSET (1..n), s # {}
      PROVE  /\ Max(s) \in s /\ Max(s) \in 1..n /\ s \ {Max(s)} \in SUBSET (1..n)
             /\ Cardinality(s \ {Max(s)}) = Cardinality(s) - 1
  <2>1. Max(s) \in s
    BY <1>2, MaxIn
  <2> QED BY <2>1, <1>1, FS_RemoveElement
<1>3. 0 \in A
  <2> DEFINE V == [s \in Small(0) |-> base]
  <2>1. \A s \in Small(0) : s = {}
    BY <1>1, FS_EmptySet
  <2>2. Solves(V, 0) /\ V \in [Small(0) -> M]
    BY <2>1
  <2> QED BY <2>2
<1>4. ASSUME NEW k \in 1..n, k - 1 \in A
      PROVE  k \in A
  <2>1. PICK V \in [Small(k - 1) -> M] : Solves(V, k - 1)
    BY <1>4
  <2> DEFINE W == [s \in Small(k) |-> IF s = {} THEN base ELSE F[<<V[s \ {Max(s)}], Max(s)>>]]
  <2>2. \A s \in Small(k) : s # {} => s \ {Max(s)} \in Small(k - 1) /\ Max(s) \in 1..n
    BY <1>1, <1>2
  <2>3. Small(k - 1) \subseteq Small(k)
    BY <1>1
  <2> HIDE DEF Small
  <2>4. \A s \in Small(k - 1) : W[s] = V[s]
    BY <2>1, <2>3
  <2>5. \A s \in Small(k) : s # {} => W[s \ {Max(s)}] = V[s \ {Max(s)}]
    BY <2>2, <2>4
  <2>6. Solves(W, k)
    BY <2>5
  <2>7. \A s \in Small(k) : s # {} => V[s \ {Max(s)}] \in M
    BY <2>2
  <2>8. \A s \in Small(k) : s # {} => W[s] \in M
    BY <2>2, <2>7
  <2>9. W \in [Small(k) -> M]
    BY <2>8
  <2> HIDE DEF W, Solves
  <2> QED BY <2>6, <2>9
<1> HIDE DEF A
<1>5. n \in A
  BY <1>3, <1>4, Induct
<1> USE DEF A
<1>6. PICK V \in [Small(n) -> M] : Solves(V, n)
  BY <1>5
<1>7. Small(n) = SUBSET (1..n)
  BY <1>1
<1> QED BY <1>6, <1>7

(* What a fold over a list computes, one index after the other.            *)
LEMMA FoldSteps ==
  ASSUME NEW n \in Nat, NEW i \in 1..n
  PROVE  /\ Max(1..i) = i /\ (1..i) \ {i} = 1..(i - 1)
         /\ 1..i \in SUBSET (1..n) /\ 1..i # {}
<1>1. 1..i \in SUBSET (1..n) /\ 1..i # {} /\ i \in 1..i
  OBVIOUS
<1>2. Max(1..i) \in 1..i /\ i <= Max(1..i)
  BY <1>1, MaxIn
<1>3. Max(1..i) = i
  BY <1>2
<1> QED BY <1>1, <1>3

(* The values between the steps of a fold: U is the table of the CHOOSE in *)
(* the definition of folds, M what no step leaves, and F the step.         *)
IsTrace(W, U, base, n, F, M) ==
  /\ W[0] = base /\ W[n] = U[1..n]
  /\ \A i \in 1..n : W[i] = F[<<W[i - 1], i>>]
  /\ \A i \in 0..n : W[i] \in M

LEMMA FoldTrace ==
  ASSUME NEW M, NEW base \in M, NEW n \in Nat, NEW F, \A x \in M, i \in 1..n : F[<<x, i>>] \in M,
         NEW U, U[{}] = base,
         \A s \in SUBSET (1..n) : s # {} /\ U[s \ {Max(s)}] \in M => U[s] = F[<<U[s \ {Max(s)}], Max(s)>>]
  PROVE  \E W : IsTrace(W, U, base, n, F, M)
<1> DEFINE W == [i \in 0..n |-> U[1..i]]
<1>1. 1..0 = {}
  OBVIOUS
<1>2. W[0] = base /\ W[n] = U[1..n]
  BY <1>1
<1>3. ASSUME NEW i \in 1..n, W[i - 1] \in M PROVE W[i] = F[<<W[i - 1], i>>]
  <2> DEFINE s == 1..i
  <2>1. Max(s) = i /\ s \ {i} = 1..(i - 1) /\ s \in SUBSET (1..n) /\ s # {}
    BY FoldSteps
  <2>2. W[i] = U[s] /\ W[i - 1] = U[1..(i - 1)]
    OBVIOUS
  <2> HIDE DEF s, W
  <2> QED BY <2>1, <2>2, <1>3
<1> HIDE DEF W
<1> DEFINE A == {j \in 0..n : W[j] \in M}
<1>4. ASSUME NEW i \in 1..n, i - 1 \in A PROVE i \in A
  <2>1. W[i - 1] \in M
    BY <1>4
  <2>2. W[i] \in M
    <3> HIDE DEF A
    <3> QED BY <2>1, <1>3
  <2> QED BY <2>2
<1>5. 0 \in A
  BY <1>2
<1> HIDE DEF A
<1>6. \A i \in 0..n : i \in A
  BY <1>4, <1>5, Induct
<1>7. \A i \in 0..n : W[i] \in M
  BY <1>6 DEF A
<1>8. \A i \in 1..n : i - 1 \in 0..n
  OBVIOUS
<1>9. \A i \in 1..n : W[i] = F[<<W[i - 1], i>>]
  BY <1>3, <1>7, <1>8
<1> QED BY <1>2, <1>7, <1>9 DEF IsTrace

(* What is in a sequence.                                                  *)
LEMMA SeqParts ==
  ASSUME NEW X, NEW a \in Seq(X)
  PROVE  /\ Len(a) \in Nat /\ DOMAIN a = 1..Len(a) /\ Range(a) \subseteq X
         /\ \A i \in DOMAIN a : a[i] \in X /\ a[i] \in Range(a)
         /\ \A x \in Range(a) : \E i \in DOMAIN a : a[i] = x
BY DEF Range

(* Two sequences one after the other: what they hold, and when it holds    *)
(* nothing twice.                                                          *)
LEMMA Joined ==
  ASSUME NEW X, NEW a \in Seq(X), NEW b \in Seq(X)
  PROVE  /\ a \o b \in Seq(X) /\ Range(a \o b) = Range(a) \cup Range(b)
         /\ IsInjective(a \o b) <=> IsInjective(a) /\ IsInjective(b) /\ Range(a) \cap Range(b) = {}
<1> DEFINE c == a \o b
<1>1. c \in Seq(X) /\ Len(c) = Len(a) + Len(b)
      /\ (\A i \in 1..Len(a) : c[i] = a[i]) /\ \A i \in 1..Len(b) : c[Len(a) + i] = b[i]
  OBVIOUS
<1>2. /\ Len(a) \in Nat /\ DOMAIN a = 1..Len(a) /\ Len(b) \in Nat /\ DOMAIN b = 1..Len(b)
      /\ DOMAIN c = 1..(Len(a) + Len(b))
  BY <1>1
<1> HIDE DEF c
<1>3. \A i \in DOMAIN c : i \in DOMAIN a \/ (i - Len(a) \in DOMAIN b /\ i = Len(a) + (i - Len(a)))
  BY <1>2
<1>4. \A i \in DOMAIN a : i \in DOMAIN c /\ c[i] = a[i]
  BY <1>1, <1>2
<1>5. \A i \in DOMAIN b : Len(a) + i \in DOMAIN c /\ c[Len(a) + i] = b[i]
  BY <1>1, <1>2
<1>6. Range(c) = Range(a) \cup Range(b)
  BY <1>3, <1>4, <1>5 DEF Range
<1>7. ASSUME IsInjective(c)
      PROVE  IsInjective(a) /\ IsInjective(b) /\ Range(a) \cap Range(b) = {}
  <2>1. IsInjective(a)
    BY <1>4, <1>7 DEF IsInjective
  <2>2. IsInjective(b)
    BY <1>2, <1>5, <1>7 DEF IsInjective
  <2>3. \A i \in DOMAIN a, j \in DOMAIN b : a[i] # b[j]
    BY <1>2, <1>4, <1>5, <1>7 DEF IsInjective
  <2> QED BY <2>1, <2>2, <2>3 DEF Range
<1>8. ASSUME IsInjective(a), IsInjective(b), Range(a) \cap Range(b) = {}
      PROVE  IsInjective(c)
  <2>1. \A i \in DOMAIN a, j \in DOMAIN b : a[i] # b[j]
    BY <1>8 DEF Range
  <2> SUFFICES ASSUME NEW i \in DOMAIN c, NEW j \in DOMAIN c, c[i] = c[j] PROVE i = j
    BY DEF IsInjective
  <2>2. CASE i \in DOMAIN a /\ j \in DOMAIN a
    BY <2>2, <1>4, <1>8 DEF IsInjective
  <2>3. CASE i \in DOMAIN a /\ j \notin DOMAIN a
    BY <2>3, <2>1, <1>3, <1>4, <1>5
  <2>4. CASE i \notin DOMAIN a /\ j \in DOMAIN a
    BY <2>4, <2>1, <1>3, <1>4, <1>5
  <2>5. CASE i \notin DOMAIN a /\ j \notin DOMAIN a
    <3>1. b[i - Len(a)] = b[j - Len(a)] /\ i - Len(a) \in DOMAIN b /\ j - Len(a) \in DOMAIN b
      BY <2>5, <1>3, <1>5
    <3>2. i - Len(a) = j - Len(a)
      BY <3>1, <1>8 DEF IsInjective
    <3> QED BY <3>2, <1>2
  <2> QED BY <2>2, <2>3, <2>4, <2>5
<1> QED BY <1>1, <1>6, <1>7, <1>8 DEF c

(* A sequence of one element.                                              *)
LEMMA Single ==
  ASSUME NEW X, NEW x \in X
  PROVE  <<x>> \in Seq(X) /\ Range(<<x>>) = {x} /\ IsInjective(<<x>>)
BY DEF Range, IsInjective

(* The empty sequence.                                                     *)
LEMMA Empty ==
  ASSUME NEW X
  PROVE  <<>> \in Seq(X) /\ Range(<<>>) = {} /\ IsInjective(<<>>)
BY DEF Range, IsInjective

(* A sequence is its head and its tail, which no longer holds the head.    *)
LEMMA Cut ==
  ASSUME NEW X, NEW a \in Seq(X), a # <<>>
  PROVE  /\ Head(a) \in X /\ Tail(a) \in Seq(X) /\ Range(a) = {Head(a)} \cup Range(Tail(a))
         /\ IsInjective(a) => IsInjective(Tail(a)) /\ Head(a) \notin Range(Tail(a))
<1>1. Head(a) \in X /\ Tail(a) \in Seq(X)
  OBVIOUS
<1>2. a = <<Head(a)>> \o Tail(a)
  OBVIOUS
<1> DEFINE b == Tail(a)
           c == <<Head(a)>>
<1> HIDE DEF b, c
<1>3. c \in Seq(X) /\ Range(c) = {Head(a)} /\ b \in Seq(X) /\ a = c \o b
  BY <1>1, <1>2, Single DEF b, c
<1>4. /\ Range(c \o b) = Range(c) \cup Range(b)
      /\ IsInjective(c \o b) <=> IsInjective(c) /\ IsInjective(b) /\ Range(c) \cap Range(b) = {}
  BY <1>3, Joined
<1> QED BY <1>1, <1>3, <1>4 DEF b
=============================================================================
