--------------------------- MODULE LuaTableProofs ---------------------------
(***************************************************************************)
(* Proofs about LuaTable, for every set of keys, every hash and every size *)
(* of the vectors: its type, that every key is reached on the chain of its *)
(* main position, that a rehash makes room for its key, that a table       *)
(* implements AssociativeTable, and that its length is a border.           *)
(*                                                                         *)
(* First powers of two, then chains as pure links between nodes, then what *)
(* each operator of ltable.c does to a table that is Sound, in the order   *)
(* of LuaTable, and last the traversal and the inductive invariant IInv.   *)
(***************************************************************************)
EXTENDS LuaTable, FoldLemmas

-----------------------------------------------------------------------------
(* Powers of two: those of a number are as many as its sets.               *)
LEMMA TwoTo ==
  ASSUME NEW n \in Nat
  PROVE  2^n \in Nat /\ 2^n >= n + 1
<1>1. IsFiniteSet(1..n) /\ Cardinality(1..n) = n
  BY FS_Interval
<1>2. IsFiniteSet(SUBSET (1..n)) /\ Cardinality(SUBSET (1..n)) = 2^n
  BY <1>1, FS_SUBSET
<1>3. 2^n \in Nat
  BY <1>2, FS_CardinalityType
<1> DEFINE f == [i \in 0..n |-> 1..i]
<1>4. f \in Injection(0..n, SUBSET (1..n))
  <2>1. f \in [0..n -> SUBSET (1..n)]
    OBVIOUS
  <2>2. ASSUME NEW i \in 0..n, NEW j \in 0..n, f[i] = f[j] PROVE i = j
    <3>1. 1..i = 1..j
      BY <2>2
    <3>2. CASE i < j
      BY <3>1, <3>2, j \in 1..j, j \notin 1..i
    <3>3. CASE j < i
      BY <3>1, <3>3, i \in 1..i, i \notin 1..j
    <3> QED BY <3>2, <3>3
  <2> QED BY <2>1, <2>2 DEF Injection, IsInjective
<1>5. Cardinality(0..n) = n + 1
  BY FS_Interval
<1>6. Cardinality(0..n) <= Cardinality(SUBSET (1..n))
  BY <1>2, <1>4, FS_Injection
<1> QED BY <1>2, <1>3, <1>5, <1>6

(* The logarithm that sizes the vector of nodes.                           *)
LEMMA CeilLog ==
  ASSUME NEW n \in Nat
  PROVE  /\ CeilLog2(n) \in Nat /\ 2^CeilLog2(n) \in Nat /\ 2^CeilLog2(n) >= n
         /\ \A j \in 0..(CeilLog2(n) - 1) : 2^j < n
<1> DEFINE T == {i \in Nat : 2^i >= n}
<1>1. n \in T
  BY TwoTo
<1>2. PICK i \in T : \A j \in T : i <= j
  BY <1>1, Least
<1>3. i \in 0..n /\ 2^i >= n
  BY <1>1, <1>2
<1>4. \A j \in 0..(i - 1) : 2^j < n
  <2> SUFFICES ASSUME NEW j \in 0..(i - 1) PROVE 2^j < n
    OBVIOUS
  <2>1. j \in Nat /\ 2^j \in Nat /\ ~(i <= j)
    BY <1>3, TwoTo
  <2>2. j \notin T
    BY <2>1, <1>2
  <2> QED BY <2>1, <2>2
<1> HIDE DEF T
<1>5. \E m \in 0..n : 2^m >= n /\ \A j \in 0..(m - 1) : 2^j < n
  BY <1>3, <1>4
<1>6. /\ CeilLog2(n) \in 0..n /\ 2^CeilLog2(n) >= n
      /\ \A j \in 0..(CeilLog2(n) - 1) : 2^j < n
  BY <1>5, Zenon DEF CeilLog2
<1> QED BY <1>6, TwoTo
-----------------------------------------------------------------------------
(* Links: D is a vector of nodes and nx the next of each. A set is closed  *)
(* when no link leaves it; j is on the chain of i when it is in every      *)
(* closed set that i is in.                                                *)
Closed(nx, S) == \A s \in S : nx[s] \in S \cup {-1}
Reaches(D, nx, i, j) == \A S \in SUBSET D : i \in S /\ Closed(nx, S) => j \in S
Acyclic(D, nx) == \A S \in SUBSET D : (\A s \in S : nx[s] \in S) => S = {}
OnePrevious(D, nx) == \A i, j \in D : nx[i] # -1 /\ nx[i] = nx[j] => i = j
Unlinked(D, nx, i) == nx[i] = -1 /\ \A j \in D : nx[j] # i
Linked(D, nx) ==
  /\ IsFiniteSet(D) /\ -1 \notin D /\ nx \in [D -> D \cup {-1}]
  /\ Acyclic(D, nx) /\ OnePrevious(D, nx)

(* A new node behind mp.                                                   *)
LEMMA LinkedBehind ==
  ASSUME NEW D, NEW nx, Linked(D, nx), NEW mp \in D, NEW free \in D, mp # free, Unlinked(D, nx, free),
         NEW ny \in [D -> D \cup {-1}], ny[mp] = free, ny[free] = nx[mp],
         \A i \in D : i # mp /\ i # free => ny[i] = nx[i]
  PROVE  /\ Linked(D, ny) /\ Reaches(D, ny, mp, free)
         /\ \A i \in D : i # free /\ Unlinked(D, nx, i) /\ i # mp => Unlinked(D, ny, i)
         /\ \A i, j \in D : i # free /\ j # free /\ Reaches(D, nx, i, j) => Reaches(D, ny, i, j)
         /\ \A j \in D : j # mp /\ j # free /\ Reaches(D, nx, mp, j) => Reaches(D, ny, free, j)
<1> USE DEF Linked, Unlinked
<1>1. -1 \notin D /\ nx \in [D -> D \cup {-1}] /\ \A i \in D : nx[i] # free
  OBVIOUS
<1>2. ASSUME NEW S \in SUBSET D, S # {}, \A s \in S : ny[s] \in S PROVE FALSE
  <2> DEFINE R == S \ {free}
  <2>1. \A s \in R : nx[s] \in R
    <3> SUFFICES ASSUME NEW s \in R PROVE nx[s] \in R
      OBVIOUS
    <3>1. CASE s = mp
      BY <3>1, <1>1, <1>2
    <3>2. CASE s # mp
      BY <3>2, <1>1, <1>2
    <3> QED BY <3>1, <3>2
  <2>2. R = {}
    BY <2>1 DEF Acyclic
  <2>3. S = {free}
    BY <2>2, <1>2
  <2> QED BY <2>3, <1>1, <1>2
<1>3. Acyclic(D, ny)
  BY <1>2 DEF Acyclic
<1>4. OnePrevious(D, ny)
  BY <1>1 DEF OnePrevious
<1>5. Reaches(D, ny, mp, free)
  BY <1>1 DEF Reaches, Closed
<1>6. ASSUME NEW i \in D, NEW j \in D, i # free, j # free, Reaches(D, nx, i, j)
      PROVE  Reaches(D, ny, i, j)
  <2> SUFFICES ASSUME NEW S \in SUBSET D, i \in S, Closed(ny, S) PROVE j \in S
    BY DEF Reaches
  <2> DEFINE R == S \ {free}
  <2>1. Closed(nx, R)
    <3> SUFFICES ASSUME NEW s \in R PROVE nx[s] \in R \cup {-1}
      BY DEF Closed
    <3>1. CASE s = mp
      BY <3>1, <1>1 DEF Closed
    <3>2. CASE s # mp
      BY <3>2, <1>1 DEF Closed
    <3> QED BY <3>1, <3>2
  <2>2. j \in R
    BY <2>1, <1>6 DEF Reaches
  <2> QED BY <2>2
<1>7. ASSUME NEW j \in D, j # mp, j # free, Reaches(D, nx, mp, j)
      PROVE  Reaches(D, ny, free, j)
  <2> SUFFICES ASSUME NEW S \in SUBSET D, free \in S, Closed(ny, S) PROVE j \in S
    BY DEF Reaches
  <2> DEFINE R == (S \cup {mp}) \ {free}
  <2>1. Closed(nx, R)
    <3> SUFFICES ASSUME NEW s \in R PROVE nx[s] \in R \cup {-1}
      BY DEF Closed
    <3>1. CASE s = mp
      BY <3>1, <1>1 DEF Closed
    <3>2. CASE s # mp
      BY <3>2, <1>1 DEF Closed
    <3> QED BY <3>1, <3>2
  <2>2. R \in SUBSET D /\ mp \in R
    OBVIOUS
  <2>3. j \in R
    BY <2>1, <2>2, <1>7 DEF Reaches
  <2> QED BY <2>3, <1>7
<1> QED BY <1>1, <1>3, <1>4, <1>5, <1>6, <1>7

(* The node mp moved to free, and mp left for another chain.               *)
LEMMA LinkedMoved ==
  ASSUME NEW D, NEW nx, Linked(D, nx), NEW mp \in D, NEW free \in D, mp # free, Unlinked(D, nx, free),
         NEW prev \in D, nx[prev] = mp,
         NEW ny \in [D -> D \cup {-1}], ny[prev] = free, ny[free] = nx[mp], ny[mp] = -1,
         \A i \in D : i \notin {mp, free, prev} => ny[i] = nx[i]
  PROVE  /\ Linked(D, ny)
         /\ \A i \in D : i # free /\ Unlinked(D, nx, i) => Unlinked(D, ny, i)
         /\ \A i, j \in D : i \notin {mp, free} /\ j \notin {mp, free} /\ Reaches(D, nx, i, j) => Reaches(D, ny, i, j)
         /\ \A i \in D : i \notin {mp, free} /\ Reaches(D, nx, i, mp) => Reaches(D, ny, i, free)
         /\ \A j \in D : j \notin {mp, free} /\ Reaches(D, nx, mp, j) => Reaches(D, ny, free, j)
<1> USE DEF Linked, Unlinked
<1>1. -1 \notin D /\ nx \in [D -> D \cup {-1}] /\ (\A i \in D : nx[i] # free) /\ prev # free
  OBVIOUS
<1>2. \A i \in D : nx[i] # i
  <2> SUFFICES ASSUME NEW i \in D, nx[i] = i PROVE FALSE
    OBVIOUS
  <2>1. {i} \in SUBSET D /\ \A s \in {i} : nx[s] \in {i}
    OBVIOUS
  <2> QED BY <2>1 DEF Acyclic
<1>3. prev # mp /\ \A i \in D : nx[i] = mp => i = prev
  BY <1>1, <1>2 DEF OnePrevious
<1>4. ASSUME NEW S \in SUBSET D, S # {}, \A s \in S : ny[s] \in S PROVE FALSE
  <2> DEFINE R == {s \in D : s # free /\ (s \in S \/ (s = mp /\ free \in S))}
  <2>1. mp \notin S
    BY <1>1, <1>4
  <2>2. \A s \in R : nx[s] \in R
    <3> SUFFICES ASSUME NEW s \in R PROVE nx[s] \in R
      OBVIOUS
    <3>1. CASE s = mp
      BY <3>1, <1>1, <1>2, <1>4, <2>1
    <3>2. CASE s = prev
      BY <3>2, <1>1, <1>3, <1>4
    <3>3. CASE s # mp /\ s # prev
      BY <3>3, <1>1, <1>3, <1>4
    <3> QED BY <3>1, <3>2, <3>3
  <2>3. R \in SUBSET D
    OBVIOUS
  <2>4. R = {}
    BY <2>2, <2>3 DEF Acyclic
  <2>5. free \notin S /\ \A s \in S : s = free
    BY <2>4, <1>1
  <2> QED BY <2>5, <1>4
<1>5. Acyclic(D, ny)
  BY <1>4 DEF Acyclic
<1>6. OnePrevious(D, ny)
  BY <1>1, <1>3 DEF OnePrevious
<1>7. ASSUME NEW i \in D, i # free, NEW j \in D, j # free, Reaches(D, nx, i, j)
      PROVE  Reaches(D, ny, IF i = mp THEN free ELSE i, IF j = mp THEN free ELSE j)
  <2> SUFFICES ASSUME NEW S \in SUBSET D, (IF i = mp THEN free ELSE i) \in S, Closed(ny, S)
               PROVE  (IF j = mp THEN free ELSE j) \in S
    BY DEF Reaches
  <2> DEFINE R == {s \in D : s # free /\ ((s \in S /\ s # mp) \/ (s = mp /\ free \in S))}
  <2>1. Closed(nx, R)
    <3> SUFFICES ASSUME NEW s \in R PROVE nx[s] \in R \cup {-1}
      BY DEF Closed
    <3>1. CASE s = mp
      BY <3>1, <1>1, <1>2 DEF Closed
    <3>2. CASE s = prev
      BY <3>2, <1>1, <1>3 DEF Closed
    <3>3. CASE s # mp /\ s # prev
      BY <3>3, <1>1, <1>3 DEF Closed
    <3> QED BY <3>1, <3>2, <3>3
  <2>2. R \in SUBSET D /\ i \in R
    BY <1>7
  <2>3. j \in R
    BY <2>1, <2>2, <1>7 DEF Reaches
  <2> QED BY <2>3
<1>8. \A i \in D : i # free /\ Unlinked(D, nx, i) => Unlinked(D, ny, i)
  BY <1>1, <1>3
<1> QED BY <1>1, <1>5, <1>6, <1>7, <1>8
-----------------------------------------------------------------------------
(* The walk along a chain: the equation of Walk has a solution, since a    *)
(* largest set of nodes that no link leaves and that it is solved on is    *)
(* all of them.                                                            *)
IsWalk(D, nx, goal, f) ==
  f = [j \in D \cup {-1} |-> IF j = -1 \/ j \in goal THEN j ELSE f[nx[j]]]

LEMMA WalkExists ==
  ASSUME NEW D, NEW nx, Linked(D, nx), NEW goal
  PROVE  \E f : IsWalk(D, nx, goal, f)
<1> USE DEF Linked
<1> DEFINE Solved(S, f) == f = [j \in S \cup {-1} |-> IF j = -1 \/ j \in goal THEN j ELSE f[nx[j]]]
           T == {R \in SUBSET D : Closed(nx, D \ R) /\ \E f : Solved(D \ R, f)}
<1>1. D \in T
  <2> DEFINE f == [j \in {-1} |-> j]
  <2>1. D \ D = {}
    OBVIOUS
  <2>2. Solved({}, f)
    OBVIOUS
  <2> HIDE DEF f, Solved
  <2> QED BY <2>1, <2>2 DEF Closed
<1>2. T \subseteq FiniteSubsetsOf(D)
  BY FS_FiniteSubsetsOfFinite
<1> HIDE DEF T
<1>3. PICK R \in T : \A S \in T : ~(S \subseteq R /\ S # R)
  BY <1>1, <1>2, Minimal
<1> USE DEF T
<1>4. R \in SUBSET D /\ Closed(nx, D \ R)
  OBVIOUS
<1>5. PICK f : Solved(D \ R, f)
  OBVIOUS
<1>6. ASSUME R # {} PROVE FALSE
  <2>1. PICK i \in R : nx[i] \notin R
    BY <1>4, <1>6 DEF Acyclic
  <2> DEFINE Q == R \ {i}
             g == [j \in (D \ Q) \cup {-1} |-> IF j = -1 \/ j \in goal THEN j ELSE f[nx[j]]]
  <2>2. D \ Q = (D \ R) \cup {i} /\ i \in D /\ nx[i] \in (D \ R) \cup {-1}
    BY <1>4, <2>1
  <2>3. Closed(nx, D \ Q)
    BY <1>4, <2>2 DEF Closed
  <2>4. \A j \in (D \ R) \cup {-1} : f[j] = IF j = -1 \/ j \in goal THEN j ELSE f[nx[j]]
    BY <1>5
  <2>5. \A j \in (D \ R) \cup {-1} : g[j] = f[j]
    BY <2>2, <2>4
  <2>6. \A j \in D \ Q : nx[j] \in (D \ R) \cup {-1}
    BY <1>4, <2>2 DEF Closed
  <2>7. \A j \in D \ Q : g[nx[j]] = f[nx[j]]
    BY <2>5, <2>6
  <2>8. Solved(D \ Q, g)
    BY <2>7
  <2>9. Q \in T /\ Q \subseteq R /\ Q # R
    <3> HIDE DEF g, Solved
    <3> QED BY <2>1, <2>3, <2>8
  <2> HIDE DEF T, Q
  <2> QED BY <2>9, <1>3
<1>7. R = {} /\ D \ R = D
  BY <1>6
<1>8. IsWalk(D, nx, goal, f)
  BY <1>5, <1>7 DEF IsWalk
<1> QED BY <1>8

(* Where a walk ends: at the node of goal that is on the chain, or past    *)
(* the end when a closed set shows that there is none.                     *)
LEMMA WalkEnds ==
  ASSUME NEW D, NEW nx, Linked(D, nx), NEW goal, NEW f, IsWalk(D, nx, goal, f), NEW i \in D
  PROVE  /\ f[i] \in (goal \cap D) \cup {-1}
         /\ \A S \in SUBSET D : i \in S /\ Closed(nx, S) => f[i] \in S \cup {-1}
         /\ f[i] = -1 => \A j \in goal \cap D : ~Reaches(D, nx, i, j)
         /\ i \in goal => f[i] = i
<1>1. /\ -1 \notin D /\ nx \in [D -> D \cup {-1}] /\ f[-1] = -1
      /\ \A j \in D : f[j] = IF j \in goal THEN j ELSE f[nx[j]]
  BY DEF Linked, IsWalk
<1>2. f[i] \in (goal \cap D) \cup {-1}
  <2> DEFINE B == {j \in D : f[j] \notin (goal \cap D) \cup {-1}}
  <2>1. \A j \in B : nx[j] \in B
    BY <1>1
  <2>2. B = {}
    BY <2>1 DEF Linked, Acyclic
  <2> QED BY <2>2
<1>3. ASSUME NEW S \in SUBSET D, i \in S, Closed(nx, S), f[i] \notin S \cup {-1} PROVE FALSE
  <2> DEFINE B == {j \in S : f[j] \notin S \cup {-1}}
  <2>1. \A j \in B : nx[j] \in B
    BY <1>1, <1>3 DEF Closed
  <2>2. B = {}
    BY <2>1 DEF Linked, Acyclic
  <2> QED BY <2>2, <1>3
<1>4. ASSUME f[i] = -1, NEW k \in goal \cap D, Reaches(D, nx, i, k) PROVE FALSE
  <2> DEFINE S == {j \in D : f[j] = -1}
  <2>1. Closed(nx, S)
    BY <1>1 DEF Closed
  <2>2. k \in S
    BY <2>1, <1>4 DEF Reaches
  <2> QED BY <2>2, <1>1
<1>5. i \in goal => f[i] = i
  BY <1>1
<1> QED BY <1>2, <1>3, <1>4, <1>5

(* A walk that meets nothing on a set that no link leaves ends past it.    *)
Links(t) == [i \in DOMAIN t.node |-> t.node[i].next]
LEMMA WalkIs ==
  ASSUME NEW t, Linked(DOMAIN t.node, Links(t)), NEW goal, NEW i \in DOMAIN t.node
  PROVE  LET D == DOMAIN t.node
             w == Walk(t, i, goal)
         IN /\ w \in (goal \cap D) \cup {-1}
            /\ \A S \in SUBSET D : i \in S /\ Closed(Links(t), S) => w \in S \cup {-1}
            /\ w = -1 => \A j \in goal \cap D : ~Reaches(D, Links(t), i, j)
            /\ i \in goal => w = i
<1> DEFINE D == DOMAIN t.node
           nx == Links(t)
           Eq(f) == f = [j \in D \cup {-1} |-> IF j = -1 \/ j \in goal THEN j ELSE f[t.node[j].next]]
           U == CHOOSE f : Eq(f)
<1>1. -1 \notin D
  BY DEF Linked
<1>2. \A j \in D \cup {-1} : j # -1 => nx[j] = t.node[j].next
  BY DEF Links
<1>3. ASSUME NEW f PROVE IsWalk(D, nx, goal, f) <=> Eq(f)
  BY <1>2 DEF IsWalk
<1>4. \E f : IsWalk(D, nx, goal, f)
  BY WalkExists
<1>5. \E f : Eq(f)
  <2> HIDE DEF Eq, D, nx
  <2> QED BY <1>3, <1>4
<1>6. Eq(U)
  BY <1>5, Zenon
<1>7. Walk(t, i, goal) = U[i]
  BY DEF Walk
<1>8. IsWalk(D, nx, goal, U)
  <2> HIDE DEF Eq, D, nx, U
  <2> QED BY <1>3, <1>6
<1> HIDE DEF U, Eq
<1>9. /\ U[i] \in (goal \cap D) \cup {-1}
      /\ \A S \in SUBSET D : i \in S /\ Closed(nx, S) => U[i] \in S \cup {-1}
      /\ U[i] = -1 => \A j \in goal \cap D : ~Reaches(D, nx, i, j)
      /\ i \in goal => U[i] = i
  <2> HIDE DEF nx
  <2>1. Linked(D, nx) /\ i \in D
    BY DEF nx
  <2> HIDE DEF D
  <2> QED BY <2>1, <1>8, WalkEnds
<1> QED BY <1>7, <1>9
-----------------------------------------------------------------------------
(* Tables, and what holds of one between two calls.                        *)
Hashable == Names \cup Ints \cup 0..(MaxInt + 1)
NodeRecords == [key : Keys \cup {Nil}, dead : BOOLEAN, val : Values \cup {Nil}, next : Int]
Tables ==
  [array : Seq(Values \cup {Nil}), node : UNION {[0..(n - 1) -> NodeRecords] : n \in Nat},
   dummy : BOOLEAN, lsizenode : Nat, lastfree : Nat, full : BOOLEAN]

(* The main position of a node's key has a key that belongs there, whose   *)
(* chain the node is on.                                                   *)
OnChain(t, i) ==
  LET m == MainPosition(t, t.node[i].key)
  IN /\ t.node[m].key # Nil /\ MainPosition(t, t.node[m].key) = m
     /\ Reaches(DOMAIN t.node, Links(t), m, i)

Typed(t) ==
  t \in Tables /\ DOMAIN t.node = 0..(SizeNode(t) - 1) /\ t.lastfree <= SizeNode(t)
Unique(t) ==
  \A i, j \in DOMAIN t.node :
    t.node[i].key = t.node[j].key /\ t.node[i].key # Nil /\ ~t.node[i].dead /\ ~t.node[j].dead => i = j
Chained(t) ==
  /\ Linked(DOMAIN t.node, Links(t))
  /\ \A i \in DOMAIN t.node :
       /\ t.node[i].key = Nil => Unlinked(DOMAIN t.node, Links(t), i)
       /\ t.node[i].key # Nil => OnChain(t, i) /\ ~InArray(t, t.node[i].key)
       /\ t.node[i].key = Nil => t.node[i].val = Nil /\ ~t.node[i].dead
       /\ t.node[i].dead => t.node[i].val = Nil
  /\ Unique(t)
Filled(t) ==
  /\ t.dummy => t.lastfree = 0 /\ \A i \in DOMAIN t.node : t.node[i].key = Nil
  /\ ~t.dummy => \A i \in DOMAIN t.node : i >= t.lastfree => t.node[i].key # Nil
  /\ \A i \in DOMAIN t.array : t.array[i] # Nil => i \in Ints
(* A key that died and came back: its node is on the chain before the dead *)
(* ones.                                                                   *)
Ahead(t) ==
  \A i, j \in DOMAIN t.node :
    t.node[i].key = t.node[j].key /\ ~t.node[i].dead /\ t.node[j].dead => Reaches(DOMAIN t.node, Links(t), i, j)
Good(t) == hash \in Hashes /\ Typed(t) /\ Chained(t) /\ Filled(t) /\ Ahead(t)

LEMMA Modulo ==
  ASSUME NEW a \in Nat, NEW b \in Nat, b >= 1
  PROVE  a % b \in 0..(b - 1)
OBVIOUS

LEMMA KeysAre ==
  /\ Nil \notin Hashable /\ Keys \subseteq Hashable /\ Nil \notin Keys /\ Nil \notin Values /\ Nil \notin Int
  /\ \A k \in Names : k \notin Int
  /\ Ints \subseteq Int /\ \A k \in Keys : k \in Int => k \in Ints
<1>1. /\ Nil \notin Names /\ Nil \notin Values /\ Nil \notin Int /\ Ints \subseteq Int /\ MaxInt \in Nat
      /\ \A k \in Names : k \notin Int
  <2>1. Nil \notin Names /\ Nil \notin Values
    BY KeysAssumption
  <2>2. Nil \notin Int /\ \A k \in Names : k \notin Int
    BY KeysAssumption
  <2>3. Ints \subseteq Int /\ MaxInt \in Nat
    BY KeysAssumption
  <2> QED BY <2>1, <2>2, <2>3
<1> DEFINE Numbers == 0..(MaxInt + 1)
<1>2. Numbers \subseteq Int
  BY <1>1
<1> HIDE DEF Numbers
<1>3. Hashable = Names \cup Ints \cup Numbers
  BY DEF Hashable, Numbers
<1> QED BY <1>1, <1>2, <1>3 DEF Keys

LEMMA SizeIs ==
  ASSUME NEW t, t.lsizenode \in Nat
  PROVE  SizeNode(t) \in Nat /\ SizeNode(t) >= 1
BY TwoTo DEF SizeNode

LEMMA MainIs ==
  ASSUME NEW t, Typed(t), hash \in Hashes, NEW k \in Hashable
  PROVE  MainPosition(t, k) \in DOMAIN t.node
<1>1. t.lsizenode \in Nat
  BY DEF Typed, Tables
<1>2. SizeNode(t) \in Nat /\ SizeNode(t) >= 1 /\ DOMAIN t.node = 0..(SizeNode(t) - 1)
  BY <1>1, SizeIs DEF Typed
<1>3. CASE k \in Names
  <2>1. hash[k] \in Nat
    BY <1>3, KeysAssumption
  <2> QED BY <1>2, <1>3, <2>1, Modulo DEF MainPosition
<1>4. CASE k \notin Names
  <2>1. HashNum[k] \in Nat
    BY <1>4, KeysAssumption DEF Hashable
  <2> DEFINE b == IF SizeNode(t) = 1 THEN 1 ELSE SizeNode(t) - 1
  <2>2. b \in Nat /\ b >= 1 /\ b <= SizeNode(t)
    BY <1>2
  <2>3. MainPosition(t, k) = HashNum[k] % b
    BY <1>4 DEF MainPosition
  <2> HIDE DEF b
  <2>4. HashNum[k] % b \in 0..(b - 1)
    BY <2>1, <2>2, Modulo
  <2> QED BY <1>2, <2>2, <2>3, <2>4
<1> QED BY <1>3, <1>4

LEMMA SameMain ==
  ASSUME NEW t, NEW u, u.lsizenode = t.lsizenode, NEW k
  PROVE  MainPosition(u, k) = MainPosition(t, k)
BY DEF MainPosition, SizeNode

LEMMA NodesAre ==
  ASSUME NEW t, t \in Tables
  PROVE  /\ \A i \in DOMAIN t.node : t.node[i] \in NodeRecords
         /\ t.array \in Seq(Values \cup {Nil}) /\ DOMAIN t.array = 1..Len(t.array) /\ Len(t.array) \in Nat
         /\ t.dummy \in BOOLEAN /\ t.lsizenode \in Nat /\ t.lastfree \in Nat /\ t.full \in BOOLEAN
BY DEF Tables

(* Where a lookup ends.                                                    *)
LEMMA NodeOfIs ==
  ASSUME NEW t, Good(t), NEW k \in Hashable
  PROVE  \/ NodeOf(t, k) = -1 /\ \A i \in DOMAIN t.node : t.node[i].key = k => t.node[i].dead
         \/ /\ NodeOf(t, k) \in DOMAIN t.node /\ t.node[NodeOf(t, k)].key = k
            /\ ~t.node[NodeOf(t, k)].dead
<1> DEFINE D == DOMAIN t.node
           m == MainPosition(t, k)
           goal == With(t, k) \ Dead(t)
           w == Walk(t, m, goal)
<1>1. Linked(D, Links(t)) /\ m \in D /\ k # Nil
  BY MainIs, KeysAre DEF Good, Chained
<1>2. w \in (goal \cap D) \cup {-1} /\ (w = -1 => \A j \in goal \cap D : ~Reaches(D, Links(t), m, j))
  <2> HIDE DEF m, goal
  <2> QED BY <1>1, WalkIs
<1>3. NodeOf(t, k) = w
  BY DEF NodeOf
<1>4. ASSUME w = -1, NEW i \in D, t.node[i].key = k PROVE t.node[i].dead
  <2>1. Reaches(D, Links(t), m, i)
    BY <1>1, <1>4 DEF Good, Chained, OnChain
  <2>2. i \notin goal
    BY <1>2, <1>4, <2>1
  <2> QED BY <1>4, <2>2 DEF With, Dead
<1>5. w # -1 => w \in D /\ t.node[w].key = k /\ ~t.node[w].dead
  BY <1>2 DEF With, Dead
<1> HIDE DEF w
<1> QED BY <1>3, <1>4, <1>5

(* Values and the deaths of keys do not disturb the chains.                *)
LEMMA Revalued ==
  ASSUME NEW t, Good(t), NEW u \in Tables, DOMAIN u.node = DOMAIN t.node, u.lsizenode = t.lsizenode,
         u.lastfree = t.lastfree, u.dummy = t.dummy, Len(u.array) = Len(t.array),
         \A i \in DOMAIN t.node :
           /\ u.node[i].key = t.node[i].key /\ u.node[i].next = t.node[i].next
           /\ t.node[i].dead => u.node[i].dead
           /\ u.node[i].key = Nil => u.node[i].val = Nil /\ ~u.node[i].dead
           /\ u.node[i].dead => u.node[i].val = Nil,
         \A i \in DOMAIN u.array : u.array[i] # Nil => i \in Ints
  PROVE  Good(u)
<1>1. Links(u) = Links(t)
  BY DEF Links
<1>2. \A k : MainPosition(u, k) = MainPosition(t, k)
  BY SameMain
<1>3. Typed(u)
  BY DEF Good, Typed, SizeNode
<1>4. \A i \in DOMAIN u.node : InArray(u, u.node[i].key) <=> InArray(t, t.node[i].key)
  BY DEF InArray
<1>5. \A i \in DOMAIN u.node : t.node[i].key # Nil => MainPosition(t, t.node[i].key) \in DOMAIN t.node
  BY MainIs, NodesAre, KeysAre DEF Good, Typed, NodeRecords
<1>6. \A i \in DOMAIN u.node : t.node[i].key # Nil /\ OnChain(t, i) => OnChain(u, i)
  BY <1>1, <1>2, <1>5 DEF OnChain
<1>7. Chained(u)
  <2>1. Unique(u)
    BY DEF Good, Chained, Unique
  <2> QED BY <1>1, <1>4, <1>6, <2>1 DEF Good, Chained
<1>8. Filled(u)
  BY DEF Good, Filled
<1>9. ASSUME NEW i \in DOMAIN u.node, NEW j \in DOMAIN u.node, u.node[i].key = u.node[j].key,
             ~u.node[i].dead, u.node[j].dead
      PROVE  Reaches(DOMAIN u.node, Links(u), i, j)
  <2>1. ~t.node[i].dead /\ t.node[i].key = t.node[j].key /\ t.node[i].key # Nil /\ i # j
    BY <1>9
  <2>2. t.node[j].dead
    BY <2>1 DEF Good, Chained, Unique
  <2> QED BY <1>1, <2>1, <2>2 DEF Good, Ahead
<1>10. Ahead(u)
  BY <1>9 DEF Ahead
<1> QED BY <1>3, <1>7, <1>8, <1>10 DEF Good

(* A value stored where its key has a place.                               *)
LEMMA StoreIs ==
  ASSUME NEW t, Good(t), NEW k \in Keys, Has(t, k), NEW v \in Values \cup {Nil}
  PROVE  LET u == Store(t, k, v)
         IN /\ Good(u) /\ DOMAIN u.node = DOMAIN t.node /\ Len(u.array) = Len(t.array) /\ u.full = t.full
            /\ u.lsizenode = t.lsizenode /\ u.lastfree = t.lastfree /\ u.dummy = t.dummy
            /\ \A i \in DOMAIN t.node :
                 /\ u.node[i].key = t.node[i].key /\ u.node[i].next = t.node[i].next
                 /\ u.node[i].dead = t.node[i].dead
                 /\ u.node[i].val = IF ~InArray(t, k) /\ i = NodeOf(t, k) THEN v ELSE t.node[i].val
            /\ \A i \in DOMAIN t.array : u.array[i] = IF i = k THEN v ELSE t.array[i]
<1> DEFINE u == Store(t, k, v)
           n == NodeOf(t, k)
<1>1. t \in Tables /\ Len(t.array) \in Nat /\ DOMAIN t.array = 1..Len(t.array)
  BY NodesAre DEF Good, Typed
<1>2. CASE InArray(t, k)
  <2>1. u = [t EXCEPT !.array[k] = v] /\ k \in DOMAIN t.array /\ k \in Ints
    BY <1>1, <1>2, KeysAre DEF Store, InArray
  <2> HIDE DEF u
  <2>2. /\ u.array = [t.array EXCEPT ![k] = v] /\ u.node = t.node /\ u.full = t.full
        /\ u.lsizenode = t.lsizenode /\ u.lastfree = t.lastfree /\ u.dummy = t.dummy
    BY <1>1, <2>1 DEF Tables
  <2>3. u.array \in Seq(Values \cup {Nil}) /\ Len(u.array) = Len(t.array)
    BY <1>1, <2>1, <2>2, NodesAre
  <2>4. u \in Tables
    BY <1>1, <2>1, <2>3 DEF Tables
  <2>5. \A i \in DOMAIN t.array : u.array[i] = IF i = k THEN v ELSE t.array[i]
    BY <2>2
  <2>6. \A i \in DOMAIN u.array : u.array[i] # Nil => i \in Ints
    BY <2>1, <2>2 DEF Good, Filled
  <2>7. Good(u)
    BY <2>2, <2>3, <2>4, <2>6, Revalued DEF Good, Chained
  <2> QED BY <1>2, <2>2, <2>3, <2>5, <2>7 DEF u
<1>3. CASE ~InArray(t, k)
  <2>1. k \in Hashable /\ k # Nil
    BY KeysAre
  <2>2. n \in DOMAIN t.node /\ t.node[n].key = k /\ ~t.node[n].dead
    BY <1>3, <2>1, NodeOfIs, n # -1 DEF Has
  <2>3. u = [t EXCEPT !.node[n].val = v]
    BY <1>3 DEF Store
  <2> HIDE DEF u, n
  <2>4. /\ u.node = [t.node EXCEPT ![n].val = v] /\ u.array = t.array /\ u.full = t.full
        /\ u.lsizenode = t.lsizenode /\ u.lastfree = t.lastfree /\ u.dummy = t.dummy
    BY <1>1, <2>3 DEF Tables
  <2>5. \A i \in DOMAIN t.node : t.node[i] \in NodeRecords
    BY <1>1, NodesAre
  <2>6. \A i \in DOMAIN t.node :
          /\ u.node[i].key = t.node[i].key /\ u.node[i].next = t.node[i].next
          /\ u.node[i].dead = t.node[i].dead
          /\ u.node[i].val = IF i = n THEN v ELSE t.node[i].val
    BY <2>2, <2>4, <2>5 DEF NodeRecords
  <2>7. \A i \in DOMAIN t.node : u.node[i] \in NodeRecords
    BY <2>2, <2>4, <2>5 DEF NodeRecords
  <2>8. u \in Tables
    <3>1. DOMAIN t.node = 0..(SizeNode(t) - 1) /\ SizeNode(t) \in Nat
      BY <1>1, SizeIs, NodesAre DEF Good, Typed
    <3>2. u.node \in [0..(SizeNode(t) - 1) -> NodeRecords]
      BY <2>4, <2>7, <3>1
    <3>3. u = [t EXCEPT !.node = u.node]
      BY <1>1, <2>3, <2>4 DEF Tables
    <3> QED BY <1>1, <3>1, <3>2, <3>3 DEF Tables
  <2>9. Good(u)
    <3>1. \A i \in DOMAIN t.node :
            /\ t.node[i].key = Nil => t.node[i].val = Nil /\ ~t.node[i].dead
            /\ t.node[i].dead => t.node[i].val = Nil
      BY DEF Good, Chained
    <3>2. \A i \in DOMAIN t.node :
            /\ u.node[i].key = Nil => u.node[i].val = Nil /\ ~u.node[i].dead
            /\ u.node[i].dead => u.node[i].val = Nil
      BY <2>1, <2>2, <2>6, <3>1
    <3>3. \A i \in DOMAIN u.array : u.array[i] # Nil => i \in Ints
      BY <2>4 DEF Good, Filled
    <3>4. DOMAIN u.node = DOMAIN t.node /\ Len(u.array) = Len(t.array)
      BY <2>4
    <3>5. u.lsizenode = t.lsizenode /\ u.lastfree = t.lastfree /\ u.dummy = t.dummy
      BY <2>4
    <3>6. \A i \in DOMAIN t.node :
            /\ u.node[i].key = t.node[i].key /\ u.node[i].next = t.node[i].next
            /\ t.node[i].dead => u.node[i].dead
            /\ u.node[i].key = Nil => u.node[i].val = Nil /\ ~u.node[i].dead
            /\ u.node[i].dead => u.node[i].val = Nil
      BY <2>6, <3>2
    <3> QED BY <2>8, <3>3, <3>4, <3>5, <3>6, Revalued
  <2>10. \A i \in DOMAIN t.array : i # k
    BY <1>1, <1>3 DEF InArray
  <2> QED BY <1>3, <2>4, <2>6, <2>9, <2>10 DEF u, n
<1> QED BY <1>2, <1>3
-----------------------------------------------------------------------------
(* A new key.                                                              *)
Used(t) == {i \in DOMAIN t.node : t.node[i].key # Nil}
Pairs(t) == {<<t.node[i].key, t.node[i].val>> : i \in Live(t)}

LEMMA MaxBelow ==
  ASSUME NEW n \in Nat, NEW s \in SUBSET (0..(n - 1)), s # {}
  PROVE  Max(s) \in s /\ \A j \in s : j <= Max(s)
<1> DEFINE T == {n - i : i \in s}
<1>1. \A i \in s : i \in 0..(n - 1) /\ n - i \in Nat /\ i \in Int
  OBVIOUS
<1>2. T \subseteq Nat /\ T # {}
  BY <1>1
<1> HIDE DEF T
<1>3. PICK x \in T : \A y \in T : x <= y
  BY <1>2, Least
<1> USE DEF T
<1>4. PICK i \in s : x = n - i
  OBVIOUS
<1>5. \A j \in s : n - j \in T /\ n - i <= n - j
  BY <1>3, <1>4
<1> HIDE DEF T
<1>6. \A j \in s : i >= j
  BY <1>1, <1>5
<1>7. Max(s) \in s /\ \A j \in s : Max(s) >= j
  BY <1>4, <1>6 DEF Max
<1> QED BY <1>1, <1>7

LEMMA FreePosIs ==
  ASSUME NEW t, Good(t)
  PROVE  LET f == GetFreePos(t)
         IN \/ f = -1 /\ (t.dummy \/ Used(t) = DOMAIN t.node)
            \/ /\ f \in DOMAIN t.node /\ t.node[f].key = Nil /\ ~t.dummy
               /\ f \in Nat /\ f < t.lastfree /\ \A i \in DOMAIN t.node : i > f => t.node[i].key # Nil
<1> DEFINE free == {i \in 0..(t.lastfree - 1) : t.node[i].key = Nil}
           f == GetFreePos(t)
<1>1. /\ DOMAIN t.node = 0..(SizeNode(t) - 1) /\ SizeNode(t) \in Nat
      /\ t.lastfree \in Nat /\ t.lastfree <= SizeNode(t)
  BY SizeIs, NodesAre DEF Good, Typed
<1>2. CASE free = {}
  <2>1. f = -1
    BY <1>2 DEF GetFreePos
  <2>2. ~t.dummy => \A i \in DOMAIN t.node : t.node[i].key # Nil
    BY <1>1, <1>2 DEF Good, Filled
  <2> QED BY <2>1, <2>2 DEF Used
<1>3. CASE free # {}
  <2>1. f = Max(free)
    BY <1>3 DEF GetFreePos
  <2>2. free \in SUBSET (0..(t.lastfree - 1))
    OBVIOUS
  <2>3. f \in free /\ \A j \in free : j <= f
    BY <1>1, <1>3, <2>1, <2>2, MaxBelow
  <2>4. ~t.dummy
    BY <1>1, <2>3 DEF Good, Filled
  <2>5. ASSUME NEW i \in DOMAIN t.node, i > f PROVE t.node[i].key # Nil
    BY <1>1, <2>3, <2>4, <2>5 DEF Good, Filled
  <2> QED BY <1>1, <2>3, <2>4, <2>5
<1> QED BY <1>2, <1>3

(* A node that is reached from another has one before it on the way.       *)
LEMMA PreviousIs ==
  ASSUME NEW D, NEW nx, Linked(D, nx), NEW i \in D, NEW j \in D, i # j, Reaches(D, nx, i, j)
  PROVE  \E p \in D : nx[p] = j /\ Reaches(D, nx, i, p)
<1> SUFFICES ASSUME \A p \in D : nx[p] = j => ~Reaches(D, nx, i, p) PROVE FALSE
  OBVIOUS
<1> DEFINE S == {s \in D : s # j /\ Reaches(D, nx, i, s)}
<1>1. nx \in [D -> D \cup {-1}]
  BY DEF Linked
<1>2. ASSUME NEW s \in S PROVE nx[s] \in S \cup {-1}
  <2>1. nx[s] # j
    OBVIOUS
  <2>2. nx[s] # -1 => Reaches(D, nx, i, nx[s])
    BY DEF Reaches, Closed
  <2> QED BY <1>1, <2>1, <2>2
<1>3. i \in S
  BY DEF Reaches
<1> HIDE DEF S
<1>4. Closed(nx, S)
  BY <1>2 DEF Closed
<1>5. S \subseteq D /\ j \notin S
  BY DEF S
<1> QED BY <1>3, <1>4, <1>5 DEF Reaches

(* What every way of putting a key shares: k has a place that no other key *)
(* had, and the fields are the same.                                       *)
Put(t, u, k) ==
  /\ Good(u) /\ u.array = t.array /\ DOMAIN u.node = DOMAIN t.node /\ u.lsizenode = t.lsizenode
  /\ u.dummy = t.dummy /\ u.full = t.full /\ Pairs(u) = Pairs(t)
  /\ \E x \in DOMAIN t.node : Used(u) = Used(t) \cup {x}
  /\ \E x \in DOMAIN t.node : u.node[x].key = k /\ ~u.node[x].dead /\ u.node[x].val = Nil

LEMMA PutInPlace ==
  ASSUME NEW t, Good(t), NEW k \in Keys, ~Has(t, k), ~Collides(t, k)
  PROVE  Put(t, PutKey(t, k), k)
<1> DEFINE mp == MainPosition(t, k)
           u == PutKey(t, k)
           D == DOMAIN t.node
<1>1. k \in Hashable /\ k # Nil /\ mp \in D /\ t \in Tables
  BY KeysAre, MainIs DEF Good, Typed
<1>2. ~t.dummy /\ t.node[mp].val = Nil
  BY NodesAre DEF Collides
<1>3. ~InArray(t, k) /\ \A i \in D : t.node[i].key = k => t.node[i].dead
  BY <1>1, NodeOfIs, ~(-1 \in D) DEF Has, Good, Chained, Linked
<1>4. u = [t EXCEPT !.node[mp].key = k, !.node[mp].dead = FALSE]
  BY DEF PutKey
<1> HIDE DEF u, mp
<1>5. \A i \in D : t.node[i] \in NodeRecords
  BY <1>1, NodesAre
<1>6. /\ u.node = [t.node EXCEPT ![mp] = [t.node[mp] EXCEPT !.key = k, !.dead = FALSE]]
      /\ u = [t EXCEPT !.node = u.node]
  BY <1>1, <1>4 DEF Tables
<1>7. /\ u.array = t.array /\ u.dummy = t.dummy /\ u.lsizenode = t.lsizenode /\ u.lastfree = t.lastfree
      /\ u.full = t.full /\ DOMAIN u.node = D
  BY <1>1, <1>6 DEF Tables
<1>8. /\ u.node[mp].key = k /\ ~u.node[mp].dead /\ u.node[mp].val = Nil /\ u.node[mp].next = t.node[mp].next
      /\ \A i \in D : i # mp => u.node[i] = t.node[i]
      /\ u.node[mp] \in NodeRecords
  BY <1>1, <1>2, <1>5, <1>6 DEF NodeRecords
<1>9. u \in Tables
  <2>1. D = 0..(SizeNode(t) - 1) /\ SizeNode(t) \in Nat
    BY <1>1, SizeIs, NodesAre DEF Good, Typed
  <2>2. u.node \in [0..(SizeNode(t) - 1) -> NodeRecords]
    BY <1>5, <1>6, <1>8, <2>1
  <2> QED BY <1>1, <1>6, <2>1, <2>2 DEF Tables
<1>10. Typed(u)
  BY <1>7, <1>9 DEF Typed, SizeNode, Good
<1>11. Links(u) = Links(t)
  BY <1>7, <1>8 DEF Links
<1>12. \A j : MainPosition(u, j) = MainPosition(t, j)
  BY <1>7, SameMain
<1>13. \A i \in D : u.node[i].key # Nil => OnChain(u, i)
  <2> SUFFICES ASSUME NEW i \in D, u.node[i].key # Nil PROVE OnChain(u, i)
    OBVIOUS
  <2>1. CASE i = mp
    BY <2>1, <1>1, <1>7, <1>8, <1>12 DEF OnChain, Reaches, mp
  <2>2. CASE i # mp
    <3>1. u.node[i] = t.node[i] /\ OnChain(t, i)
      BY <2>2, <1>8 DEF Good, Chained
    <3>2. MainPosition(t, t.node[i].key) \in D
      BY <1>5, <2>2, <3>1, MainIs, KeysAre DEF Good, Typed, NodeRecords
    <3> QED BY <3>1, <3>2, <1>1, <1>7, <1>8, <1>11, <1>12 DEF OnChain, mp
  <2> QED BY <2>1, <2>2
<1>14. Chained(u)
  <2>1. Linked(D, Links(u))
    BY <1>11 DEF Good, Chained
  <2>2. \A i \in D : u.node[i].key = Nil => Unlinked(D, Links(u), i)
    BY <1>1, <1>8, <1>11 DEF Good, Chained
  <2>3. \A i \in D : u.node[i].key # Nil => ~InArray(u, u.node[i].key)
    BY <1>3, <1>7, <1>8 DEF Good, Chained, InArray
  <2>4. \A i \in D : /\ u.node[i].key = Nil => u.node[i].val = Nil /\ ~u.node[i].dead
                     /\ u.node[i].dead => u.node[i].val = Nil
    BY <1>1, <1>8 DEF Good, Chained
  <2>5. ASSUME NEW i \in D, NEW j \in D, u.node[i].key = u.node[j].key, u.node[i].key # Nil,
               ~u.node[i].dead, ~u.node[j].dead
        PROVE  i = j
    BY <1>3, <1>8, <2>5 DEF Good, Chained, Unique
  <2> QED BY <1>7, <1>13, <2>1, <2>2, <2>3, <2>4, <2>5 DEF Chained, Unique
<1>15. Filled(u)
  BY <1>1, <1>2, <1>7, <1>8 DEF Good, Filled
<1>21. Ahead(u)
  <2> SUFFICES ASSUME NEW i \in D, NEW j \in D, u.node[i].key = u.node[j].key, ~u.node[i].dead, u.node[j].dead
               PROVE  Reaches(D, Links(u), i, j)
    BY <1>7 DEF Ahead
  <2>1. u.node[j] = t.node[j] /\ j # mp /\ t.node[j].key # Nil
    BY <1>8 DEF Good, Chained
  <2>2. CASE i = mp
    <3>1. t.node[j].key = k /\ OnChain(t, j)
      BY <1>1, <1>8, <2>1, <2>2 DEF Good, Chained
    <3> QED BY <1>11, <2>2, <3>1 DEF OnChain, mp
  <2>3. CASE i # mp
    BY <1>8, <1>11, <2>1, <2>3 DEF Good, Ahead
  <2> QED BY <2>2, <2>3
<1>16. Good(u)
  BY <1>10, <1>14, <1>15, <1>21 DEF Good
<1>17. Live(u) = Live(t) /\ \A i \in Live(t) : u.node[i] = t.node[i]
  BY <1>2, <1>7, <1>8 DEF Live
<1>18. Pairs(u) = Pairs(t)
  BY <1>17 DEF Pairs
<1>19. Used(u) = Used(t) \cup {mp}
  BY <1>1, <1>7, <1>8 DEF Used
<1> HIDE DEF D
<1>20. Put(t, u, k)
  BY <1>1, <1>7, <1>8, <1>16, <1>18, <1>19 DEF Put, D
<1> QED BY <1>20 DEF u

LEMMA PutMoved ==
  ASSUME NEW t, Good(t), NEW k \in Keys, ~Has(t, k), Collides(t, k), GetFreePos(t) # -1,
         MainPosition(t, t.node[MainPosition(t, k)].key) # MainPosition(t, k)
  PROVE  Put(t, Move(t, MainPosition(t, k), GetFreePos(t), k), k)
<1> DEFINE mp == MainPosition(t, k)
           free == GetFreePos(t)
           othern == MainPosition(t, t.node[mp].key)
           previous == Previous(t, othern, mp)
           u == Move(t, mp, free, k)
           D == DOMAIN t.node
           nx == Links(t)
<1>1. k \in Hashable /\ k # Nil /\ mp \in D /\ t \in Tables
  BY KeysAre, MainIs DEF Good, Typed
<1>2. /\ free \in D /\ t.node[free].key = Nil /\ ~t.dummy /\ free \in Nat /\ free < t.lastfree
      /\ \A i \in D : i > free => t.node[i].key # Nil
  BY FreePosIs
<1>3. t.node[mp].val # Nil /\ t.node[mp].key # Nil /\ ~t.node[mp].dead
  BY <1>1, <1>2, NodesAre DEF Collides, Good, Chained
<1>4. ~InArray(t, k) /\ \A i \in D : t.node[i].key = k => t.node[i].dead
  BY <1>1, NodeOfIs, ~(-1 \in D) DEF Has, Good, Chained, Linked
<1>5. \A i \in D : t.node[i] \in NodeRecords
  BY <1>1, NodesAre
<1>6. othern \in D
  BY <1>1, <1>3, <1>5, MainIs, KeysAre DEF Good, Typed, NodeRecords
<1>7. u = [t EXCEPT !.node[previous].next = free, !.node[free] = t.node[mp],
                    !.node[mp] = [Free EXCEPT !.key = k], !.lastfree = free]
  BY DEF Move
<1>8. Linked(D, nx) /\ -1 \notin D /\ \A i \in D : nx[i] = t.node[i].next
  BY DEF Good, Chained, Linked, Links
<1>9. previous \in D /\ t.node[previous].next = mp
  <2> DEFINE goal == {j \in D : t.node[j].next = mp}
             w == Walk(t, othern, goal)
  <2>1. OnChain(t, mp) /\ othern # mp
    BY <1>1, <1>3 DEF Good, Chained
  <2>2. Reaches(D, nx, othern, mp)
    BY <2>1 DEF OnChain
  <2>3. PICK p \in D : nx[p] = mp /\ Reaches(D, nx, othern, p)
    <3> HIDE DEF mp, othern, D, nx
    <3> QED BY <1>1, <1>6, <1>8, <2>1, <2>2, PreviousIs
  <2>4. p \in goal
    BY <1>8, <2>3
  <2>5. w \in (goal \cap D) \cup {-1} /\ (w = -1 => \A j \in goal \cap D : ~Reaches(D, nx, othern, j))
    <3> HIDE DEF othern, goal
    <3> QED BY <1>6, <1>8, WalkIs
  <2>6. previous = w
    BY DEF Previous
  <2> HIDE DEF w
  <2>7. w \in goal
    BY <2>3, <2>4, <2>5
  <2> QED BY <2>6, <2>7
<1> HIDE DEF u, mp, free, othern, previous, nx
<1>10. mp # free /\ previous # free /\ previous # mp
  <2>1. Unlinked(D, nx, free)
    BY <1>2 DEF Good, Chained, nx
  <2>2. nx[free] = -1 /\ nx[previous] = mp
    BY <2>1, <1>8, <1>9 DEF Unlinked
  <2>3. ASSUME previous = mp PROVE FALSE
    <3>1. {mp} \in SUBSET D /\ \A s \in {mp} : nx[s] \in {mp}
      BY <1>1, <2>2, <2>3
    <3> QED BY <3>1, <1>8 DEF Linked, Acyclic
  <2> QED BY <1>1, <1>2, <1>3, <1>8, <2>2, <2>3
<1>11. /\ u.node = [t.node EXCEPT ![previous].next = free, ![free] = t.node[mp], ![mp] = [Free EXCEPT !.key = k]]
       /\ u = [t EXCEPT !.node = u.node, !.lastfree = free]
  BY <1>1, <1>7 DEF Tables
<1>12. /\ u.array = t.array /\ u.dummy = t.dummy /\ u.lsizenode = t.lsizenode /\ u.lastfree = free
       /\ u.full = t.full /\ DOMAIN u.node = D
  BY <1>1, <1>11 DEF Tables
<1>13. /\ u.node[mp] = [key |-> k, dead |-> FALSE, val |-> Nil, next |-> -1]
       /\ u.node[free] = t.node[mp]
       /\ u.node[previous] = [t.node[previous] EXCEPT !.next = free]
       /\ \A i \in D : i \notin {mp, free, previous} => u.node[i] = t.node[i]
  BY <1>1, <1>2, <1>9, <1>10, <1>11 DEF Free
<1>14. /\ u.node[previous].key = t.node[previous].key /\ u.node[previous].dead = t.node[previous].dead
       /\ u.node[previous].val = t.node[previous].val /\ u.node[previous].next = free
       /\ u.node[previous] \in NodeRecords
  BY <1>2, <1>5, <1>9, <1>13 DEF NodeRecords
<1>15. \A i \in D : i \notin {mp, free} => /\ u.node[i].key = t.node[i].key /\ u.node[i].val = t.node[i].val
                                           /\ u.node[i].dead = t.node[i].dead
  BY <1>13, <1>14
<1>16. u.node[mp].key = k /\ ~u.node[mp].dead /\ u.node[mp].val = Nil /\ u.node[mp].next = -1
  BY <1>13
<1>17. u \in Tables
  <2>1. D = 0..(SizeNode(t) - 1) /\ SizeNode(t) \in Nat
    BY <1>1, SizeIs, NodesAre DEF Good, Typed
  <2>2. u.node[mp] \in NodeRecords
    BY <1>13 DEF NodeRecords
  <2>3. \A i \in D : u.node[i] \in NodeRecords
    BY <2>2, <1>1, <1>5, <1>13, <1>14
  <2>4. u.node \in [0..(SizeNode(t) - 1) -> NodeRecords]
    BY <1>11, <2>1, <2>3
  <2> QED BY <1>1, <1>2, <1>11, <2>1, <2>4 DEF Tables
<1>18. Typed(u)
  BY <1>2, <1>12, <1>17, NodesAre, SizeIs DEF Typed, SizeNode, Good
<1>19. \A j : MainPosition(u, j) = MainPosition(t, j)
  BY <1>12, SameMain
<1> DEFINE ny == Links(u)
<1>20. \A i \in D : ny[i] = u.node[i].next
  BY <1>12 DEF Links
<1>21. Unlinked(D, nx, free)
  BY <1>2 DEF Good, Chained, nx
<1>22. /\ ny[previous] = free /\ ny[free] = nx[mp] /\ ny[mp] = -1
       /\ \A i \in D : i \notin {mp, free, previous} => ny[i] = nx[i]
       /\ ny \in [D -> D \cup {-1}]
  <2>1. /\ ny[previous] = free /\ ny[free] = nx[mp] /\ ny[mp] = -1
        /\ \A i \in D : i \notin {mp, free, previous} => ny[i] = nx[i]
    <3>1. /\ ny[previous] = u.node[previous].next /\ ny[free] = u.node[free].next /\ ny[mp] = u.node[mp].next
          /\ nx[mp] = t.node[mp].next
      BY <1>1, <1>2, <1>8, <1>9, <1>20
    <3>2. \A i \in D : i \notin {mp, free, previous} => ny[i] = nx[i]
      BY <1>8, <1>13, <1>20
    <3> HIDE DEF D, ny
    <3> QED BY <1>13, <1>14, <1>16, <3>1, <3>2
  <2>2. nx \in [D -> D \cup {-1}]
    BY <1>8 DEF Linked
  <2>3. \A i \in D : ny[i] \in D \cup {-1}
    BY <2>1, <2>2, <1>1, <1>2
  <2>4. ny = [i \in D |-> ny[i]]
    BY <1>12 DEF Links
  <2> HIDE DEF ny
  <2> QED BY <2>1, <2>3, <2>4
<1> HIDE DEF ny, D
<1>23. nx[previous] = mp
  BY <1>8, <1>9
<1>24. /\ Linked(D, ny)
       /\ \A i \in D : i # free /\ Unlinked(D, nx, i) => Unlinked(D, ny, i)
       /\ \A i, j \in D : i \notin {mp, free} /\ j \notin {mp, free} /\ Reaches(D, nx, i, j) => Reaches(D, ny, i, j)
       /\ \A i \in D : i \notin {mp, free} /\ Reaches(D, nx, i, mp) => Reaches(D, ny, i, free)
       /\ \A j \in D : j \notin {mp, free} /\ Reaches(D, nx, mp, j) => Reaches(D, ny, free, j)
  <2>1. mp \in D /\ free \in D /\ previous \in D /\ Linked(D, nx) /\ mp # free
    BY <1>1, <1>2, <1>8, <1>9, <1>10
  <2> QED BY <2>1, <1>21, <1>22, <1>23, LinkedMoved
<1>25. \A i \in D : t.node[i].key # Nil =>
         LET m == MainPosition(t, t.node[i].key)
         IN /\ m \in D \ {mp, free} /\ t.node[m].key # Nil /\ MainPosition(t, t.node[m].key) = m
            /\ Reaches(D, nx, m, i)
  <2> SUFFICES ASSUME NEW i \in D, t.node[i].key # Nil
               PROVE  LET m == MainPosition(t, t.node[i].key)
                      IN /\ m \in D \ {mp, free} /\ t.node[m].key # Nil
                         /\ MainPosition(t, t.node[m].key) = m /\ Reaches(D, nx, m, i)
    OBVIOUS
  <2> DEFINE m == MainPosition(t, t.node[i].key)
  <2>1. OnChain(t, i)
    BY DEF Good, Chained, D
  <2>2. m \in D
    BY <1>5, MainIs, KeysAre DEF Good, Typed, NodeRecords, D
  <2>3. t.node[m].key # Nil /\ MainPosition(t, t.node[m].key) = m /\ Reaches(D, nx, m, i)
    BY <2>1 DEF OnChain, D, nx
  <2>4. m # mp
    BY <2>3 DEF mp
  <2> HIDE DEF m
  <2>5. m # free
    BY <2>3, <1>2
  <2> QED BY <2>2, <2>3, <2>4, <2>5 DEF m
<1>26. \A i \in D : u.node[i].key # Nil => OnChain(u, i)
  <2> SUFFICES ASSUME NEW i \in D, u.node[i].key # Nil PROVE OnChain(u, i)
    OBVIOUS
  <2>1. CASE i = mp
    BY <2>1, <1>1, <1>12, <1>16, <1>19 DEF OnChain, Reaches, mp
  <2>2. CASE i # mp
    <3> DEFINE j == IF i = free THEN mp ELSE i
               m == MainPosition(t, t.node[j].key)
    <3>1. j \in D /\ t.node[j].key # Nil /\ u.node[i].key = t.node[j].key /\ (i # free => j = i /\ j # mp)
      BY <2>2, <1>1, <1>3, <1>13, <1>15
    <3>2. m \in D \ {mp, free} /\ t.node[m].key # Nil /\ MainPosition(t, t.node[m].key) = m /\ Reaches(D, nx, m, j)
      BY <3>1, <1>25
    <3>3. Reaches(D, ny, m, i)
      <4> HIDE DEF m
      <4>1. CASE i = free
        BY <4>1, <3>2, <1>24
      <4>2. CASE i # free
        BY <4>2, <2>2, <3>1, <3>2, <1>24
      <4> QED BY <4>1, <4>2
    <3>4. u.node[m].key = t.node[m].key /\ MainPosition(u, u.node[i].key) = m
      BY <1>15, <1>19, <3>1, <3>2
    <3> HIDE DEF m, j
    <3> QED BY <1>12, <1>19, <3>2, <3>3, <3>4 DEF OnChain, ny
  <2> QED BY <2>1, <2>2
<1>27. \A i \in D : i \notin {mp, free} => /\ u.node[i].key = t.node[i].key /\ u.node[i].dead = t.node[i].dead
                                           /\ u.node[i].val = t.node[i].val
  BY <1>15
<1>28. /\ u.node[free].key = t.node[mp].key /\ u.node[free].dead = t.node[mp].dead
       /\ u.node[free].val = t.node[mp].val
  BY <1>13
<1>29. Chained(u)
  <2>1. \A i \in D : u.node[i].key = Nil => Unlinked(D, ny, i)
    BY <1>1, <1>3, <1>16, <1>24, <1>27, <1>28 DEF Good, Chained, nx, D
  <2>2. \A i \in D : u.node[i].key # Nil => ~InArray(u, u.node[i].key)
    BY <1>1, <1>3, <1>4, <1>12, <1>16, <1>27, <1>28 DEF Good, Chained, InArray, D
  <2>3. \A i \in D : /\ u.node[i].key = Nil => u.node[i].val = Nil /\ ~u.node[i].dead
                     /\ u.node[i].dead => u.node[i].val = Nil
    BY <1>1, <1>3, <1>16, <1>27, <1>28 DEF Good, Chained, D
  <2>4. ASSUME NEW i \in D, NEW j \in D, u.node[i].key = u.node[j].key, u.node[i].key # Nil,
               ~u.node[i].dead, ~u.node[j].dead
        PROVE  i = j
    <3>1. \A a, b \in D :
            (t.node[a].key = t.node[b].key /\ t.node[a].key # Nil /\ ~t.node[a].dead /\ ~t.node[b].dead) => a = b
      <4>1. Unique(t)
        BY DEF Good, Chained
      <4> QED BY <4>1 DEF Unique, D
    <3> QED BY <1>1, <1>4, <1>16, <1>27, <1>28, <2>4, <3>1
  <2>5. Unique(u)
    BY <1>12, <2>4 DEF Unique
  <2> QED BY <1>12, <1>24, <1>26, <2>1, <2>2, <2>3, <2>5 DEF Chained, ny
<1>30. Filled(u)
  <2>1. \A i \in D : i >= free => u.node[i].key # Nil
    <3>1. \A i \in D : i \in Int
      BY DEF Good, Typed, D
    <3> QED BY <1>1, <1>2, <1>3, <1>16, <1>27, <1>28, <3>1
  <2> QED BY <1>2, <1>12, <2>1 DEF Good, Filled
<1>35. \A i, j \in D : t.node[i].key = t.node[j].key /\ ~t.node[i].dead /\ t.node[j].dead => Reaches(D, nx, i, j)
  BY DEF Good, Ahead, D, nx
<1>36. Ahead(u)
  <2> SUFFICES ASSUME NEW i \in D, NEW j \in D, u.node[i].key = u.node[j].key, ~u.node[i].dead, u.node[j].dead
               PROVE  Reaches(D, ny, i, j)
    BY <1>12 DEF Ahead, ny
  <2>1. j \notin {mp, free} /\ u.node[j].key = t.node[j].key /\ t.node[j].dead /\ t.node[j].key # Nil
    <3>1. j \notin {mp, free}
      BY <1>3, <1>16, <1>28
    <3>2. u.node[j].key = t.node[j].key /\ t.node[j].dead
      BY <3>1, <1>27
    <3> QED BY <3>1, <3>2 DEF Good, Chained, D
  <2>2. i # mp
    <3>1. MainPosition(t, t.node[j].key) # mp
      BY <1>25, <2>1
    <3> QED BY <3>1, <1>16, <2>1 DEF mp
  <2>3. CASE i = free
    BY <1>1, <1>3, <1>24, <1>28, <1>35, <2>1, <2>3
  <2>4. CASE i # free
    BY <1>24, <1>27, <1>35, <2>1, <2>2, <2>4
  <2> QED BY <2>3, <2>4
<1>31. Good(u)
  BY <1>18, <1>29, <1>30, <1>36 DEF Good
<1>32. Pairs(u) = Pairs(t)
  <2>1. Live(u) = (Live(t) \ {mp}) \cup {free} /\ mp \in Live(t)
    <3>1. t.node[free].val = Nil
      BY <1>2 DEF Good, Chained, D
    <3> QED BY <3>1, <1>1, <1>2, <1>3, <1>10, <1>12, <1>16, <1>27, <1>28 DEF Live, D
  <2>2. \A i \in Live(u) : i # free => u.node[i].key = t.node[i].key /\ u.node[i].val = t.node[i].val
    BY <1>12, <1>16, <1>27 DEF Live
  <2>3. free \notin Live(t)
    BY <1>2 DEF Live, Good, Chained, D
  <2> QED BY <2>1, <2>2, <2>3, <1>10, <1>28 DEF Pairs
<1>33. Used(u) = Used(t) \cup {free}
  BY <1>1, <1>2, <1>3, <1>12, <1>16, <1>27, <1>28 DEF Used, D
<1>34. Put(t, u, k)
  <2>1. Used(u) = Used(t) \cup {free} /\ mp \in Used(u)
    BY <1>1, <1>33, <1>12, <1>16 DEF Used, D
  <2> QED BY <1>1, <1>2, <1>12, <1>16, <1>31, <1>32, <2>1 DEF Put, D
<1> QED BY <1>34 DEF u, mp, free

LEMMA PutBehind ==
  ASSUME NEW t, Good(t), NEW k \in Keys, ~Has(t, k), Collides(t, k), GetFreePos(t) # -1,
         MainPosition(t, t.node[MainPosition(t, k)].key) = MainPosition(t, k)
  PROVE  Put(t, Follow(t, MainPosition(t, k), GetFreePos(t), k), k)
<1> DEFINE mp == MainPosition(t, k)
           free == GetFreePos(t)
           u == Follow(t, mp, free, k)
           D == DOMAIN t.node
           nx == Links(t)
<1>1. k \in Hashable /\ k # Nil /\ mp \in D /\ t \in Tables
  BY KeysAre, MainIs DEF Good, Typed
<1>2. /\ free \in D /\ t.node[free].key = Nil /\ ~t.dummy /\ free \in Nat /\ free < t.lastfree
      /\ \A i \in D : i > free => t.node[i].key # Nil
  BY FreePosIs
<1>3. t.node[mp].val # Nil /\ t.node[mp].key # Nil /\ ~t.node[mp].dead
  BY <1>1, <1>2, NodesAre DEF Collides, Good, Chained
<1>4. ~InArray(t, k) /\ \A i \in D : t.node[i].key = k => t.node[i].dead
  BY <1>1, NodeOfIs, ~(-1 \in D) DEF Has, Good, Chained, Linked
<1>5. \A i \in D : t.node[i] \in NodeRecords
  BY <1>1, NodesAre
<1>6. MainPosition(t, t.node[mp].key) = mp
  OBVIOUS
<1>7. u = [t EXCEPT !.node[free] = [Free EXCEPT !.key = k, !.next = t.node[mp].next],
                    !.node[mp].next = free, !.lastfree = free]
  BY DEF Follow
<1>8. Linked(D, nx) /\ -1 \notin D /\ \A i \in D : nx[i] = t.node[i].next
  BY DEF Good, Chained, Linked, Links
<1> HIDE DEF u, mp, free, nx
<1>10. mp # free
  BY <1>2, <1>3
<1>11. /\ u.node = [t.node EXCEPT ![free] = [Free EXCEPT !.key = k, !.next = t.node[mp].next], ![mp].next = free]
       /\ u = [t EXCEPT !.node = u.node, !.lastfree = free]
  BY <1>1, <1>7 DEF Tables
<1>12. /\ u.array = t.array /\ u.dummy = t.dummy /\ u.lsizenode = t.lsizenode /\ u.lastfree = free
       /\ u.full = t.full /\ DOMAIN u.node = D
  BY <1>1, <1>11 DEF Tables
<1>13. /\ u.node[free] = [key |-> k, dead |-> FALSE, val |-> Nil, next |-> t.node[mp].next]
       /\ u.node[mp] = [t.node[mp] EXCEPT !.next = free]
       /\ \A i \in D : i \notin {mp, free} => u.node[i] = t.node[i]
  BY <1>1, <1>2, <1>10, <1>11 DEF Free
<1>14. /\ u.node[mp].key = t.node[mp].key /\ u.node[mp].dead = t.node[mp].dead
       /\ u.node[mp].val = t.node[mp].val /\ u.node[mp].next = free
       /\ u.node[mp] \in NodeRecords
  BY <1>1, <1>2, <1>5, <1>13 DEF NodeRecords
<1>15. \A i \in D : i # free =>
         (u.node[i].key = t.node[i].key /\ u.node[i].val = t.node[i].val /\ u.node[i].dead = t.node[i].dead)
  BY <1>13, <1>14
<1>16. /\ u.node[free].key = k /\ ~u.node[free].dead /\ u.node[free].val = Nil
       /\ u.node[free].next = t.node[mp].next
  BY <1>13
<1>17. u \in Tables
  <2>1. D = 0..(SizeNode(t) - 1) /\ SizeNode(t) \in Nat
    BY <1>1, SizeIs, NodesAre DEF Good, Typed
  <2>2. u.node[free] \in NodeRecords
    BY <1>1, <1>5, <1>13 DEF NodeRecords
  <2>3. \A i \in D : u.node[i] \in NodeRecords
    BY <2>2, <1>1, <1>5, <1>13, <1>14
  <2>4. u.node \in [0..(SizeNode(t) - 1) -> NodeRecords]
    BY <1>11, <2>1, <2>3
  <2> QED BY <1>1, <1>2, <1>11, <2>1, <2>4 DEF Tables
<1>18. Typed(u)
  BY <1>2, <1>12, <1>17, NodesAre, SizeIs DEF Typed, SizeNode, Good
<1>19. \A j : MainPosition(u, j) = MainPosition(t, j)
  BY <1>12, SameMain
<1> DEFINE ny == Links(u)
<1>20. \A i \in D : ny[i] = u.node[i].next
  BY <1>12 DEF Links
<1>21. Unlinked(D, nx, free)
  BY <1>2 DEF Good, Chained, nx
<1>22. /\ ny[mp] = free /\ ny[free] = nx[mp]
       /\ \A i \in D : i # mp /\ i # free => ny[i] = nx[i]
       /\ ny \in [D -> D \cup {-1}]
  <2>1. /\ ny[mp] = free /\ ny[free] = nx[mp]
        /\ \A i \in D : i # mp /\ i # free => ny[i] = nx[i]
    <3>1. ny[mp] = u.node[mp].next /\ ny[free] = u.node[free].next /\ nx[mp] = t.node[mp].next
      BY <1>1, <1>2, <1>8, <1>20
    <3>2. \A i \in D : i # mp /\ i # free => ny[i] = nx[i]
      BY <1>8, <1>13, <1>20
    <3> HIDE DEF D, ny
    <3> QED BY <1>14, <1>16, <3>1, <3>2
  <2>2. nx \in [D -> D \cup {-1}]
    BY <1>8 DEF Linked
  <2>3. \A i \in D : ny[i] \in D \cup {-1}
    BY <2>1, <2>2, <1>1, <1>2
  <2>4. ny = [i \in D |-> ny[i]]
    BY <1>12 DEF Links
  <2> HIDE DEF ny
  <2> QED BY <2>1, <2>3, <2>4
<1> HIDE DEF ny, D
<1>24. /\ Linked(D, ny) /\ Reaches(D, ny, mp, free)
       /\ \A i \in D : i # free /\ Unlinked(D, nx, i) /\ i # mp => Unlinked(D, ny, i)
       /\ \A i, j \in D : i # free /\ j # free /\ Reaches(D, nx, i, j) => Reaches(D, ny, i, j)
       /\ \A j \in D : j # mp /\ j # free /\ Reaches(D, nx, mp, j) => Reaches(D, ny, free, j)
  <2>1. mp \in D /\ free \in D /\ Linked(D, nx) /\ mp # free
    BY <1>1, <1>2, <1>8, <1>10
  <2> QED BY <2>1, <1>21, <1>22, LinkedBehind
<1>25. \A i \in D : t.node[i].key # Nil =>
         LET m == MainPosition(t, t.node[i].key)
         IN /\ m \in D \ {free} /\ t.node[m].key # Nil /\ MainPosition(t, t.node[m].key) = m
            /\ Reaches(D, nx, m, i)
  <2> SUFFICES ASSUME NEW i \in D, t.node[i].key # Nil
               PROVE  LET m == MainPosition(t, t.node[i].key)
                      IN /\ m \in D \ {free} /\ t.node[m].key # Nil
                         /\ MainPosition(t, t.node[m].key) = m /\ Reaches(D, nx, m, i)
    OBVIOUS
  <2> DEFINE m == MainPosition(t, t.node[i].key)
  <2>1. OnChain(t, i)
    BY DEF Good, Chained, D
  <2>2. m \in D
    BY <1>5, MainIs, KeysAre DEF Good, Typed, NodeRecords, D
  <2>3. t.node[m].key # Nil /\ MainPosition(t, t.node[m].key) = m /\ Reaches(D, nx, m, i)
    BY <2>1 DEF OnChain, D, nx
  <2> HIDE DEF m
  <2>5. m # free
    BY <2>3, <1>2
  <2> QED BY <2>2, <2>3, <2>5 DEF m
<1>26. \A i \in D : u.node[i].key # Nil => OnChain(u, i)
  <2> SUFFICES ASSUME NEW i \in D, u.node[i].key # Nil PROVE OnChain(u, i)
    OBVIOUS
  <2>1. CASE i = free
    <3>1. u.node[mp].key # Nil /\ MainPosition(u, u.node[mp].key) = mp /\ MainPosition(u, u.node[i].key) = mp
      BY <2>1, <1>3, <1>6, <1>14, <1>16, <1>19 DEF mp
    <3> QED BY <2>1, <3>1, <1>12, <1>24 DEF OnChain, ny
  <2>2. CASE i # free
    <3> DEFINE m == MainPosition(t, t.node[i].key)
    <3>1. t.node[i].key # Nil /\ u.node[i].key = t.node[i].key
      BY <2>2, <1>15
    <3>2. m \in D \ {free} /\ t.node[m].key # Nil /\ MainPosition(t, t.node[m].key) = m /\ Reaches(D, nx, m, i)
      BY <3>1, <1>25
    <3>3. Reaches(D, ny, m, i)
      <4> HIDE DEF m
      <4> QED BY <2>2, <3>2, <1>24
    <3>4. u.node[m].key = t.node[m].key /\ MainPosition(u, u.node[i].key) = m
      BY <1>15, <1>19, <3>1, <3>2
    <3> HIDE DEF m
    <3> QED BY <1>12, <1>19, <3>2, <3>3, <3>4 DEF OnChain, ny
  <2> QED BY <2>1, <2>2
<1>29. Chained(u)
  <2>1. \A i \in D : u.node[i].key = Nil => Unlinked(D, ny, i)
    BY <1>1, <1>3, <1>15, <1>16, <1>24 DEF Good, Chained, nx, D
  <2>2. \A i \in D : u.node[i].key # Nil => ~InArray(u, u.node[i].key)
    BY <1>4, <1>12, <1>15, <1>16 DEF Good, Chained, InArray, D
  <2>3. \A i \in D :
          /\ u.node[i].key = Nil => u.node[i].val = Nil /\ ~u.node[i].dead
          /\ u.node[i].dead => u.node[i].val = Nil
    BY <1>1, <1>15, <1>16 DEF Good, Chained, D
  <2>4. ASSUME NEW i \in D, NEW j \in D, u.node[i].key = u.node[j].key, u.node[i].key # Nil,
               ~u.node[i].dead, ~u.node[j].dead
        PROVE  i = j
    <3>1. \A a, b \in D :
            (t.node[a].key = t.node[b].key /\ t.node[a].key # Nil /\ ~t.node[a].dead /\ ~t.node[b].dead) => a = b
      <4>1. Unique(t)
        BY DEF Good, Chained
      <4> QED BY <4>1 DEF Unique, D
    <3> QED BY <1>4, <1>15, <1>16, <2>4, <3>1
  <2>5. Unique(u)
    BY <1>12, <2>4 DEF Unique
  <2> QED BY <1>12, <1>24, <1>26, <2>1, <2>2, <2>3, <2>5 DEF Chained, ny
<1>30. Filled(u)
  <2>1. \A i \in D : i >= free => u.node[i].key # Nil
    <3> SUFFICES ASSUME NEW i \in D, i >= free PROVE u.node[i].key # Nil
      OBVIOUS
    <3>1. CASE i = free
      BY <1>1, <1>16, <3>1
    <3>2. CASE i # free
      <4>1. i > free
        <5>1. i \in Int /\ free \in Int
          BY <1>2 DEF Good, Typed, D
        <5> QED BY <3>2, <5>1
      <4>2. t.node[i].key # Nil
        BY <1>2, <4>1
      <4> QED BY <1>1, <1>15, <3>2, <4>2
    <3> QED BY <3>1, <3>2
  <2> QED BY <1>2, <1>12, <2>1 DEF Good, Filled
<1>35. \A i, j \in D : t.node[i].key = t.node[j].key /\ ~t.node[i].dead /\ t.node[j].dead => Reaches(D, nx, i, j)
  BY DEF Good, Ahead, D, nx
<1>36. Ahead(u)
  <2> SUFFICES ASSUME NEW i \in D, NEW j \in D, u.node[i].key = u.node[j].key, ~u.node[i].dead, u.node[j].dead
               PROVE  Reaches(D, ny, i, j)
    BY <1>12 DEF Ahead, ny
  <2>1. j \notin {mp, free} /\ u.node[j].key = t.node[j].key /\ t.node[j].dead /\ t.node[j].key # Nil
    <3>1. j \notin {mp, free}
      BY <1>1, <1>3, <1>15, <1>16, <1>10
    <3>2. u.node[j].key = t.node[j].key /\ t.node[j].dead
      BY <3>1, <1>15
    <3> QED BY <3>1, <3>2 DEF Good, Chained, D
  <2>2. CASE i = free
    <3>1. t.node[j].key = k
      BY <1>16, <2>1, <2>2
    <3>2. Reaches(D, nx, mp, j)
      BY <1>25, <2>1, <3>1 DEF mp
    <3> QED BY <1>24, <2>1, <2>2, <3>2
  <2>3. CASE i # free
    BY <1>15, <1>24, <1>35, <2>1, <2>3
  <2> QED BY <2>2, <2>3
<1>31. Good(u)
  BY <1>18, <1>29, <1>30, <1>36 DEF Good
<1>32. Pairs(u) = Pairs(t)
  <2>1. t.node[free].val = Nil
    BY <1>2 DEF Good, Chained, D
  <2>2. Live(u) = Live(t) /\ free \notin Live(t)
    BY <2>1, <1>2, <1>12, <1>15, <1>16 DEF Live, D
  <2>3. \A i \in Live(t) : u.node[i].key = t.node[i].key /\ u.node[i].val = t.node[i].val
    BY <2>2, <1>12, <1>15 DEF Live
  <2> QED BY <2>2, <2>3 DEF Pairs
<1>33. Used(u) = Used(t) \cup {free}
  BY <1>1, <1>2, <1>12, <1>15, <1>16 DEF Used, D
<1>34. Put(t, u, k)
  BY <1>2, <1>12, <1>16, <1>31, <1>32, <1>33 DEF Put, D
<1> QED BY <1>34 DEF u, mp, free

(* What newkey does, when there is a free position or none.                *)
LEMMA PutKeyIs ==
  ASSUME NEW t, Good(t), NEW k \in Keys, ~Has(t, k)
  PROVE  IF Collides(t, k) /\ GetFreePos(t) = -1
         THEN /\ PutKey(t, k) = [t EXCEPT !.full = TRUE]
              /\ t.dummy \/ Used(t) = DOMAIN t.node
         ELSE Put(t, PutKey(t, k), k)
<1>1. CASE ~Collides(t, k)
  BY <1>1, PutInPlace
<1>2. CASE Collides(t, k) /\ GetFreePos(t) = -1
  <2>1. PutKey(t, k) = [t EXCEPT !.full = TRUE]
    BY <1>2 DEF PutKey
  <2>2. t.dummy \/ Used(t) = DOMAIN t.node
    BY <1>2, FreePosIs
  <2> QED BY <1>2, <2>1, <2>2
<1>3. CASE Collides(t, k) /\ GetFreePos(t) # -1
  <2>1. CASE MainPosition(t, t.node[MainPosition(t, k)].key) # MainPosition(t, k)
    <3>1. PutKey(t, k) = Move(t, MainPosition(t, k), GetFreePos(t), k)
      BY <1>3, <2>1 DEF PutKey
    <3> QED BY <1>3, <2>1, <3>1, PutMoved
  <2>2. CASE MainPosition(t, t.node[MainPosition(t, k)].key) = MainPosition(t, k)
    <3>1. PutKey(t, k) = Follow(t, MainPosition(t, k), GetFreePos(t), k)
      BY <1>3, <2>2 DEF PutKey
    <3> QED BY <1>3, <2>2, <3>1, PutBehind
  <2> QED BY <2>1, <2>2
<1> QED BY <1>1, <1>2, <1>3

(* A table marked full is otherwise the same.                              *)
LEMMA MarkedFull ==
  ASSUME NEW t, Good(t)
  PROVE  LET u == [t EXCEPT !.full = TRUE]
         IN Good(u) /\ u.full = TRUE
<1> DEFINE u == [t EXCEPT !.full = TRUE]
<1>1. t \in Tables
  BY DEF Good, Typed
<1>2. /\ u \in Tables /\ u.array = t.array /\ u.node = t.node /\ u.dummy = t.dummy
      /\ u.lsizenode = t.lsizenode /\ u.lastfree = t.lastfree /\ u.full = TRUE
  BY <1>1 DEF Tables
<1> HIDE DEF u
<1>3. Good(u)
  BY <1>2, Revalued DEF Good, Chained, Filled
<1> QED BY <1>2, <1>3 DEF u
-----------------------------------------------------------------------------
(* What a table holds: outside the array part, the pairs of its nodes.     *)
LEMMA GetIs ==
  ASSUME NEW t, Good(t), NEW k \in Hashable, ~InArray(t, k)
  PROVE  \A w : w # Nil => (Get(t, k) = w <=> <<k, w>> \in Pairs(t))
<1> DEFINE D == DOMAIN t.node
           n == NodeOf(t, k)
<1>1. Get(t, k) = IF n = -1 THEN Nil ELSE t.node[n].val
  BY DEF Get
<1>2. \/ n = -1 /\ \A i \in D : t.node[i].key = k => t.node[i].dead
      \/ n \in D /\ t.node[n].key = k /\ ~t.node[n].dead
  BY NodeOfIs
<1>3. \A i \in Live(t) : i \in D /\ ~t.node[i].dead /\ t.node[i].key # Nil
  BY DEF Good, Chained, Live
<1>4. k # Nil /\ -1 \notin D
  BY KeysAre DEF Good, Chained, Linked
<1>5. Unique(t)
  BY DEF Good, Chained
<1> HIDE DEF n
<1>6. CASE n = -1
  <2>1. \A i \in Live(t) : t.node[i].key # k
    BY <1>2, <1>3, <1>4, <1>6
  <2>2. \A w : <<k, w>> \notin Pairs(t)
    BY <2>1 DEF Pairs
  <2> QED BY <1>1, <1>6, <2>2
<1>7. CASE n # -1
  <2>1. n \in D /\ t.node[n].key = k /\ ~t.node[n].dead /\ Get(t, k) = t.node[n].val
    BY <1>1, <1>2, <1>7
  <2>2. ASSUME NEW i \in Live(t), t.node[i].key = k PROVE i = n
    BY <1>3, <1>4, <1>5, <2>1, <2>2 DEF Unique
  <2>3. t.node[n].val # Nil => n \in Live(t)
    BY <2>1 DEF Live
  <2>4. ASSUME NEW w, w # Nil, <<k, w>> \in Pairs(t) PROVE Get(t, k) = w
    <3>1. PICK i \in Live(t) : <<k, w>> = <<t.node[i].key, t.node[i].val>>
      BY <2>4 DEF Pairs
    <3> QED BY <3>1, <2>1, <2>2
  <2>5. ASSUME NEW w, w # Nil, Get(t, k) = w PROVE <<k, w>> \in Pairs(t)
    BY <2>1, <2>3, <2>5 DEF Pairs
  <2> QED BY <2>4, <2>5
<1> QED BY <1>6, <1>7

(* Two tables whose pairs agree on a key agree on its value.               *)
LEMMA SameGet ==
  ASSUME NEW t, Good(t), NEW u, Good(u), NEW k \in Hashable, ~InArray(t, k), ~InArray(u, k),
         \A w : <<k, w>> \in Pairs(t) <=> <<k, w>> \in Pairs(u)
  PROVE  Get(u, k) = Get(t, k)
<1>1. \A w : w # Nil => (Get(t, k) = w <=> Get(u, k) = w)
  BY GetIs
<1> QED BY <1>1

LEMMA PutGets ==
  ASSUME NEW t, Good(t), NEW u, NEW k \in Keys, Put(t, u, k)
  PROVE  Has(u, k) /\ \A j \in Hashable : Get(u, j) = Get(t, j)
<1>1. Good(u) /\ u.array = t.array /\ Pairs(u) = Pairs(t) /\ DOMAIN u.node = DOMAIN t.node
  BY DEF Put
<1>2. PICK x \in DOMAIN u.node : u.node[x].key = k /\ ~u.node[x].dead
  BY <1>1 DEF Put
<1>3. k \in Hashable /\ -1 \notin DOMAIN u.node
  BY <1>1, KeysAre DEF Good, Chained, Linked
<1>4. NodeOf(u, k) # -1
  BY <1>1, <1>2, <1>3, NodeOfIs
<1>5. ASSUME NEW j \in Hashable PROVE Get(u, j) = Get(t, j)
  <2>1. InArray(u, j) <=> InArray(t, j)
    BY <1>1 DEF InArray
  <2>2. CASE InArray(t, j)
    BY <1>1, <2>1, <2>2 DEF Get
  <2>3. CASE ~InArray(t, j)
    BY <1>1, <2>1, <2>3, SameGet
  <2> QED BY <2>2, <2>3
<1> QED BY <1>4, <1>5 DEF Has

LEMMA StoreGets ==
  ASSUME NEW t, Good(t), NEW k \in Keys, Has(t, k), NEW v \in Values \cup {Nil}
  PROVE  LET u == Store(t, k, v)
         IN Get(u, k) = v /\ \A j \in Hashable : j # k => Get(u, j) = Get(t, j)
<1> DEFINE u == Store(t, k, v)
           n == NodeOf(t, k)
<1>1. /\ Good(u) /\ DOMAIN u.node = DOMAIN t.node /\ Len(u.array) = Len(t.array)
      /\ \A i \in DOMAIN t.node :
           /\ u.node[i].key = t.node[i].key
           /\ u.node[i].val = IF ~InArray(t, k) /\ i = NodeOf(t, k) THEN v ELSE t.node[i].val
      /\ \A i \in DOMAIN t.array : u.array[i] = IF i = k THEN v ELSE t.array[i]
  BY StoreIs
<1> HIDE DEF u
<1>2. DOMAIN t.array = 1..Len(t.array) /\ \A j : InArray(u, j) <=> InArray(t, j)
  BY <1>1, NodesAre DEF InArray, Good, Typed
<1>3. k \in Hashable /\ k # Nil /\ -1 \notin DOMAIN t.node
  BY KeysAre DEF Good, Chained, Linked
<1>4. CASE InArray(t, k)
  <2>1. k \in DOMAIN t.array /\ u.array[k] = v
    BY <1>1, <1>2, <1>4 DEF InArray
  <2>2. Get(u, k) = v
    BY <1>2, <1>4, <2>1 DEF Get
  <2>3. Live(u) = Live(t) /\ \A i \in Live(t) : u.node[i].key = t.node[i].key /\ u.node[i].val = t.node[i].val
    BY <1>1, <1>4 DEF Live
  <2>4. Pairs(u) = Pairs(t)
    BY <2>3 DEF Pairs
  <2>5. ASSUME NEW j \in Hashable, j # k PROVE Get(u, j) = Get(t, j)
    <3>1. CASE InArray(t, j)
      <4>1. j \in DOMAIN t.array
        BY <1>2, <3>1 DEF InArray
      <4> QED BY <1>1, <1>2, <2>5, <3>1, <4>1 DEF Get
    <3>2. CASE ~InArray(t, j)
      BY <1>1, <1>2, <2>4, <3>2, SameGet
    <3> QED BY <3>1, <3>2
  <2> QED BY <2>2, <2>5 DEF u
<1>5. CASE ~InArray(t, k)
  <2>1. n \in DOMAIN t.node /\ t.node[n].key = k /\ ~t.node[n].dead
    BY <1>3, <1>5, NodeOfIs DEF Has
  <2> HIDE DEF n
  <2>2. /\ u.node[n].val = v /\ u.node[n].key = k
        /\ \A i \in DOMAIN t.node : i # n => u.node[i].key = t.node[i].key /\ u.node[i].val = t.node[i].val
    BY <1>1, <1>5, <2>1 DEF n
  <2>3. \A i \in DOMAIN t.node : i # n /\ t.node[i].key = k => t.node[i].val = Nil
    BY <1>3, <2>1 DEF Good, Chained, Unique
  <2>4. Get(u, k) = v
    <3>1. \A w : w # Nil => (Get(u, k) = w <=> <<k, w>> \in Pairs(u))
      BY <1>1, <1>2, <1>3, <1>5, GetIs
    <3>2. ASSUME NEW w, w # Nil, <<k, w>> \in Pairs(u) PROVE w = v
      <4>1. PICK i \in Live(u) : k = u.node[i].key /\ w = u.node[i].val
        BY <3>2 DEF Pairs
      <4>2. i \in DOMAIN t.node
        BY <1>1 DEF Live
      <4>3. CASE i = n
        BY <4>1, <4>3, <2>2
      <4>4. CASE i # n
        BY <3>2, <4>1, <4>2, <4>4, <2>2, <2>3
      <4> QED BY <4>3, <4>4
    <3>3. v # Nil => <<k, v>> \in Pairs(u)
      BY <1>1, <2>1, <2>2 DEF Pairs, Live
    <3>4. CASE v # Nil
      BY <3>1, <3>3, <3>4
    <3>5. CASE v = Nil
      BY <3>1, <3>2, <3>5
    <3> QED BY <3>4, <3>5
  <2>5. ASSUME NEW j \in Hashable, j # k PROVE Get(u, j) = Get(t, j)
    <3>1. CASE InArray(t, j)
      <4>1. j \in DOMAIN t.array
        BY <1>2, <3>1 DEF InArray
      <4> QED BY <1>1, <1>2, <2>5, <3>1, <4>1 DEF Get
    <3>2. CASE ~InArray(t, j)
      <4>1. \A i : (i \in Live(u) /\ u.node[i].key = j) <=> (i \in Live(t) /\ t.node[i].key = j)
        BY <1>1, <2>1, <2>2, <2>5 DEF Live
      <4>2. \A i \in Live(t) : t.node[i].key = j => u.node[i].val = t.node[i].val
        BY <2>1, <2>2, <2>5 DEF Live
      <4>3. ASSUME NEW w PROVE <<j, w>> \in Pairs(t) <=> <<j, w>> \in Pairs(u)
        <5>1. <<j, w>> \in Pairs(t) <=> \E i \in Live(t) : t.node[i].key = j /\ t.node[i].val = w
          BY DEF Pairs
        <5>2. <<j, w>> \in Pairs(u) <=> \E i \in Live(u) : u.node[i].key = j /\ u.node[i].val = w
          BY DEF Pairs
        <5> QED BY <4>1, <4>2, <5>1, <5>2
      <4> QED BY <1>1, <1>2, <3>2, <4>3, SameGet
    <3> QED BY <3>1, <3>2
  <2> QED BY <2>4, <2>5 DEF u
<1> QED BY <1>4, <1>5
-----------------------------------------------------------------------------
(* Resizing. A vector of free nodes holds nothing.                         *)
Emptied(t, u, nasize, nhsize) ==
  /\ Good(u) /\ Len(u.array) = nasize /\ u.full = t.full /\ u.dummy = (nhsize = 0)
  /\ \A i \in 1..nasize : u.array[i] = IF i <= Len(t.array) THEN t.array[i] ELSE Nil
  /\ Used(u) = {} /\ SizeNode(u) >= nhsize

LEMMA FreshIs ==
  ASSUME NEW t, t \in Tables, hash \in Hashes, NEW nasize \in Nat, NEW nhsize \in Nat,
         \A i \in DOMAIN t.array : t.array[i] # Nil => i \in Ints
  PROVE  Emptied(t, SetNodeVector(SetArrayVector(t, nasize), nhsize), nasize, nhsize)
<1> DEFINE s == SetArrayVector(t, nasize)
           u == SetNodeVector(s, nhsize)
           a == [i \in 1..nasize |-> IF i <= Len(t.array) THEN t.array[i] ELSE Nil]
           lsize == IF nhsize = 0 THEN 0 ELSE CeilLog2(nhsize)
           size == 2^lsize
           n == [i \in 0..(size - 1) |-> Free]
<1>1. DOMAIN t.array = 1..Len(t.array) /\ Len(t.array) \in Nat /\ t.array \in Seq(Values \cup {Nil})
  BY NodesAre
<1>2. a \in Seq(Values \cup {Nil}) /\ Len(a) = nasize
  <2>1. \A i \in 1..nasize : a[i] \in Values \cup {Nil}
    BY <1>1
  <2>2. a \in [1..nasize -> Values \cup {Nil}]
    BY <2>1
  <2> HIDE DEF a
  <2> QED BY <2>2
<1>3. s = [t EXCEPT !.array = a]
  BY DEF SetArrayVector
<1>4. lsize \in Nat /\ size \in Nat /\ size >= 1 /\ size >= nhsize
  <2>1. CASE nhsize = 0
    <3>1. lsize = 0 /\ 2^0 \in Nat /\ 2^0 >= 0 + 1
      BY <2>1, TwoTo
    <3> HIDE DEF lsize
    <3> QED BY <2>1, <3>1
  <2>2. CASE nhsize # 0
    <3>1. lsize = CeilLog2(nhsize) /\ lsize \in Nat /\ 2^lsize \in Nat /\ 2^lsize >= nhsize
      BY <2>2, CeilLog
    <3> HIDE DEF lsize
    <3> QED BY <2>2, <3>1
  <2> QED BY <2>1, <2>2
<1> HIDE DEF lsize
<1>5. u = [s EXCEPT !.node = n, !.dummy = (nhsize = 0), !.lsizenode = lsize,
                    !.lastfree = IF nhsize = 0 THEN 0 ELSE size]
  BY DEF SetNodeVector, lsize
<1> DEFINE free == IF nhsize = 0 THEN 0 ELSE size
<1>6. free \in Nat /\ free <= size
  BY <1>4
<1> HIDE DEF s, u, a, n, size, free
<1>7. /\ u = [t EXCEPT !.array = a, !.node = n, !.dummy = (nhsize = 0), !.lsizenode = lsize, !.lastfree = free]
      /\ u.array = a /\ u.node = n /\ u.dummy = (nhsize = 0) /\ u.lsizenode = lsize /\ u.lastfree = free
      /\ u.full = t.full
  BY <1>3, <1>5 DEF Tables, free
<1>8. Free \in NodeRecords /\ Free.key = Nil /\ Free.val = Nil /\ Free.dead = FALSE /\ Free.next = -1
  BY DEF Free, NodeRecords
<1>9. n \in [0..(size - 1) -> NodeRecords] /\ \A i \in 0..(size - 1) : n[i] = Free
  BY <1>8 DEF n
<1>10. u \in Tables
  BY <1>2, <1>4, <1>6, <1>7, <1>9 DEF Tables
<1>11. SizeNode(u) = size /\ DOMAIN u.node = 0..(size - 1)
  BY <1>7, <1>9 DEF SizeNode, size
<1>12. Typed(u)
  BY <1>6, <1>7, <1>10, <1>11 DEF Typed
<1> DEFINE D == 0..(size - 1)
<1>13. \A i \in D : Links(u)[i] = -1
  BY <1>7, <1>8, <1>9, <1>11 DEF Links
<1>14. Linked(DOMAIN u.node, Links(u)) /\ \A i \in DOMAIN u.node : Unlinked(DOMAIN u.node, Links(u), i)
  <2>1. IsFiniteSet(D) /\ -1 \notin D /\ \A i \in D : i # -1
    BY <1>4, FS_Interval
  <2>2. Links(u) = [i \in D |-> Links(u)[i]]
    BY <1>11 DEF Links
  <2> HIDE DEF D
  <2>3. Links(u) \in [D -> D \cup {-1}]
    BY <1>13, <2>2
  <2>4. Acyclic(D, Links(u))
    BY <1>13, <2>1 DEF Acyclic
  <2>5. OnePrevious(D, Links(u))
    BY <1>13 DEF OnePrevious
  <2>6. \A i \in D : Unlinked(D, Links(u), i)
    BY <1>13, <2>1 DEF Unlinked
  <2>7. DOMAIN u.node = D
    BY <1>11 DEF D
  <2> QED BY <2>1, <2>3, <2>4, <2>5, <2>6, <2>7 DEF Linked
<1>15. \A i \in DOMAIN u.node : u.node[i].key = Nil /\ u.node[i].val = Nil /\ ~u.node[i].dead
  BY <1>7, <1>8, <1>9, <1>11
<1>16. Chained(u)
  BY <1>14, <1>15 DEF Chained, Unique
<1>17. \A i \in 1..nasize : u.array[i] = IF i <= Len(t.array) THEN t.array[i] ELSE Nil
  BY <1>7 DEF a
<1>18. Filled(u)
  <2>1. DOMAIN u.array = 1..nasize
    BY <1>7 DEF a
  <2>2. \A i \in 1..nasize : u.array[i] # Nil => i \in Ints
    BY <1>1, <1>17
  <2>3. u.dummy => u.lastfree = 0
    BY <1>7 DEF free
  <2>4. ASSUME ~u.dummy, NEW i \in DOMAIN u.node PROVE ~(i >= u.lastfree)
    <3>1. u.lastfree = size /\ i \in 0..(size - 1)
      BY <1>7, <1>11, <2>4 DEF free
    <3> QED BY <1>4, <3>1
  <2> QED BY <1>15, <2>1, <2>2, <2>3, <2>4 DEF Filled
<1>19. Good(u)
  <2>1. Ahead(u)
    BY <1>15 DEF Ahead
  <2> QED BY <1>12, <1>16, <1>18, <2>1 DEF Good
<1>20. Used(u) = {}
  BY <1>15 DEF Used
<1> QED BY <1>2, <1>4, <1>7, <1>11, <1>17, <1>19, <1>20 DEF Emptied, u, s

(* luaH_set with its value, in a table that is not rehashed.               *)
Reinserted(t, u, k, v) ==
  /\ Good(u) /\ Len(u.array) = Len(t.array) /\ u.lsizenode = t.lsizenode /\ u.dummy = t.dummy
  /\ DOMAIN u.node = DOMAIN t.node
  /\ ~t.full /\ ~u.full => /\ Get(u, k) = v
                           /\ \A j \in Hashable : j # k => Get(u, j) = Get(t, j)
  /\ ~t.full /\ u.full => ~Has(t, k) /\ (t.dummy \/ Used(t) = DOMAIN t.node)
  /\ Has(t, k) => Used(u) = Used(t)
  /\ \E x \in DOMAIN t.node : Used(u) \subseteq Used(t) \cup {x}

LEMMA ReinsertIs ==
  ASSUME NEW t, Good(t), NEW k \in Keys, NEW v \in Values \cup {Nil}
  PROVE  Reinserted(t, Reinsert(t, k, v), k, v)
<1> DEFINE s == IF Has(t, k) THEN t ELSE PutKey(t, k)
           u == Reinsert(t, k, v)
<1>1. u = IF s.full THEN s ELSE Store(s, k, v)
  BY DEF Reinsert
<1>2. \E x : x \in DOMAIN t.node
  <2>1. SizeNode(t) \in Nat /\ SizeNode(t) >= 1 /\ DOMAIN t.node = 0..(SizeNode(t) - 1)
    BY SizeIs, NodesAre DEF Good, Typed
  <2>2. 0 \in DOMAIN t.node
    BY <2>1
  <2> QED BY <2>2
<1>3. ASSUME NEW r, Good(r), Has(r, k), r.array = t.array, DOMAIN r.node = DOMAIN t.node,
             r.lsizenode = t.lsizenode, r.dummy = t.dummy, r.full = t.full, s = r,
             \A j \in Hashable : Get(r, j) = Get(t, j),
             Has(t, k) => Used(r) = Used(t),
             \E x \in DOMAIN t.node : Used(r) \subseteq Used(t) \cup {x}
      PROVE  Reinserted(t, u, k, v)
  <2>1. CASE r.full
    <3>1. u = r /\ t.full
      BY <1>1, <1>3, <2>1, NodesAre DEF Good, Typed
    <3> QED BY <1>3, <3>1 DEF Reinserted
  <2>2. CASE ~r.full
    <3> DEFINE w == Store(r, k, v)
    <3>1. u = w
      BY <1>1, <1>3, <2>2
    <3>2. /\ Good(w) /\ DOMAIN w.node = DOMAIN r.node /\ Len(w.array) = Len(r.array) /\ w.full = r.full
          /\ w.lsizenode = r.lsizenode /\ w.dummy = r.dummy
          /\ \A i \in DOMAIN r.node : w.node[i].key = r.node[i].key
      BY <1>3, StoreIs
    <3>3. Get(w, k) = v /\ \A j \in Hashable : j # k => Get(w, j) = Get(r, j)
      BY <1>3, StoreGets
    <3> HIDE DEF w
    <3>4. Used(w) = Used(r)
      BY <3>2 DEF Used
    <3>5. Reinserted(t, w, k, v)
      BY <1>3, <2>2, <3>2, <3>3, <3>4 DEF Reinserted
    <3> QED BY <3>1, <3>5
  <2> QED BY <2>1, <2>2
<1> HIDE DEF u
<1>4. CASE Has(t, k)
  <2>1. \E x \in DOMAIN t.node : Used(t) \subseteq Used(t) \cup {x}
    BY <1>2
  <2>2. s = t
    BY <1>4
  <2> HIDE DEF s
  <2> QED BY <1>3, <1>4, <2>1, <2>2 DEF u
<1>5. CASE ~Has(t, k) /\ ~(Collides(t, k) /\ GetFreePos(t) = -1)
  <2> DEFINE r == PutKey(t, k)
  <2>1. Put(t, r, k)
    BY <1>5, PutKeyIs
  <2>2. s = r /\ ~Has(t, k)
    BY <1>5
  <2> HIDE DEF s, r
  <2>3. Has(r, k) /\ \A j \in Hashable : Get(r, j) = Get(t, j)
    BY <2>1, PutGets
  <2>4. /\ Good(r) /\ r.array = t.array /\ DOMAIN r.node = DOMAIN t.node
        /\ r.lsizenode = t.lsizenode /\ r.dummy = t.dummy /\ r.full = t.full
        /\ \E x \in DOMAIN t.node : Used(r) \subseteq Used(t) \cup {x}
    BY <2>1 DEF Put
  <2> QED BY <1>3, <2>2, <2>3, <2>4 DEF u
<1>6. CASE ~Has(t, k) /\ Collides(t, k) /\ GetFreePos(t) = -1
  <2> DEFINE r == [t EXCEPT !.full = TRUE]
  <2>1. PutKey(t, k) = r /\ (t.dummy \/ Used(t) = DOMAIN t.node)
    BY <1>6, PutKeyIs
  <2>2. Good(r) /\ r.full = TRUE
    BY MarkedFull
  <2>3. u = r /\ ~Has(t, k)
    BY <1>1, <1>6, <2>1, <2>2
  <2>4. r.array = t.array /\ r.node = t.node /\ r.lsizenode = t.lsizenode /\ r.dummy = t.dummy
    BY DEF Good, Typed, Tables
  <2> HIDE DEF r
  <2>5. Used(r) = Used(t)
    BY <2>4 DEF Used
  <2>6. Reinserted(t, r, k, v)
    BY <1>2, <2>1, <2>2, <2>3, <2>4, <2>5 DEF Reinserted
  <2> QED BY <2>3, <2>6 DEF u
<1> QED BY <1>4, <1>5, <1>6
-----------------------------------------------------------------------------
(* The fields of a table: the slots in use of its array part and the keys  *)
(* of its nodes with a value.                                              *)
Fields(t) == {k \in Keys : Get(t, k) # Nil}
Slots(t) == {i \in DOMAIN t.array : t.array[i] # Nil}

LEMMA FieldsAre ==
  ASSUME NEW t, Good(t)
  PROVE  /\ Fields(t) = Slots(t) \cup {t.node[i].key : i \in Live(t)}
         /\ Slots(t) \cap {t.node[i].key : i \in Live(t)} = {}
         /\ Slots(t) \subseteq Ints
         /\ \A i \in Live(t) : t.node[i].key \in Keys /\ ~InArray(t, t.node[i].key)
                               /\ Get(t, t.node[i].key) = t.node[i].val
         /\ \A i \in Slots(t) : InArray(t, i) /\ Get(t, i) = t.array[i]
<1> DEFINE L == {t.node[i].key : i \in Live(t)}
<1>1. DOMAIN t.array = 1..Len(t.array) /\ \A i \in DOMAIN t.node : t.node[i] \in NodeRecords
  BY NodesAre DEF Good, Typed
<1>2. ASSUME NEW i \in Live(t)
      PROVE  /\ t.node[i].key \in Keys /\ ~InArray(t, t.node[i].key)
             /\ Get(t, t.node[i].key) = t.node[i].val
  <2>1. i \in DOMAIN t.node /\ t.node[i].val # Nil
    BY DEF Live
  <2>2. t.node[i].key # Nil
    BY <2>1 DEF Good, Chained
  <2>3. t.node[i].key \in Keys /\ ~InArray(t, t.node[i].key)
    BY <1>1, <2>1, <2>2 DEF Good, Chained, NodeRecords
  <2>4. <<t.node[i].key, t.node[i].val>> \in Pairs(t)
    BY DEF Pairs
  <2> QED BY <2>1, <2>3, <2>4, KeysAre, GetIs
<1>3. ASSUME NEW i \in Slots(t) PROVE i \in Ints /\ InArray(t, i) /\ Get(t, i) = t.array[i]
  BY <1>1 DEF Slots, Good, Filled, InArray, Get
<1>4. ASSUME NEW k \in Keys, Get(t, k) # Nil PROVE k \in Slots(t) \cup L
  <2>1. CASE InArray(t, k)
    BY <1>1, <1>4, <2>1 DEF Slots, InArray, Get
  <2>2. CASE ~InArray(t, k)
    <3>1. <<k, Get(t, k)>> \in Pairs(t)
      BY <1>4, <2>2, KeysAre, GetIs
    <3>2. PICK i \in Live(t) : k = t.node[i].key
      BY <3>1 DEF Pairs
    <3> QED BY <3>2
  <2> QED BY <2>1, <2>2
<1>5. Slots(t) \cup L \subseteq Fields(t)
  <2>1. ASSUME NEW k \in Slots(t) PROVE k \in Fields(t)
    BY <1>3 DEF Fields, Slots, Keys
  <2>2. ASSUME NEW i \in Live(t) PROVE t.node[i].key \in Fields(t)
    BY <1>2 DEF Fields, Live
  <2> QED BY <2>1, <2>2
<1>6. Fields(t) \subseteq Slots(t) \cup L
  BY <1>4 DEF Fields
<1>7. Slots(t) \cap L = {}
  BY <1>2, <1>3
<1> QED BY <1>2, <1>3, <1>5, <1>6, <1>7

(* How many there are.                                                     *)
LEMMA FieldsCount ==
  ASSUME NEW t, Good(t)
  PROVE  /\ IsFiniteSet(Fields(t)) /\ IsFiniteSet(Slots(t)) /\ IsFiniteSet(Live(t))
         /\ Cardinality(Fields(t)) = Cardinality(Slots(t)) + Cardinality(Live(t))
<1> DEFINE L == {t.node[i].key : i \in Live(t)}
<1>1. IsFiniteSet(DOMAIN t.node) /\ Live(t) \subseteq DOMAIN t.node
  BY DEF Good, Chained, Linked, Live
<1>2. IsFiniteSet(Live(t))
  BY <1>1, FS_Subset
<1>3. DOMAIN t.array = 1..Len(t.array) /\ Len(t.array) \in Nat
  BY NodesAre DEF Good, Typed
<1>4. IsFiniteSet(DOMAIN t.array) /\ Slots(t) \subseteq DOMAIN t.array
  BY <1>3, FS_Interval DEF Slots
<1>5. IsFiniteSet(Slots(t))
  BY <1>4, FS_Subset
<1> DEFINE f == [i \in Live(t) |-> t.node[i].key]
<1>6. \A i \in Live(t) : i \in DOMAIN t.node /\ ~t.node[i].dead /\ t.node[i].key # Nil
  BY DEF Good, Chained, Live
<1>7. \A i, j \in Live(t) : t.node[i].key = t.node[j].key => i = j
  BY <1>6 DEF Good, Chained, Unique
<1>8. f \in Bijection(Live(t), L)
  BY <1>7 DEF Bijection, Injection, Surjection, IsInjective
<1> HIDE DEF f, L
<1>9. IsFiniteSet(L) /\ Cardinality(L) = Cardinality(Live(t))
  <2>1. ExistsBijection(Live(t), L)
    BY <1>8 DEF ExistsBijection
  <2> QED BY <1>2, <2>1, FS_Bijection
<1>10. Slots(t) \cap L = {} /\ Fields(t) = Slots(t) \cup L
  BY FieldsAre DEF L
<1>11. /\ IsFiniteSet(Slots(t) \cup L)
       /\ Cardinality(Slots(t) \cup L) = Cardinality(Slots(t)) + Cardinality(L) - Cardinality(Slots(t) \cap L)
  BY <1>5, <1>9, FS_Union
<1>12. Cardinality({}) = 0 /\ Cardinality(Slots(t)) \in Nat /\ Cardinality(L) \in Nat
  BY <1>5, <1>9, FS_EmptySet, FS_CardinalityType
<1>13. Cardinality(Slots(t) \cup L) = Cardinality(Slots(t)) + Cardinality(L)
  <2>1. Cardinality(Slots(t) \cap L) = 0
    BY <1>10, <1>12, Zenon
  <2> QED BY <1>11, <1>12, <2>1
<1>14. IsFiniteSet(Fields(t)) /\ Cardinality(Fields(t)) = Cardinality(Slots(t) \cup L)
  BY <1>10, <1>11
<1> QED BY <1>2, <1>5, <1>9, <1>13, <1>14

(* What resize puts into the new vectors, in its order.                    *)
Moved(t, nasize) ==
  [i \in DOMAIN t.array |-> [key |-> i, val |-> IF i <= nasize THEN Nil ELSE t.array[i]]]
  \o [i \in 1..SizeNode(t) |-> t.node[SizeNode(t) - i]]
Fresh(t, nasize, nhsize) == SetNodeVector(SetArrayVector(t, nasize), nhsize)

LEMMA Concat ==
  ASSUME NEW X, NEW v \in Seq(X), NEW w \in Seq(X)
  PROVE  /\ Len(v \o w) = Len(v) + Len(w) /\ DOMAIN (v \o w) = 1..(Len(v) + Len(w))
         /\ \A i \in 1..Len(v) : (v \o w)[i] = v[i]
         /\ \A i \in (Len(v) + 1)..(Len(v) + Len(w)) : (v \o w)[i] = w[i - Len(v)]
OBVIOUS

\* A function on 1..n is a sequence over its own values.
LEMMA SeqOfOwn ==
  ASSUME NEW n \in Nat, NEW f, f = [i \in 1..n |-> f[i]]
  PROVE  f \in Seq({f[i] : i \in 1..n})
<1> DEFINE R == {f[i] : i \in 1..n}
<1>1. \A i \in 1..n : f[i] \in R
  OBVIOUS
<1> HIDE DEF R
<1>2. f \in [1..n -> R]
  BY <1>1, Zenon
<1>3. f \in Seq(R)
  BY <1>2
<1> QED BY <1>3 DEF R

LEMMA MovedIs ==
  ASSUME NEW t, Good(t), NEW nasize \in Nat
  PROVE  LET m == Moved(t, nasize)
         IN /\ Len(m) \in Nat /\ DOMAIN m = 1..Len(m)
            /\ \A l \in DOMAIN m : m[l].val # Nil =>
                 m[l].key \in Keys /\ m[l].val \in Values /\ Get(t, m[l].key) = m[l].val
            /\ \A k \in Fields(t) : (InArray(t, k) /\ k <= nasize) \/ \E l \in DOMAIN m : m[l].key = k /\ m[l].val # Nil
<1> DEFINE v == [i \in DOMAIN t.array |-> [key |-> i, val |-> IF i <= nasize THEN Nil ELSE t.array[i]]]
           w == [i \in 1..SizeNode(t) |-> t.node[SizeNode(t) - i]]
           m == Moved(t, nasize)
           size == SizeNode(t)
<1>1. /\ DOMAIN t.array = 1..Len(t.array) /\ Len(t.array) \in Nat /\ \A i \in DOMAIN t.node : t.node[i] \in NodeRecords
      /\ DOMAIN t.node = 0..(size - 1) /\ size \in Nat /\ \A i \in DOMAIN t.array : t.array[i] \in Values \cup {Nil}
  BY NodesAre, SizeIs DEF Good, Typed
<1>2. m = v \o w
  BY DEF Moved
<1> HIDE DEF m, size
<1> DEFINE n == Len(t.array)
<1>3. /\ Len(v) = n /\ Len(w) = size /\ n \in Nat
      /\ \A i \in 1..n : v[i] = [key |-> i, val |-> IF i <= nasize THEN Nil ELSE t.array[i]]
      /\ \A i \in 1..size : w[i] = t.node[size - i]
  BY <1>1 DEF size
<1>4. v \in Seq({v[i] : i \in 1..n}) /\ w \in Seq({w[i] : i \in 1..size})
  <2>1. v = [i \in 1..n |-> v[i]] /\ w = [i \in 1..size |-> w[i]]
    BY <1>1 DEF size
  <2>2. n \in Nat /\ size \in Nat
    BY <1>1
  <2> HIDE DEF v, w, n
  <2>3. v \in Seq({v[i] : i \in 1..n})
    BY <2>1, <2>2, SeqOfOwn
  <2>4. w \in Seq({w[i] : i \in 1..size})
    BY <2>1, <2>2, SeqOfOwn
  <2> QED BY <2>3, <2>4
<1> HIDE DEF v, w, n
<1>5. /\ Len(m) = n + size /\ DOMAIN m = 1..(n + size)
      /\ \A i \in 1..n : m[i] = v[i]
      /\ \A i \in (n + 1)..(n + size) : m[i] = w[i - n]
  <2> DEFINE X == {v[i] : i \in 1..n} \cup {w[i] : i \in 1..size}
  <2>1. v \in Seq(X) /\ w \in Seq(X)
    BY <1>4
  <2> HIDE DEF X
  <2>2. /\ Len(v \o w) = Len(v) + Len(w) /\ DOMAIN (v \o w) = 1..(Len(v) + Len(w))
        /\ \A i \in 1..Len(v) : (v \o w)[i] = v[i]
        /\ \A i \in (Len(v) + 1)..(Len(v) + Len(w)) : (v \o w)[i] = w[i - Len(v)]
    BY <2>1, Concat
  <2>3. /\ Len(m) = Len(v) + Len(w) /\ DOMAIN m = 1..(Len(v) + Len(w))
        /\ \A i \in 1..Len(v) : m[i] = v[i]
        /\ \A i \in (Len(v) + 1)..(Len(v) + Len(w)) : m[i] = w[i - Len(v)]
    BY <1>2, <2>2, Zenon
  <2>4. Len(v) = n /\ Len(w) = size
    BY <1>3
  <2> QED BY <2>3, <2>4, Zenon
<1>6. \A i \in 1..n : m[i].key = i /\ m[i].val = IF i <= nasize THEN Nil ELSE t.array[i]
  BY <1>3, <1>5
<1>7. \A i \in (n + 1)..(n + size) : m[i] = t.node[n + size - i] /\ n + size - i \in DOMAIN t.node
  <2> SUFFICES ASSUME NEW i \in (n + 1)..(n + size)
               PROVE  m[i] = t.node[n + size - i] /\ n + size - i \in DOMAIN t.node
    OBVIOUS
  <2>1. i - n \in 1..size /\ size - (i - n) = n + size - i /\ n + size - i \in 0..(size - 1)
    BY <1>1, <1>3
  <2> QED BY <2>1, <1>1, <1>3, <1>5
<1>8. ASSUME NEW l \in DOMAIN m, m[l].val # Nil
      PROVE  m[l].key \in Keys /\ m[l].val \in Values /\ Get(t, m[l].key) = m[l].val
  <2>1. CASE l \in 1..n
    <3>1. m[l].key = l /\ m[l].val = t.array[l] /\ l \in Slots(t)
      BY <1>1, <1>6, <1>8, <2>1 DEF Slots, n
    <3> QED BY <1>1, <1>8, <3>1, FieldsAre DEF Keys, Slots
  <2>2. CASE l \notin 1..n
    <3>1. l \in (n + 1)..(n + size)
      BY <1>1, <1>3, <1>5, <2>2
    <3> DEFINE i == n + size - l
    <3>2. m[l] = t.node[i] /\ i \in DOMAIN t.node
      BY <1>7, <3>1
    <3> HIDE DEF i
    <3>3. i \in Live(t)
      BY <1>8, <3>2 DEF Live
    <3> QED BY <1>1, <1>8, <3>2, <3>3, FieldsAre DEF NodeRecords
  <2> QED BY <2>1, <2>2
<1>9. ASSUME NEW k \in Fields(t)
      PROVE  (InArray(t, k) /\ k <= nasize) \/ \E l \in DOMAIN m : m[l].key = k /\ m[l].val # Nil
  <2>1. CASE k \in Slots(t)
    <3>1. k \in 1..n /\ t.array[k] # Nil /\ InArray(t, k)
      BY <1>1, <2>1 DEF Slots, n, InArray
    <3>2. k \in DOMAIN m /\ m[k].key = k /\ m[k].val = IF k <= nasize THEN Nil ELSE t.array[k]
      BY <1>1, <1>3, <1>5, <1>6, <3>1
    <3> QED BY <3>1, <3>2
  <2>2. CASE k \notin Slots(t)
    <3>1. PICK i \in Live(t) : k = t.node[i].key
      BY <2>2, FieldsAre
    <3>2. i \in 0..(size - 1) /\ t.node[i].val # Nil
      BY <1>1 DEF Live
    <3>3. n + size - i \in (n + 1)..(n + size) /\ n + size - (n + size - i) = i
      BY <1>1, <1>3, <3>2
    <3>4. n + size - i \in DOMAIN m /\ m[n + size - i] = t.node[i]
      BY <1>1, <1>3, <1>5, <1>7, <3>3
    <3> QED BY <3>1, <3>2, <3>4
  <2> QED BY <2>1, <2>2
<1>10. Len(m) \in Nat /\ DOMAIN m = 1..Len(m)
  BY <1>1, <1>3, <1>5
<1> QED BY <1>8, <1>9, <1>10 DEF m

(* One step of resize, and the tables between its steps.                   *)
Moving(m, l, u) == IF m[l].val = Nil THEN u ELSE Reinsert(u, m[l].key, m[l].val)
ResizeTrace(t, nasize, nhsize, W) ==
  LET m == Moved(t, nasize)
  IN /\ W[0] = Fresh(t, nasize, nhsize) /\ W[Len(m)] = Resize(t, nasize, nhsize)
     /\ \A l \in 1..Len(m) : W[l] = Moving(m, l, W[l - 1])
     /\ \A l \in 0..Len(m) : Good(W[l])

LEMMA ResizeSteps ==
  ASSUME NEW t, Good(t), NEW nasize \in Nat, NEW nhsize \in Nat
  PROVE  \E W : ResizeTrace(t, nasize, nhsize, W)
<1> DEFINE m == Moved(t, nasize)
           n == Len(m)
           base == Fresh(t, nasize, nhsize)
           M == {u \in Tables : Good(u)}
           F == [p \in M \X (1..n) |-> Moving(m, p[2], p[1])]
           Eq(V) == V = [s \in SUBSET (1..n) |-> IF s = {} THEN base
                                                 ELSE IF m[Max(s)].val = Nil THEN V[s \ {Max(s)}]
                                                      ELSE Reinsert(V[s \ {Max(s)}], m[Max(s)].key, m[Max(s)].val)]
           U == CHOOSE V : Eq(V)
<1>1. /\ n \in Nat /\ DOMAIN m = 1..n
      /\ \A l \in 1..n : m[l].val # Nil => m[l].key \in Keys /\ m[l].val \in Values
  BY MovedIs
<1>2. \A u : u \in M <=> Good(u)
  BY DEF Good, Typed
<1>3. base \in M
  <2>1. t \in Tables /\ hash \in Hashes /\ \A i \in DOMAIN t.array : t.array[i] # Nil => i \in Ints
    BY DEF Good, Typed, Filled
  <2>2. Emptied(t, base, nasize, nhsize)
    BY <2>1, FreshIs DEF Fresh
  <2> QED BY <1>2, <2>2 DEF Emptied
<1>4. Resize(t, nasize, nhsize) = U[1..n]
  BY <1>1 DEF Resize, FoldLeft, MapThenFoldSet, Moved, Fresh
<1> HIDE DEF m, base, M, U
<1>5. \A x \in M, i \in 1..n : F[<<x, i>>] = Moving(m, i, x)
  OBVIOUS
<1> HIDE DEF F, n
<1>6. ASSUME NEW x \in M, NEW i \in 1..n PROVE F[<<x, i>>] \in M
  <2>1. CASE m[i].val = Nil
    BY <1>5, <2>1 DEF Moving
  <2>2. CASE m[i].val # Nil
    <3>1. Reinserted(x, Reinsert(x, m[i].key, m[i].val), m[i].key, m[i].val)
      BY <1>1, <1>2, <2>2, ReinsertIs
    <3> QED BY <1>2, <1>5, <2>2, <3>1 DEF Moving, Reinserted
  <2> QED BY <2>1, <2>2
<1>7. PICK V \in [SUBSET (1..n) -> M] : IsFold(V, base, n, F)
  BY <1>1, <1>3, <1>6, FoldExists
<1>8. \A s \in SUBSET (1..n) : s # {} => V[s \ {Max(s)}] \in M /\ Max(s) \in 1..n
  BY <1>1, MaxIn
<1>9. Eq(V)
  BY <1>5, <1>7, <1>8 DEF IsFold, Moving
<1>10. Eq(U)
  BY <1>9, Zenon DEF U
<1>11. U[{}] = base
  BY <1>10
<1>12. \A s \in SUBSET (1..n) : s # {} => Max(s) \in 1..n
  BY <1>8
<1>13. \A s \in SUBSET (1..n) : s # {} => U[s] = Moving(m, Max(s), U[s \ {Max(s)}])
  BY <1>10 DEF Moving
<1>14. \A s \in SUBSET (1..n) : s # {} /\ U[s \ {Max(s)}] \in M => U[s] = F[<<U[s \ {Max(s)}], Max(s)>>]
  <2> HIDE DEF Eq
  <2> QED BY <1>5, <1>12, <1>13
<1> HIDE DEF Eq
<1>15. PICK W : IsTrace(W, U, base, n, F, M)
  BY <1>1, <1>3, <1>6, <1>11, <1>14, FoldTrace
<1>16. /\ W[0] = base /\ W[n] = Resize(t, nasize, nhsize)
       /\ (\A l \in 1..n : W[l] = F[<<W[l - 1], l>>]) /\ \A l \in 0..n : W[l] \in M
  BY <1>4, <1>15 DEF IsTrace
<1>17. \A l \in 1..n : l - 1 \in 0..n
  BY <1>1
<1>18. \A l \in 1..n : W[l] = Moving(m, l, W[l - 1])
  BY <1>5, <1>16, <1>17
<1> QED BY <1>2, <1>16, <1>18 DEF ResizeTrace, base, n, m

(* What hash values a key that a table has no value for.                   *)
LEMMA FieldKeys ==
  ASSUME NEW t, Good(t), NEW j \in Hashable, Get(t, j) # Nil
  PROVE  j \in Fields(t)
<1>1. CASE InArray(t, j)
  <2>1. j \in Slots(t)
    BY <1>1, NodesAre DEF Good, Typed, Slots, InArray, Get
  <2> QED BY <2>1, FieldsAre
<1>2. CASE ~InArray(t, j)
  <2>1. <<j, Get(t, j)>> \in Pairs(t)
    BY <1>2, GetIs
  <2>2. PICK i \in Live(t) : j = t.node[i].key
    BY <2>1 DEF Pairs
  <2> QED BY <2>2, FieldsAre
<1> QED BY <1>1, <1>2

LEMMA NothingUsed ==
  ASSUME NEW u, Good(u), Used(u) = {}, NEW j \in Hashable, ~InArray(u, j)
  PROVE  Get(u, j) = Nil
<1>1. Live(u) = {}
  <2> SUFFICES ASSUME NEW i \in Live(u) PROVE FALSE
    OBVIOUS
  <2>1. i \in DOMAIN u.node /\ u.node[i].val # Nil
    BY DEF Live
  <2>2. u.node[i].key # Nil
    BY <2>1 DEF Good, Chained
  <2> QED BY <2>1, <2>2 DEF Used
<1>2. Pairs(u) = {}
  BY <1>1 DEF Pairs
<1> QED BY <1>2, GetIs

(* The keys that resize has reinserted.                                    *)
Done(m, l) == {m[i].key : i \in {i \in 1..l : m[i].val # Nil}}
Halfway(t, u, m, l, nasize, nhsize) ==
  /\ ~u.full /\ Len(u.array) = nasize /\ SizeNode(u) >= nhsize /\ (u.dummy => nhsize = 0)
  /\ \A j \in Hashable : j \in Done(m, l) \/ j \notin Done(m, Len(m)) => Get(u, j) = Get(t, j)
  /\ Cardinality(Used(u)) <= Cardinality(Done(m, l) \ (1..nasize))
(* The hash part that resize is asked for has room for what goes there.    *)
Room(t, nasize, nhsize) == ~t.full /\ Cardinality(Fields(t) \ (1..nasize)) <= nhsize

LEMMA DoneIs ==
  ASSUME NEW t, Good(t), NEW nasize \in Nat, NEW l \in 0..Len(Moved(t, nasize))
  PROVE  LET m == Moved(t, nasize)
         IN /\ Done(m, l) \subseteq Fields(t)
            /\ IsFiniteSet(Done(m, l) \ (1..nasize))
            /\ Cardinality(Done(m, l) \ (1..nasize)) <= Cardinality(Fields(t) \ (1..nasize))
            /\ Cardinality(Done(m, l) \ (1..nasize)) \in Nat
<1> DEFINE m == Moved(t, nasize)
<1>1. /\ DOMAIN m = 1..Len(m) /\ Len(m) \in Nat
      /\ \A i \in DOMAIN m : m[i].val # Nil => m[i].key \in Keys /\ m[i].val \in Values /\ Get(t, m[i].key) = m[i].val
  BY MovedIs
<1> HIDE DEF m
<1>2. \A i \in 1..l : i \in DOMAIN m
  BY <1>1 DEF m
<1>3. Done(m, l) \subseteq Fields(t)
  BY <1>1, <1>2 DEF Done, Fields
<1>4. IsFiniteSet(Fields(t) \ (1..nasize))
  BY FieldsCount, FS_Subset
<1>5. Done(m, l) \ (1..nasize) \in SUBSET (Fields(t) \ (1..nasize))
  BY <1>3
<1> QED BY <1>3, <1>4, <1>5, FS_Subset, FS_CardinalityType DEF m

LEMMA StartsOut ==
  ASSUME NEW t, Good(t), NEW nasize \in Nat, NEW nhsize \in Nat, Room(t, nasize, nhsize)
  PROVE  Halfway(t, Fresh(t, nasize, nhsize), Moved(t, nasize), 0, nasize, nhsize)
<1> DEFINE u == Fresh(t, nasize, nhsize)
           m == Moved(t, nasize)
<1>1. Emptied(t, u, nasize, nhsize)
  <2>1. t \in Tables /\ hash \in Hashes /\ \A i \in DOMAIN t.array : t.array[i] # Nil => i \in Ints
    BY DEF Good, Typed, Filled
  <2> QED BY <2>1, FreshIs DEF Fresh
<1>2. Len(m) \in Nat /\ \A k \in Fields(t) : (InArray(t, k) /\ k <= nasize) \/ k \in Done(m, Len(m))
  <2>1. /\ Len(m) \in Nat /\ DOMAIN m = 1..Len(m)
        /\ \A k \in Fields(t) : (InArray(t, k) /\ k <= nasize) \/ \E l \in DOMAIN m : m[l].key = k /\ m[l].val # Nil
    BY MovedIs
  <2> HIDE DEF m
  <2> QED BY <2>1 DEF Done
<1> HIDE DEF u, m
<1>3. Done(m, 0) = {}
  BY DEF Done
<1>4. /\ Good(u) /\ Len(u.array) = nasize /\ u.full = t.full /\ u.dummy = (nhsize = 0)
      /\ \A i \in 1..nasize : u.array[i] = IF i <= Len(t.array) THEN t.array[i] ELSE Nil
      /\ Used(u) = {} /\ SizeNode(u) >= nhsize
  BY <1>1 DEF Emptied
<1>5. DOMAIN t.array = 1..Len(t.array) /\ Len(t.array) \in Nat
  BY NodesAre DEF Good, Typed
<1>6. ASSUME NEW j \in Hashable, j \notin Done(m, Len(m)) PROVE Get(u, j) = Get(t, j)
  <2>1. Get(t, j) # Nil => InArray(t, j) /\ j <= nasize
    BY <1>2, <1>6, FieldKeys
  <2>2. CASE InArray(u, j)
    <3>1. j \in 1..nasize /\ Get(u, j) = u.array[j]
      BY <1>4, <2>2 DEF InArray, Get
    <3>2. CASE InArray(t, j)
      BY <1>4, <3>1, <3>2 DEF InArray, Get
    <3>3. CASE ~InArray(t, j)
      BY <1>4, <1>5, <2>1, <3>1, <3>3 DEF InArray
    <3> QED BY <3>2, <3>3
  <2>3. CASE ~InArray(u, j)
    <3>1. Get(u, j) = Nil
      BY <1>4, <2>3, NothingUsed
    <3>2. ~(InArray(t, j) /\ j <= nasize)
      BY <1>4, <1>5, <2>3 DEF InArray
    <3> QED BY <2>1, <3>1, <3>2
  <2> QED BY <2>2, <2>3
<1>7. Cardinality(Used(u)) <= Cardinality(Done(m, 0) \ (1..nasize))
  <2>1. Done(m, 0) \ (1..nasize) = Used(u)
    BY <1>3, <1>4
  <2>2. Cardinality(Used(u)) = 0
    BY <1>4, FS_EmptySet
  <2> QED BY <2>1, <2>2
<1>8. ~u.full /\ (u.dummy => nhsize = 0)
  BY <1>4 DEF Room
<1>9. Halfway(t, u, m, 0, nasize, nhsize)
  BY <1>3, <1>4, <1>6, <1>7, <1>8 DEF Halfway
<1> QED BY <1>9 DEF u, m

LEMMA DoneNext ==
  ASSUME NEW m, Len(m) \in Nat, NEW l \in 1..Len(m)
  PROVE  Done(m, l) = IF m[l].val = Nil THEN Done(m, l - 1) ELSE Done(m, l - 1) \cup {m[l].key}
<1> DEFINE Steps(i) == {j \in 1..i : m[j].val # Nil}
<1>1. Steps(l) = IF m[l].val = Nil THEN Steps(l - 1) ELSE Steps(l - 1) \cup {l}
  <2>1. \A j : j \in 1..l <=> (j \in 1..(l - 1) \/ j = l)
    OBVIOUS
  <2> QED BY <2>1
<1>2. Done(m, l) = {m[i].key : i \in Steps(l)} /\ Done(m, l - 1) = {m[i].key : i \in Steps(l - 1)}
  BY DEF Done
<1> HIDE DEF Steps
<1> QED BY <1>1, <1>2

LEMMA HasValue ==
  ASSUME NEW u, NEW k, Get(u, k) # Nil
  PROVE  Has(u, k)
BY DEF Get, Has

LEMMA UsedFinite ==
  ASSUME NEW u, Good(u)
  PROVE  /\ IsFiniteSet(Used(u)) /\ Cardinality(Used(u)) \in Nat /\ SizeNode(u) \in Nat
         /\ IsFiniteSet(DOMAIN u.node) /\ Cardinality(DOMAIN u.node) = SizeNode(u)
<1>1. DOMAIN u.node = 0..(SizeNode(u) - 1) /\ SizeNode(u) \in Nat /\ SizeNode(u) >= 1
  BY SizeIs, NodesAre DEF Good, Typed
<1>2. IsFiniteSet(DOMAIN u.node) /\ Cardinality(DOMAIN u.node) = SizeNode(u)
  BY <1>1, FS_Interval
<1>3. Used(u) \in SUBSET (DOMAIN u.node)
  BY DEF Used
<1> QED BY <1>1, <1>2, <1>3, FS_Subset, FS_CardinalityType

LEMMA MovesOn ==
  ASSUME NEW t, Good(t), NEW nasize \in Nat, NEW nhsize \in Nat, Room(t, nasize, nhsize),
         NEW l \in 1..Len(Moved(t, nasize)), NEW u, Good(u),
         Halfway(t, u, Moved(t, nasize), l - 1, nasize, nhsize)
  PROVE  Halfway(t, Moving(Moved(t, nasize), l, u), Moved(t, nasize), l, nasize, nhsize)
<1> DEFINE m == Moved(t, nasize)
           w == Moving(m, l, u)
           k == m[l].key
           v == m[l].val
           array == 1..nasize
           before == Cardinality(Done(m, l - 1) \ array)
           after == Cardinality(Done(m, l) \ array)
           all == Cardinality(Fields(t) \ array)
<1>1. /\ Len(m) \in Nat /\ DOMAIN m = 1..Len(m)
      /\ v # Nil => k \in Keys /\ v \in Values /\ Get(t, k) = v
  BY MovedIs
<1>2. l - 1 \in 0..Len(m) /\ l \in 0..Len(m)
  BY <1>1
<1>3. /\ IsFiniteSet(Done(m, l - 1) \ array) /\ before \in Nat
      /\ IsFiniteSet(Done(m, l) \ array) /\ after <= all /\ after \in Nat
  BY <1>2, DoneIs
<1>4. all \in Nat /\ all <= nhsize /\ ~t.full
  BY FieldsCount, FS_Subset, FS_CardinalityType DEF Room
<1>5. Done(m, l) = IF v = Nil THEN Done(m, l - 1) ELSE Done(m, l - 1) \cup {k}
  BY <1>1, DoneNext
<1>6. /\ ~u.full /\ Len(u.array) = nasize /\ SizeNode(u) >= nhsize /\ (u.dummy => nhsize = 0)
      /\ \A j \in Hashable : j \in Done(m, l - 1) \/ j \notin Done(m, Len(m)) => Get(u, j) = Get(t, j)
      /\ Cardinality(Used(u)) <= before
  BY DEF Halfway
<1>7. w = IF v = Nil THEN u ELSE Reinsert(u, k, v)
  BY DEF Moving
<1> HIDE DEF m, w, k, v
<1>8. CASE v = Nil
  <2>1. w = u /\ Done(m, l) = Done(m, l - 1)
    BY <1>5, <1>7, <1>8
  <2>2. Halfway(t, w, m, l, nasize, nhsize)
    BY <1>6, <2>1 DEF Halfway
  <2> QED BY <2>2 DEF m, w
<1>9. CASE v # Nil
  <2>1. Reinserted(u, w, k, v) /\ k \in Keys /\ Get(t, k) = v /\ k \in Hashable
    BY <1>1, <1>7, <1>9, ReinsertIs, KeysAre
  <2>2. /\ Good(w) /\ Len(w.array) = nasize /\ SizeNode(w) = SizeNode(u) /\ w.dummy = u.dummy
        /\ (~w.full => Get(w, k) = v /\ \A j \in Hashable : j # k => Get(w, j) = Get(u, j))
        /\ (w.full => ~Has(u, k) /\ (u.dummy \/ Used(u) = DOMAIN u.node))
        /\ (Has(u, k) => Used(w) = Used(u))
        /\ \E x \in DOMAIN u.node : Used(w) \subseteq Used(u) \cup {x}
    BY <1>6, <2>1 DEF Reinserted, SizeNode
  <2>3. Done(m, l) = Done(m, l - 1) \cup {k}
    BY <1>5, <1>9
  <2>4. ASSUME ~Has(u, k) PROVE after = before + 1
    <3>1. k \notin Done(m, l - 1)
      BY <1>6, <1>9, <2>1, <2>4, HasValue
    <3>2. k \notin array
      BY <1>6, <2>4 DEF Has, InArray
    <3>3. Done(m, l) \ array = (Done(m, l - 1) \ array) \cup {k} /\ k \notin Done(m, l - 1) \ array
      BY <2>3, <3>1, <3>2
    <3> HIDE DEF array
    <3> QED BY <1>3, <3>3, FS_AddElement
  <2>5. before <= after
    <3>1. Done(m, l - 1) \ array \in SUBSET (Done(m, l) \ array)
      BY <2>3
    <3> HIDE DEF array
    <3> QED BY <1>3, <3>1, FS_Subset
  <2> HIDE DEF before, after, all, array
  <2>6. ASSUME w.full PROVE FALSE
    <3>1. after = before + 1 /\ before < nhsize
      BY <1>3, <1>4, <2>2, <2>4, <2>6
    <3>2. ~u.dummy
      BY <1>3, <1>6, <3>1
    <3>3. Cardinality(Used(u)) = SizeNode(u)
      BY <2>2, <2>6, <3>2, UsedFinite
    <3> QED BY <1>3, <1>6, <3>1, <3>3, UsedFinite
  <2>7. Cardinality(Used(w)) <= after
    <3>1. CASE Has(u, k)
      BY <1>3, <1>6, <2>2, <2>5, <3>1, UsedFinite
    <3>2. CASE ~Has(u, k)
      <4>1. PICK x \in DOMAIN u.node : Used(w) \subseteq Used(u) \cup {x}
        BY <2>2
      <4>2. /\ IsFiniteSet(Used(u) \cup {x}) /\ Cardinality(Used(u) \cup {x}) \in Nat
            /\ Cardinality(Used(u) \cup {x}) <= Cardinality(Used(u)) + 1
        <5>1. IsFiniteSet(Used(u)) /\ Cardinality(Used(u)) \in Nat
          BY UsedFinite
        <5>2. /\ IsFiniteSet(Used(u) \cup {x})
              /\ Cardinality(Used(u) \cup {x}) = IF x \in Used(u) THEN Cardinality(Used(u)) ELSE Cardinality(Used(u)) + 1
          BY <5>1, FS_AddElement
        <5>3. Cardinality(Used(u) \cup {x}) \in Nat
          BY <5>2, FS_CardinalityType
        <5> QED BY <5>1, <5>2, <5>3
      <4>3. Cardinality(Used(w)) <= Cardinality(Used(u) \cup {x})
        BY <4>1, <4>2, FS_Subset
      <4>4. Cardinality(Used(w)) \in Nat /\ Cardinality(Used(u)) \in Nat
        BY <2>2, UsedFinite
      <4> QED BY <1>3, <1>6, <2>4, <3>2, <4>2, <4>3, <4>4
    <3> QED BY <3>1, <3>2
  <2>8. ASSUME NEW j \in Hashable, j \in Done(m, l) \/ j \notin Done(m, Len(m)) PROVE Get(w, j) = Get(t, j)
    <3>1. CASE j = k
      BY <2>1, <2>2, <2>6, <3>1
    <3>2. CASE j # k
      BY <1>6, <2>2, <2>3, <2>6, <2>8, <3>2
    <3> QED BY <3>1, <3>2
  <2>9. ~w.full /\ SizeNode(w) >= nhsize /\ (w.dummy => nhsize = 0)
    BY <1>6, <2>2, <2>6
  <2>10. Halfway(t, w, m, l, nasize, nhsize)
    BY <2>2, <2>7, <2>8, <2>9 DEF Halfway, after, array
  <2> QED BY <2>10 DEF m, w
<1> QED BY <1>8, <1>9

(* A resize to where there is room keeps every value.                      *)
Resized(t, u, nasize, nhsize) ==
  /\ Good(u) /\ ~u.full /\ Len(u.array) = nasize /\ SizeNode(u) >= nhsize /\ (u.dummy => nhsize = 0)
  /\ \A j \in Hashable : Get(u, j) = Get(t, j)
  /\ Cardinality(Used(u)) <= Cardinality(Fields(t) \ (1..nasize))

LEMMA ResizeIs ==
  ASSUME NEW t, Good(t), NEW nasize \in Nat, NEW nhsize \in Nat, Room(t, nasize, nhsize)
  PROVE  Resized(t, Resize(t, nasize, nhsize), nasize, nhsize)
<1> DEFINE m == Moved(t, nasize)
           n == Len(m)
<1>1. n \in Nat
  BY MovedIs
<1>2. PICK W : ResizeTrace(t, nasize, nhsize, W)
  BY ResizeSteps
<1>3. /\ W[0] = Fresh(t, nasize, nhsize) /\ W[n] = Resize(t, nasize, nhsize)
      /\ (\A l \in 1..n : W[l] = Moving(m, l, W[l - 1])) /\ \A l \in 0..n : Good(W[l])
  BY <1>2 DEF ResizeTrace
<1> DEFINE Steps == {l \in 0..n : Halfway(t, W[l], m, l, nasize, nhsize)}
<1>4. 0 \in Steps
  BY <1>1, <1>3, StartsOut
<1>5. ASSUME NEW l \in 1..n, l - 1 \in Steps PROVE l \in Steps
  <2>1. l - 1 \in 0..n /\ l \in 0..n
    BY <1>1
  <2>2. Good(W[l - 1]) /\ Halfway(t, W[l - 1], m, l - 1, nasize, nhsize) /\ W[l] = Moving(m, l, W[l - 1])
    BY <1>3, <1>5, <2>1
  <2>3. Halfway(t, W[l], m, l, nasize, nhsize)
    BY <2>2, MovesOn
  <2> QED BY <2>1, <2>3
<1> HIDE DEF Steps
<1>6. n \in Steps
  <2>1. \A l \in 0..n : l \in Steps
    BY <1>1, <1>4, <1>5, Induct
  <2>2. n \in 0..n
    BY <1>1
  <2> QED BY <2>1, <2>2
<1>7. Halfway(t, W[n], m, n, nasize, nhsize) /\ Good(W[n]) /\ n \in 0..n
  BY <1>1, <1>3, <1>6 DEF Steps
<1>8. /\ IsFiniteSet(Done(m, n) \ (1..nasize)) /\ Cardinality(Done(m, n) \ (1..nasize)) \in Nat
      /\ Cardinality(Done(m, n) \ (1..nasize)) <= Cardinality(Fields(t) \ (1..nasize))
  BY <1>7, DoneIs
<1>9. Cardinality(Fields(t) \ (1..nasize)) \in Nat /\ Cardinality(Used(W[n])) \in Nat
  BY <1>7, FieldsCount, FS_Subset, FS_CardinalityType, UsedFinite
<1> DEFINE c == Cardinality(Done(m, n) \ (1..nasize))
           all == Cardinality(Fields(t) \ (1..nasize))
           r == Resize(t, nasize, nhsize)
<1>10. /\ ~r.full /\ Len(r.array) = nasize /\ SizeNode(r) >= nhsize /\ (r.dummy => nhsize = 0)
       /\ \A j \in Hashable : Get(r, j) = Get(t, j)
       /\ Cardinality(Used(r)) <= c
  BY <1>3, <1>7 DEF Halfway
<1>11. Good(r) /\ Cardinality(Used(r)) \in Nat
  BY <1>3, <1>7, <1>9
<1>12. Cardinality(Used(r)) <= all
  BY <1>8, <1>9, <1>10, <1>11
<1> HIDE DEF r
<1> QED BY <1>10, <1>11, <1>12 DEF Resized, r
-----------------------------------------------------------------------------
(* computesizes. Powers of two, again: the sets of n + 1 are those of n,   *)
(* with and without n + 1.                                                 *)
LEMMA Doubled ==
  ASSUME NEW n \in Nat
  PROVE  2^(n + 1) = 2 * 2^n
<1> DEFINE S == SUBSET (1..n)
           T == {s \cup {n + 1} : s \in S}
           f == [s \in S |-> s \cup {n + 1}]
<1>1. /\ IsFiniteSet(1..n) /\ Cardinality(1..n) = n
      /\ IsFiniteSet(1..(n + 1)) /\ Cardinality(1..(n + 1)) = n + 1
  BY FS_Interval
<1>2. IsFiniteSet(S) /\ Cardinality(S) = 2^n /\ Cardinality(SUBSET (1..(n + 1))) = 2^(n + 1)
  BY <1>1, FS_SUBSET
<1>3. n + 1 \notin 1..n
  OBVIOUS
<1>4. f \in Bijection(S, T)
  <2>1. \A s, r \in S : s \cup {n + 1} = r \cup {n + 1} => s = r
    <3> SUFFICES ASSUME NEW s \in S, NEW r \in S, s \cup {n + 1} = r \cup {n + 1} PROVE s = r
      OBVIOUS
    <3>1. s = (s \cup {n + 1}) \ {n + 1} /\ r = (r \cup {n + 1}) \ {n + 1}
      BY <1>3
    <3> QED BY <3>1
  <2>2. f \in [S -> T] /\ \A s \in S : f[s] = s \cup {n + 1}
    OBVIOUS
  <2>3. \A y \in T : \E s \in S : y = f[s]
    BY <2>2
  <2> HIDE DEF S, T, f
  <2>4. \A s, r \in S : f[s] = f[r] => s = r
    BY <2>1, <2>2
  <2>5. f \in Injection(S, T)
    BY <2>2, <2>4 DEF Injection, IsInjective
  <2>6. f \in Surjection(S, T)
    BY <2>2, <2>3 DEF Surjection
  <2> QED BY <2>5, <2>6 DEF Bijection
<1>5. IsFiniteSet(T) /\ Cardinality(T) = Cardinality(S)
  <2>1. ExistsBijection(S, T)
    BY <1>4 DEF ExistsBijection
  <2> HIDE DEF S, T
  <2> QED BY <1>2, <2>1, FS_Bijection
<1>6. S \cap T = {}
  BY <1>3
<1>7. SUBSET (1..(n + 1)) = S \cup T
  <2>1. 1..(n + 1) = (1..n) \cup {n + 1}
    OBVIOUS
  <2>2. ASSUME NEW s \in SUBSET (1..(n + 1)) PROVE s \in S \cup T
    <3>1. CASE n + 1 \in s
      <4>1. s \ {n + 1} \in S /\ s = (s \ {n + 1}) \cup {n + 1}
        BY <2>1, <3>1
      <4> QED BY <4>1
    <3>2. CASE n + 1 \notin s
      BY <2>1, <3>2
    <3> QED BY <3>1, <3>2
  <2>3. ASSUME NEW s \in S \cup T PROVE s \in SUBSET (1..(n + 1))
    BY <2>1
  <2> HIDE DEF S, T
  <2> QED BY <2>2, <2>3
<1> DEFINE P == SUBSET (1..(n + 1))
<1> HIDE DEF S, T, P
<1>8. Cardinality(S \cup T) = Cardinality(S) + Cardinality(T) - Cardinality(S \cap T)
  BY <1>2, <1>5, FS_Union
<1>9. Cardinality(S \cap T) = 0
  BY <1>6, FS_EmptySet
<1>10. Cardinality(S) \in Nat
  BY <1>2, FS_CardinalityType
<1>11. Cardinality(P) = Cardinality(S \cup T) /\ Cardinality(P) = 2^(n + 1)
  BY <1>2, <1>7 DEF P
<1> QED BY <1>2, <1>5, <1>8, <1>9, <1>10, <1>11

LEMMA Grows ==
  ASSUME NEW i \in Nat, NEW j \in Nat
  PROVE  /\ i <= j => 2^i <= 2^j
         /\ i < j => 2 * 2^i <= 2^j
<1>1. ASSUME NEW m \in Nat, NEW n \in Nat, m <= n PROVE 2^m <= 2^n
  <2>1. IsFiniteSet(1..m) /\ Cardinality(1..m) = m /\ IsFiniteSet(1..n) /\ Cardinality(1..n) = n
    BY FS_Interval
  <2>2. Cardinality(SUBSET (1..m)) = 2^m /\ IsFiniteSet(SUBSET (1..n)) /\ Cardinality(SUBSET (1..n)) = 2^n
    BY <2>1, FS_SUBSET
  <2>3. SUBSET (1..m) \subseteq SUBSET (1..n)
    BY <1>1
  <2>4. Cardinality(SUBSET (1..m)) <= Cardinality(SUBSET (1..n))
    BY <2>2, <2>3, FS_Subset
  <2> QED BY <2>2, <2>4
<1>2. ASSUME i < j PROVE 2 * 2^i <= 2^j
  <2>1. i + 1 \in Nat /\ i + 1 <= j
    BY <1>2
  <2> QED BY <1>1, <2>1, Doubled
<1> QED BY <1>1, <1>2

(* The slices.                                                             *)
LEMMA Slices ==
  ASSUME NEW j \in Nat, NEW i \in Nat
  PROVE  CeilLog2(j) <= i <=> j <= 2^i
<1>1. /\ CeilLog2(j) \in Nat /\ 2^CeilLog2(j) \in Nat /\ 2^CeilLog2(j) >= j
      /\ \A n \in 0..(CeilLog2(j) - 1) : 2^n < j
  BY CeilLog
<1>2. 2^i \in Nat
  BY TwoTo
<1>3. CASE CeilLog2(j) <= i
  BY <1>1, <1>2, <1>3, Grows
<1>4. CASE ~(CeilLog2(j) <= i)
  <2>1. i \in 0..(CeilLog2(j) - 1)
    BY <1>1, <1>4
  <2> QED BY <1>1, <1>2, <1>4, <2>1
<1> QED BY <1>3, <1>4

(* The keys of the slices before i.                                        *)
Below(keys, i) == {j \in keys : CeilLog2(j) < i}
Indices(keys) == IsFiniteSet(keys) /\ \A j \in keys : j \in Nat /\ j >= 1

LEMMA BelowIs ==
  ASSUME NEW keys, Indices(keys), NEW i \in Nat
  PROVE  /\ IsFiniteSet(Below(keys, i)) /\ Cardinality(Below(keys, i)) \in Nat
         /\ Cardinality(Below(keys, i)) <= Cardinality(keys) /\ Cardinality(keys) \in Nat
         /\ Cardinality(Below(keys, i)) = Cardinality(keys) => Below(keys, i) = keys
         /\ Below(keys, i + 1) = {j \in keys : j <= 2^i}
         /\ Cardinality(Below(keys, i + 1)) <= 2^i
         /\ i \in 0..MaxBits => /\ Nums(keys)[i] \in Nat
                                /\ Cardinality(Below(keys, i + 1)) = Cardinality(Below(keys, i)) + Nums(keys)[i]
<1>1. IsFiniteSet(keys) /\ \A j \in keys : j \in Nat /\ j >= 1
  BY DEF Indices
<1>2. \A n : Below(keys, n) \in SUBSET keys
  BY DEF Below
<1>3. /\ IsFiniteSet(Below(keys, i)) /\ Cardinality(Below(keys, i)) \in Nat
      /\ Cardinality(Below(keys, i)) <= Cardinality(keys) /\ Cardinality(keys) \in Nat
      /\ (Cardinality(Below(keys, i)) = Cardinality(keys) => Below(keys, i) = keys)
  BY <1>1, <1>2, FS_Subset, FS_CardinalityType
<1>4. \A j \in keys : CeilLog2(j) \in Nat
  BY <1>1, CeilLog
<1>5. Below(keys, i + 1) = {j \in keys : j <= 2^i}
  <2>1. \A j \in keys : CeilLog2(j) < i + 1 <=> j <= 2^i
    BY <1>1, <1>4, Slices
  <2> QED BY <2>1 DEF Below
<1>6. Cardinality(Below(keys, i + 1)) <= 2^i
  <2>1. 2^i \in Nat
    BY TwoTo
  <2>2. Below(keys, i + 1) \in SUBSET (1..2^i)
    BY <1>1, <1>5, <2>1
  <2>3. IsFiniteSet(1..2^i) /\ Cardinality(1..2^i) = 2^i
    BY <2>1, FS_Interval
  <2> QED BY <2>2, <2>3, FS_Subset
<1>7. ASSUME i \in 0..MaxBits
      PROVE  /\ Nums(keys)[i] \in Nat
             /\ Cardinality(Below(keys, i + 1)) = Cardinality(Below(keys, i)) + Nums(keys)[i]
  <2> DEFINE s == {j \in keys : CeilLog2(j) = i}
  <2>1. Nums(keys)[i] = Cardinality(s)
    BY <1>7 DEF Nums
  <2>2. s \in SUBSET keys
    OBVIOUS
  <2>3. Below(keys, i + 1) = Below(keys, i) \cup s /\ Below(keys, i) \cap s = {}
    BY <1>4 DEF Below
  <2> HIDE DEF s
  <2>4. IsFiniteSet(s) /\ Cardinality(s) \in Nat
    BY <1>1, <2>2, FS_Subset, FS_CardinalityType
  <2>5. Cardinality(Below(keys, i) \cup s)
          = Cardinality(Below(keys, i)) + Cardinality(s) - Cardinality(Below(keys, i) \cap s)
    BY <1>3, <2>4, FS_Union
  <2>6. Cardinality(Below(keys, i) \cap s) = 0
    BY <2>3, FS_EmptySet, Zenon
  <2>7. Cardinality(Below(keys, i + 1)) = Cardinality(Below(keys, i) \cup s)
    BY <2>3
  <2> QED BY <1>3, <2>1, <2>4, <2>5, <2>6, <2>7
<1> QED BY <1>3, <1>5, <1>6, <1>7

(* One step of computesizes.                                               *)
SizeRecords == [a : Nat, n : Nat, na : Nat, over : BOOLEAN]
Sizing(nums, narray, s, i) ==
  LET a == s.a + nums[i]
      more == nums[i] > 0 /\ 2 * a > 2^i
  IN IF s.over \/ 2^i >= 2 * narray THEN s
     ELSE [a |-> a, over |-> a = narray, n |-> IF more THEN 2^i ELSE s.n, na |-> IF more THEN a ELSE s.na]
SizesTrace(nums, narray, W) ==
  /\ W[0] = [a |-> 0, n |-> 0, na |-> 0, over |-> FALSE] /\ W[MaxBits + 1] = ComputeSizes(nums, narray)
  /\ \A l \in 1..(MaxBits + 1) : W[l] = Sizing(nums, narray, W[l - 1], l - 1)
  /\ \A l \in 0..(MaxBits + 1) : W[l] \in SizeRecords

LEMMA SizesSteps ==
  ASSUME NEW nums, \A i \in 0..MaxBits : nums[i] \in Nat, NEW narray \in Nat
  PROVE  \E W : SizesTrace(nums, narray, W)
<1> DEFINE n == MaxBits + 1
           base == [a |-> 0, n |-> 0, na |-> 0, over |-> FALSE]
           M == SizeRecords
           step(s, i) == LET a == s.a + nums[i]
                             more == nums[i] > 0 /\ 2 * a > 2^i
                         IN IF s.over \/ 2^i >= 2 * narray THEN s
                            ELSE [a |-> a, over |-> a = narray,
                                  n |-> IF more THEN 2^i ELSE s.n, na |-> IF more THEN a ELSE s.na]
           F == [p \in M \X (1..n) |-> Sizing(nums, narray, p[1], p[2] - 1)]
           list == [i \in 1..(MaxBits + 1) |-> i - 1]
           Eq(V) == V = [s \in SUBSET (1..n) |-> IF s = {} THEN base ELSE step(V[s \ {Max(s)}], list[Max(s)])]
           U == CHOOSE V : Eq(V)
<1>1. n \in Nat /\ MaxBits \in Nat /\ DOMAIN list = 1..n /\ \A i \in 1..n : list[i] = i - 1
  BY KeysAssumption
<1>2. base \in M
  BY DEF SizeRecords
<1>3. ComputeSizes(nums, narray) = U[1..n]
  BY DEF ComputeSizes, FoldLeft, MapThenFoldSet
<1>4. \A s, i : step(s, i) = Sizing(nums, narray, s, i)
  BY DEF Sizing
<1>5. \A x \in M, i \in 1..n : F[<<x, i>>] = Sizing(nums, narray, x, i - 1)
  OBVIOUS
<1> HIDE DEF F, U, base, step, list
<1>6. ASSUME NEW x \in M, NEW i \in 0..MaxBits PROVE Sizing(nums, narray, x, i) \in M
  <2>1. nums[i] \in Nat /\ 2^i \in Nat
    BY <1>1, TwoTo
  <2>2. x.a + nums[i] \in Nat /\ x.n \in Nat /\ x.na \in Nat
    BY <2>1 DEF SizeRecords
  <2> QED BY <2>1, <2>2 DEF Sizing, SizeRecords
<1>7. ASSUME NEW x \in M, NEW i \in 1..n PROVE F[<<x, i>>] \in M
  <2>1. i - 1 \in 0..MaxBits
    BY <1>1
  <2> HIDE DEF M, n
  <2> QED BY <1>5, <1>6, <2>1
<1> HIDE DEF M, n
<1>8. PICK V \in [SUBSET (1..n) -> M] : IsFold(V, base, n, F)
  BY <1>1, <1>2, <1>7, FoldExists
<1>9. \A s \in SUBSET (1..n) : s # {} => V[s \ {Max(s)}] \in M /\ Max(s) \in 1..n
  BY <1>1, MaxIn
<1>10. \A x \in M, i \in 1..n : F[<<x, i>>] = step(x, list[i])
  BY <1>1, <1>4, <1>5
<1>11. Eq(V)
  BY <1>8, <1>9, <1>10 DEF IsFold
<1>12. Eq(U)
  BY <1>11, Zenon DEF U
<1>13. U[{}] = base
  BY <1>12
<1>14. \A s \in SUBSET (1..n) : s # {} => Max(s) \in 1..n /\ U[s] = step(U[s \ {Max(s)}], list[Max(s)])
  BY <1>9, <1>12
<1>15. \A s \in SUBSET (1..n) : s # {} /\ U[s \ {Max(s)}] \in M => U[s] = F[<<U[s \ {Max(s)}], Max(s)>>]
  <2> HIDE DEF Eq
  <2> QED BY <1>10, <1>14
<1> HIDE DEF Eq
<1>16. PICK W : IsTrace(W, U, base, n, F, M)
  BY <1>1, <1>2, <1>7, <1>13, <1>15, FoldTrace
<1>17. /\ W[0] = base /\ W[n] = ComputeSizes(nums, narray)
       /\ (\A l \in 1..n : W[l] = F[<<W[l - 1], l>>]) /\ \A l \in 0..n : W[l] \in M
  BY <1>3, <1>16 DEF IsTrace
<1>18. \A l \in 1..n : l - 1 \in 0..n
  BY <1>1
<1>19. \A l \in 1..n : W[l] = Sizing(nums, narray, W[l - 1], l - 1)
  BY <1>5, <1>17, <1>18
<1> QED BY <1>17, <1>19 DEF SizesTrace, base, n, M

(* A size whose array would be more than half in use, and what computesizes*)
(* has found after l slices: the largest of them, and how many keys it     *)
(* takes in. It stops when it has seen all, or larger sizes are too large. *)
Large(keys, i) == 2 * Cardinality(Below(keys, i + 1)) > 2^i
Sized(keys, s, l) ==
  /\ s.n = 0 \/ \E i \in 0..(l - 1) : s.n = 2^i /\ Large(keys, i)
  /\ s.na = Cardinality({j \in keys : j <= s.n})
  /\ \A i \in 0..(l - 1) : Large(keys, i) => 2^i <= s.n
  /\ s.over => Below(keys, l) = keys
  /\ ~s.over /\ (l = 0 \/ 2^(l - 1) < 2 * Cardinality(keys)) => s.a = Cardinality(Below(keys, l))

LEMMA SizedNext ==
  ASSUME NEW keys, Indices(keys), NEW l \in 0..MaxBits, NEW s \in SizeRecords, Sized(keys, s, l)
  PROVE  Sized(keys, Sizing(Nums(keys), Cardinality(keys), s, l), l + 1)
<1> DEFINE r == Sizing(Nums(keys), Cardinality(keys), s, l)
           c == Cardinality(keys)
           b == Cardinality(Below(keys, l))
           d == Cardinality(Below(keys, l + 1))
           new == Nums(keys)[l]
<1>1. l \in Nat /\ l + 1 \in Nat /\ l + 1 - 1 = l /\ 2^l \in Nat /\ 2^l >= 1
  BY TwoTo
<1>2. /\ b \in Nat /\ c \in Nat /\ d \in Nat /\ d <= c /\ d <= 2^l /\ new \in Nat /\ d = b + new
      /\ (b = c => Below(keys, l) = keys) /\ (d = c => Below(keys, l + 1) = keys)
      /\ Below(keys, l + 1) = {j \in keys : j <= 2^l}
  BY <1>1, BelowIs
<1>3. 0..(l + 1 - 1) = (0..(l - 1)) \cup {l}
  BY <1>1
<1>4. (b = 0 /\ l = 0) \/ (l - 1 \in Nat /\ 2 * b <= 2^l)
  <2>1. CASE l = 0
    <3>1. Below(keys, 0) = {}
      BY CeilLog DEF Below, Indices
    <3> QED BY <2>1, <3>1, FS_EmptySet
  <2>2. CASE l # 0
    <3>1. l - 1 \in Nat /\ l - 1 + 1 = l /\ 2^(l - 1) \in Nat
      BY <1>1, <2>2, TwoTo
    <3>2. b <= 2^(l - 1)
      BY <3>1, BelowIs
    <3>3. 2^l = 2 * 2^(l - 1)
      BY <3>1, Doubled
    <3> QED BY <1>2, <3>1, <3>2, <3>3
  <2> QED BY <2>1, <2>2
<1>5. /\ s.n = 0 \/ \E i \in 0..(l - 1) : s.n = 2^i /\ Large(keys, i)
      /\ s.na = Cardinality({j \in keys : j <= s.n})
      /\ \A i \in 0..(l - 1) : Large(keys, i) => 2^i <= s.n
      /\ s.over => Below(keys, l) = keys
      /\ ~s.over /\ (l = 0 \/ 2^(l - 1) < 2 * c) => s.a = b
      /\ s.n \in Nat /\ s.a \in Nat
  BY DEF Sized, SizeRecords
<1>6. Large(keys, l) <=> 2 * d > 2^l
  BY DEF Large
<1>7. r = IF s.over \/ 2^l >= 2 * c THEN s
          ELSE [a |-> s.a + new, over |-> s.a + new = c,
                n |-> IF new > 0 /\ 2 * (s.a + new) > 2^l THEN 2^l ELSE s.n,
                na |-> IF new > 0 /\ 2 * (s.a + new) > 2^l THEN s.a + new ELSE s.na]
  BY DEF Sizing
<1> HIDE DEF r, c, b, d, new
<1>8. CASE s.over \/ 2^l >= 2 * c
  <2>1. r = s
    BY <1>7, <1>8
  <2>2. ~Large(keys, l)
    <3>1. CASE s.over
      <4>1. b = c
        BY <1>5, <3>1 DEF b, c
      <4> QED BY <1>1, <1>2, <1>4, <1>6, <4>1
    <3>2. CASE 2^l >= 2 * c
      BY <1>1, <1>2, <1>6, <3>2
    <3> QED BY <1>8, <3>1, <3>2
  <2>3. s.over => Below(keys, l + 1) = keys
    <3>1. s.over => b = c
      BY <1>5 DEF b, c
    <3> QED BY <1>2, <3>1
  <2>4. s.over \/ ~(2^l < 2 * c)
    BY <1>1, <1>2, <1>8
  <2>5. s.n = 0 \/ \E i \in 0..(l + 1 - 1) : s.n = 2^i /\ Large(keys, i)
    BY <1>3, <1>5
  <2>6. \A i \in 0..(l + 1 - 1) : Large(keys, i) => 2^i <= s.n
    BY <1>3, <1>5, <2>2
  <2>7. Sized(keys, s, l + 1)
    BY <1>1, <1>5, <2>3, <2>4, <2>5, <2>6 DEF Sized, c
  <2> QED BY <2>1, <2>7 DEF r
<1>9. CASE ~(s.over \/ 2^l >= 2 * c)
  <2>1. s.a = b
    <3>1. ~s.over /\ 2^l < 2 * c
      BY <1>1, <1>2, <1>9
    <3>2. l = 0 \/ 2^(l - 1) < 2 * c
      <4>1. CASE l # 0
        <5>1. l - 1 \in Nat /\ l - 1 <= l /\ 2^(l - 1) \in Nat
          BY <1>1, <4>1, TwoTo
        <5>2. 2^(l - 1) <= 2^l
          BY <1>1, <5>1, Grows
        <5> QED BY <1>1, <1>2, <3>1, <5>1, <5>2
      <4> QED BY <4>1
    <3> QED BY <1>5, <3>1, <3>2
  <2> DEFINE more == new > 0 /\ 2 * d > 2^l
  <2>2. s.a + new = d
    BY <1>2, <2>1
  <2>3. /\ r.a = d /\ (r.over => d = c) /\ r.n = IF more THEN 2^l ELSE s.n
        /\ r.na = IF more THEN d ELSE s.na
    BY <1>7, <1>9, <2>2
  <2>4. Large(keys, l) => more
    BY <1>1, <1>2, <1>4, <1>6
  <2>5. more => Large(keys, l)
    BY <1>6
  <2> HIDE DEF more
  <2>6. r.over => Below(keys, l + 1) = keys
    BY <1>2, <2>3
  <2>7. r.a = Cardinality(Below(keys, l + 1))
    BY <2>3 DEF d
  <2>8. CASE more
    <3>1. r.n = 2^l /\ r.na = Cardinality({j \in keys : j <= r.n}) /\ Large(keys, l)
      BY <1>2, <2>3, <2>5, <2>8 DEF d
    <3>2. ASSUME NEW i \in 0..(l + 1 - 1) PROVE 2^i <= r.n
      <4>1. i \in Nat /\ i <= l
        BY <1>1
      <4> QED BY <1>1, <3>1, <4>1, Grows
    <3>3. \E i \in 0..(l + 1 - 1) : r.n = 2^i /\ Large(keys, i)
      BY <1>3, <3>1
    <3> HIDE DEF r
    <3>4. Sized(keys, r, l + 1)
      BY <2>6, <2>7, <3>1, <3>2, <3>3 DEF Sized
    <3> QED BY <3>4 DEF r
  <2>9. CASE ~more
    <3>1. r.n = s.n /\ r.na = s.na /\ ~Large(keys, l)
      BY <2>3, <2>4, <2>9
    <3>2. r.n = 0 \/ \E i \in 0..(l + 1 - 1) : r.n = 2^i /\ Large(keys, i)
      BY <1>3, <1>5, <3>1
    <3>3. \A i \in 0..(l + 1 - 1) : Large(keys, i) => 2^i <= r.n
      BY <1>3, <1>5, <3>1
    <3>4. r.na = Cardinality({j \in keys : j <= r.n})
      BY <1>5, <3>1
    <3>5. Sized(keys, r, l + 1)
      BY <2>6, <2>7, <3>2, <3>3, <3>4 DEF Sized
    <3> QED BY <3>5 DEF r
  <2> QED BY <2>8, <2>9
<1> QED BY <1>8, <1>9

(* So computesizes finds the best array, and how many keys go there.       *)
LEMMA ComputeSizesIs ==
  ASSUME NEW keys, Indices(keys)
  PROVE  LET s == ComputeSizes(Nums(keys), Cardinality(keys))
         IN /\ s.n = Best(keys) /\ s.n \in Nat /\ s.n <= 2^MaxBits
            /\ s.na = Cardinality({j \in keys : j <= s.n}) /\ s.na \in Nat
<1> DEFINE s == ComputeSizes(Nums(keys), Cardinality(keys))
           n == MaxBits + 1
<1>1. MaxBits \in Nat /\ n \in Nat /\ n - 1 = MaxBits
  BY KeysAssumption
<1>2. Cardinality(keys) \in Nat /\ \A i \in 0..MaxBits : Nums(keys)[i] \in Nat
  <2>1. \A i \in 0..MaxBits : i \in Nat
    OBVIOUS
  <2>2. 0 \in Nat
    OBVIOUS
  <2> QED BY <2>1, <2>2, BelowIs
<1>3. PICK W : SizesTrace(Nums(keys), Cardinality(keys), W)
  BY <1>2, SizesSteps
<1>4. /\ W[0] = [a |-> 0, n |-> 0, na |-> 0, over |-> FALSE] /\ W[n] = s
      /\ \A l \in 1..n : W[l] = Sizing(Nums(keys), Cardinality(keys), W[l - 1], l - 1)
      /\ \A l \in 0..n : W[l] \in SizeRecords
  BY <1>3 DEF SizesTrace
<1> HIDE DEF n, s
<1>5. Sized(keys, W[0], 0)
  <2>1. {j \in keys : j <= 0} = {} /\ Below(keys, 0) = {}
    BY CeilLog DEF Below, Indices
  <2>2. Cardinality({}) = 0
    BY FS_EmptySet
  <2>3. Cardinality({j \in keys : j <= 0}) = 0 /\ Cardinality(Below(keys, 0)) = 0
    BY <2>1, <2>2, Zenon
  <2>4. W[0].n = 0 /\ W[0].na = 0 /\ ~W[0].over /\ W[0].a = 0
    BY <1>4
  <2> QED BY <2>3, <2>4 DEF Sized
<1> DEFINE Steps == {l \in 0..n : Sized(keys, W[l], l)}
<1>6. 0 \in Steps
  BY <1>1, <1>5
<1>7. ASSUME NEW l \in 1..n, l - 1 \in Steps PROVE l \in Steps
  <2>1. l - 1 \in 0..MaxBits /\ l - 1 \in 0..n /\ l \in 0..n /\ l - 1 + 1 = l
    BY <1>1
  <2>2. Sized(keys, W[l - 1], l - 1) /\ W[l - 1] \in SizeRecords
    BY <1>4, <1>7, <2>1
  <2>3. Sized(keys, Sizing(Nums(keys), Cardinality(keys), W[l - 1], l - 1), l - 1 + 1)
    BY <2>1, <2>2, SizedNext
  <2>4. Sized(keys, W[l], l)
    BY <1>4, <2>1, <2>3
  <2> QED BY <2>1, <2>4
<1> HIDE DEF Steps
<1>8. n \in Steps
  <2>1. \A l \in 0..n : l \in Steps
    BY <1>1, <1>6, <1>7, Induct
  <2>2. n \in 0..n
    BY <1>1
  <2> QED BY <2>1, <2>2
<1>9. Sized(keys, s, n) /\ s \in SizeRecords
  <2>1. n \in 0..n
    BY <1>1
  <2> QED BY <1>4, <1>8, <2>1 DEF Steps
<1>10. /\ s.n = 0 \/ \E i \in 0..MaxBits : s.n = 2^i /\ Large(keys, i)
       /\ s.na = Cardinality({j \in keys : j <= s.n})
       /\ \A i \in 0..MaxBits : Large(keys, i) => 2^i <= s.n
  BY <1>1, <1>9 DEF Sized
<1> DEFINE large == {i \in 0..MaxBits : Large(keys, i)}
<1>11. Best(keys) = IF large = {} THEN 0 ELSE 2^Max(large)
  <2>1. \A i \in 0..MaxBits : Below(keys, i + 1) = {k \in keys : k <= 2^i}
    BY BelowIs
  <2>2. \A i \in 0..MaxBits : Large(keys, i) <=> 2 * Cardinality({k \in keys : k <= 2^i}) > 2^i
    BY <2>1 DEF Large
  <2>3. {i \in 0..MaxBits : 2 * Cardinality({k \in keys : k <= 2^i}) > 2^i} = large
    BY <2>2
  <2> HIDE DEF large
  <2> QED BY <2>3 DEF Best
<1>12. \A i \in 0..MaxBits : 2^i \in Nat /\ 2^i >= 1
  BY TwoTo
<1>13. CASE s.n = 0
  <2>1. large = {}
    BY <1>10, <1>12, <1>13
  <2>2. 2^MaxBits \in Nat
    BY <1>1, TwoTo
  <2> HIDE DEF large
  <2> QED BY <1>9, <1>10, <1>11, <1>13, <2>1, <2>2 DEF s, SizeRecords
<1>14. CASE s.n # 0
  <2>1. PICK i \in 0..MaxBits : s.n = 2^i /\ Large(keys, i)
    BY <1>10, <1>14
  <2>2. large \in SUBSET (0..(n - 1)) /\ large # {}
    BY <1>1, <2>1
  <2>3. Max(large) \in large /\ \A j \in large : j <= Max(large)
    BY <1>1, <2>2, MaxBelow
  <2>4. Max(large) \in 0..MaxBits /\ Large(keys, Max(large)) /\ i <= Max(large)
    BY <2>1, <2>3
  <2> DEFINE m == Max(large)
  <2> HIDE DEF large, m
  <2>5. m \in 0..MaxBits /\ Large(keys, m) /\ i <= m /\ m \in Nat /\ i \in Nat
    BY <1>1, <2>1, <2>4 DEF m
  <2>6. 2^m <= s.n /\ 2^i <= 2^m /\ 2^i <= 2^MaxBits
    BY <1>1, <1>10, <2>1, <2>5, Grows
  <2>7. s.n = 2^m
    BY <1>12, <2>1, <2>5, <2>6
  <2> QED BY <1>9, <1>10, <1>11, <2>1, <2>2, <2>6, <2>7 DEF s, m, SizeRecords
<1> QED BY <1>13, <1>14
-----------------------------------------------------------------------------
(* A key without a place has no value.                                     *)
LEMMA NoPlace ==
  ASSUME NEW t, Good(t), NEW k \in Keys, ~Has(t, k)
  PROVE  k \notin Fields(t)
BY DEF Has, Get, Fields

(* The integer keys in use and the one to come, in an array of n slots:    *)
(* what is left of the fields for the hash part.                           *)
LEMMA CandidatesAre ==
  ASSUME NEW t, Good(t), NEW k \in Keys, ~Has(t, k), NEW n \in Nat, n <= 2^MaxBits
  PROVE  LET keys == Candidates(t, k)
             left == Cardinality(Fields(t) \ (1..n))
         IN /\ Indices(keys) /\ left \in Nat
            /\ Cardinality(Fields(t)) + 1 - Cardinality({j \in keys : j <= n})
                 = IF k \in 1..n THEN left ELSE left + 1
<1> DEFINE keys == Candidates(t, k)
           X == 1..n
           fields == Fields(t)
           low == {j \in keys : j <= n}
<1>1. /\ fields = Slots(t) \cup {t.node[i].key : i \in Live(t)} /\ Slots(t) \subseteq Ints
      /\ fields \subseteq Keys /\ IsFiniteSet(fields)
  BY FieldsAre, FieldsCount DEF Fields
<1>2. /\ k \notin fields /\ Ints \subseteq Int /\ (\A j \in Keys : j \in Int => j \in Ints) /\ 2^MaxBits \in Nat
      /\ MaxBits \in Nat
  BY NoPlace, KeysAre, TwoTo, KeysAssumption
<1>3. DOMAIN t.array = 1..Len(t.array) /\ Len(t.array) \in Nat
  BY NodesAre DEF Good, Typed
<1>4. keys = Slots(t) \cup {j \in {t.node[i].key : i \in Live(t)} : ArrayIndex(j)} \cup {j \in {k} : ArrayIndex(j)}
  BY DEF Candidates, InUse, Slots
<1>5. \A j \in keys : j \in Nat /\ j >= 1 /\ (j \in fields \/ j = k)
  <2>1. \A j \in Slots(t) : j \in 1..Len(t.array) /\ j \in fields
    BY <1>1, <1>3 DEF Slots
  <2>2. \A j : ArrayIndex(j) => j \in Int /\ j >= 1
    BY <1>2 DEF ArrayIndex
  <2> HIDE DEF keys, fields
  <2> QED BY <1>1, <1>3, <1>4, <2>1, <2>2
<1>6. \A j \in X : j \in fields \/ j = k => j \in keys
  <2> SUFFICES ASSUME NEW j \in X, j \in fields \/ j = k PROVE j \in keys
    OBVIOUS
  <2>1. j \in Int /\ j > 0 /\ j <= 2^MaxBits
    BY <1>2
  <2>2. j \in Keys
    BY <1>1
  <2>3. ArrayIndex(j)
    BY <1>2, <2>1, <2>2 DEF ArrayIndex
  <2> HIDE DEF keys, fields
  <2> QED BY <1>1, <1>4, <2>3
<1> HIDE DEF keys, fields
<1>7. IsFiniteSet(keys)
  <2>1. keys \subseteq fields \cup {k} /\ IsFiniteSet(fields \cup {k})
    BY <1>1, <1>5, FS_AddElement
  <2> QED BY <2>1, FS_Subset
<1>8. low = (fields \cap X) \cup (IF k \in X THEN {k} ELSE {})
  <2>1. \A j : j \in low <=> (j \in fields \cap X \/ (j = k /\ k \in X))
    BY <1>5, <1>6
  <2> QED BY <2>1
<1> DEFINE inside == Cardinality(fields \cap X)
           left == Cardinality(fields \ X)
<1>9. /\ IsFiniteSet(fields \cap X) /\ inside \in Nat /\ IsFiniteSet(fields \ X) /\ left \in Nat
      /\ Cardinality(fields) = inside + left
  <2>1. IsFiniteSet(fields \cap X) /\ IsFiniteSet(fields \ X)
    BY <1>1, FS_Subset
  <2>2. fields = (fields \cap X) \cup (fields \ X) /\ (fields \cap X) \cap (fields \ X) = {}
    OBVIOUS
  <2> DEFINE P == fields \cap X
             Q == fields \ X
  <2> HIDE DEF P, Q
  <2>3. Cardinality(P \cup Q) = Cardinality(P) + Cardinality(Q) - Cardinality(P \cap Q)
    BY <2>1, FS_Union DEF P, Q
  <2>4. Cardinality(P \cap Q) = 0
    BY <2>2, FS_EmptySet, Zenon DEF P, Q
  <2>5. Cardinality(P) \in Nat /\ Cardinality(Q) \in Nat
    BY <2>1, FS_CardinalityType DEF P, Q
  <2>6. Cardinality(fields) = Cardinality(P \cup Q)
    BY <2>2 DEF P, Q
  <2>7. Cardinality(fields) = Cardinality(P) + Cardinality(Q)
    BY <2>3, <2>4, <2>5, <2>6
  <2> QED BY <2>1, <2>5, <2>7 DEF P, Q
<1>10. Cardinality(low) = IF k \in X THEN inside + 1 ELSE inside
  <2>1. CASE k \in X
    <3>1. low = (fields \cap X) \cup {k} /\ k \notin fields \cap X
      BY <1>2, <1>8, <2>1 DEF fields
    <3> HIDE DEF low, X
    <3>2. Cardinality((fields \cap X) \cup {k}) = Cardinality(fields \cap X) + 1
      BY <1>9, <3>1, FS_AddElement
    <3> QED BY <2>1, <3>1, <3>2
  <2>2. CASE k \notin X
    <3>1. low = fields \cap X
      BY <1>8, <2>2
    <3> HIDE DEF low, X
    <3> QED BY <2>2, <3>1
  <2> QED BY <2>1, <2>2
<1>11. Indices(keys)
  BY <1>5, <1>7 DEF Indices
<1>12. Cardinality(fields) + 1 - Cardinality(low) = IF k \in X THEN left ELSE left + 1
  <2> HIDE DEF low, X, left, inside
  <2>1. CASE k \in X
    BY <1>9, <1>10, <2>1 DEF left
  <2>2. CASE k \notin X
    BY <1>9, <1>10, <2>2 DEF left
  <2> QED BY <2>1, <2>2
<1> QED BY <1>9, <1>11, <1>12 DEF keys, fields

(* A rehash for a key that has no place: it keeps the values, its array is *)
(* the best, and there is a free position for the key.                     *)
LEMMA RehashIs ==
  ASSUME NEW t, Good(t), ~t.full, NEW k \in Keys, ~Has(t, k)
  PROVE  LET u == Rehash(t, k)
         IN /\ Good(u) /\ ~u.full /\ \A j \in Hashable : Get(u, j) = Get(t, j)
            /\ Len(u.array) = Best(Candidates(t, k)) /\ Len(u.array) <= 2^MaxBits
            /\ ~InArray(u, k) => ~u.dummy /\ Used(u) # DOMAIN u.node
<1> DEFINE keys == Candidates(t, k)
           s == ComputeSizes(Nums(keys), Cardinality(keys))
           h == Cardinality(Fields(t)) + 1 - s.na
           left == Cardinality(Fields(t) \ (1..s.n))
           u == Rehash(t, k)
<1>1. Indices(keys)
  <2>1. 0 \in Nat /\ 0 <= 2^MaxBits
    BY TwoTo, KeysAssumption
  <2> QED BY <2>1, CandidatesAre
<1>2. /\ s.n = Best(keys) /\ s.n \in Nat /\ s.n <= 2^MaxBits
      /\ s.na = Cardinality({j \in keys : j <= s.n}) /\ s.na \in Nat
  BY <1>1, ComputeSizesIs
<1>3. left \in Nat /\ h = IF k \in 1..s.n THEN left ELSE left + 1
  BY <1>2, CandidatesAre
<1>4. u = Resize(t, s.n, h)
  <2>1. u = Resize(t, s.n, (Cardinality({i \in DOMAIN t.array : t.array[i] # Nil}) + Cardinality(Live(t)) + 1) - s.na)
    BY DEF Rehash
  <2>2. Cardinality({i \in DOMAIN t.array : t.array[i] # Nil}) = Cardinality(Slots(t))
    BY DEF Slots
  <2> HIDE DEF s, u
  <2>3. u = Resize(t, s.n, (Cardinality(Slots(t)) + Cardinality(Live(t)) + 1) - s.na)
    BY <2>1, <2>2
  <2>4. /\ Cardinality(Slots(t)) \in Nat /\ Cardinality(Live(t)) \in Nat
        /\ Cardinality(Fields(t)) = Cardinality(Slots(t)) + Cardinality(Live(t))
    BY FieldsCount, FS_CardinalityType
  <2>5. (Cardinality(Slots(t)) + Cardinality(Live(t)) + 1) - s.na = h
    BY <1>2, <2>4 DEF h
  <2> QED BY <2>3, <2>5
<1> HIDE DEF s, h, u, left
<1>5. h \in Nat /\ left <= h
  BY <1>3
<1>6. Room(t, s.n, h)
  BY <1>5 DEF Room, left
<1>7. Resized(t, u, s.n, h)
  BY <1>2, <1>4, <1>5, <1>6, ResizeIs
<1>8. /\ Good(u) /\ ~u.full /\ Len(u.array) = s.n /\ SizeNode(u) >= h /\ (u.dummy => h = 0)
      /\ (\A j \in Hashable : Get(u, j) = Get(t, j)) /\ Cardinality(Used(u)) <= left
  BY <1>7 DEF Resized, left
<1>9. ASSUME ~InArray(u, k) PROVE ~u.dummy /\ Used(u) # DOMAIN u.node
  <2>1. h = left + 1
    BY <1>3, <1>8, <1>9 DEF InArray
  <2>2. /\ Cardinality(Used(u)) \in Nat /\ SizeNode(u) \in Nat
        /\ Cardinality(DOMAIN u.node) = SizeNode(u)
    BY <1>8, UsedFinite
  <2>3. Cardinality(Used(u)) < Cardinality(DOMAIN u.node)
    BY <1>3, <1>8, <2>1, <2>2
  <2> QED BY <1>3, <1>8, <2>1, <2>2, <2>3
<1> QED BY <1>2, <1>8, <1>9 DEF u
-----------------------------------------------------------------------------
(* A table of a program: never marked full, and within the largest array.  *)
Sound(t) == Good(t) /\ ~t.full /\ Len(t.array) <= 2^MaxBits

(* newkey: afterwards the key has a place, whatever was rehashed for it.   *)
LEMMA NewKeyIs ==
  ASSUME NEW t, Sound(t), NEW k \in Keys, ~Has(t, k)
  PROVE  LET u == NewKey(t, k)
         IN Sound(u) /\ Has(u, k) /\ \A j \in Hashable : Get(u, j) = Get(t, j)
<1> USE DEF Sound
<1>1. CASE Collides(t, k) /\ GetFreePos(t) = -1
  <2> DEFINE u == Rehash(t, k)
             w == PutKey(u, k)
  <2>1. NewKey(t, k) = IF Has(u, k) THEN u ELSE w
    BY <1>1 DEF NewKey
  <2>2. /\ Good(u) /\ ~u.full /\ \A j \in Hashable : Get(u, j) = Get(t, j)
        /\ Len(u.array) <= 2^MaxBits
        /\ ~InArray(u, k) => ~u.dummy /\ Used(u) # DOMAIN u.node
    BY RehashIs
  <2> HIDE DEF u
  <2>3. CASE Has(u, k)
    BY <2>1, <2>2, <2>3
  <2>4. CASE ~Has(u, k)
    <3>1. ~(Collides(u, k) /\ GetFreePos(u) = -1)
      <4>1. ~u.dummy /\ Used(u) # DOMAIN u.node
        BY <2>2, <2>4 DEF Has
      <4> QED BY <2>2, <2>4, <4>1, PutKeyIs
    <3>2. Put(u, w, k)
      BY <2>2, <2>4, <3>1, PutKeyIs
    <3> HIDE DEF w
    <3>3. Has(w, k) /\ \A j \in Hashable : Get(w, j) = Get(u, j)
      BY <2>2, <3>2, PutGets
    <3>4. Good(w) /\ w.array = u.array /\ w.full = u.full
      BY <3>2 DEF Put
    <3>5. Sound(w)
      BY <2>2, <3>4
    <3> QED BY <2>1, <2>2, <2>4, <3>3, <3>5
  <2> QED BY <2>3, <2>4
<1>2. CASE ~(Collides(t, k) /\ GetFreePos(t) = -1)
  <2> DEFINE w == PutKey(t, k)
  <2>1. NewKey(t, k) = w
    BY <1>2 DEF NewKey
  <2>2. Put(t, w, k)
    BY <1>2, PutKeyIs
  <2> HIDE DEF w
  <2>3. Has(w, k) /\ \A j \in Hashable : Get(w, j) = Get(t, j)
    BY <2>2, PutGets
  <2>4. Good(w) /\ w.array = t.array /\ w.full = t.full
    BY <2>2 DEF Put
  <2>5. Sound(w)
    BY <2>4
  <2> QED BY <2>1, <2>3, <2>5
<1> QED BY <1>1, <1>2

(* luaH_set with the value it is for.                                      *)
LEMMA SetIs ==
  ASSUME NEW t, Sound(t), NEW k \in Keys, NEW v \in Values \cup {Nil}
  PROVE  LET u == Set(t, k, v)
         IN Sound(u) /\ Get(u, k) = v /\ \A j \in Hashable : j # k => Get(u, j) = Get(t, j)
<1> DEFINE s == IF Has(t, k) THEN t ELSE NewKey(t, k)
           u == Store(s, k, v)
<1>1. Sound(s) /\ Has(s, k) /\ \A j \in Hashable : Get(s, j) = Get(t, j)
  <2>1. CASE Has(t, k)
    BY <2>1
  <2>2. CASE ~Has(t, k)
    BY <2>2, NewKeyIs
  <2> QED BY <2>1, <2>2
<1>2. Set(t, k, v) = IF s.full THEN s ELSE Store(s, k, v)
  BY DEF Set
<1> HIDE DEF s
<1>3. Good(s) /\ ~s.full /\ Len(s.array) <= 2^MaxBits
  BY <1>1 DEF Sound
<1>4. Set(t, k, v) = u
  BY <1>2, <1>3
<1>5. Good(u) /\ Len(u.array) = Len(s.array) /\ u.full = s.full
  BY <1>1, <1>3, StoreIs
<1>6. Get(u, k) = v /\ \A j \in Hashable : j # k => Get(u, j) = Get(s, j)
  BY <1>1, <1>3, StoreGets
<1> HIDE DEF u
<1>7. Sound(u)
  BY <1>3, <1>5 DEF Sound
<1> QED BY <1>1, <1>4, <1>6, <1>7

(* An array part that grows takes keys from the hash part only.            *)
LEMMA ArrayGrows ==
  ASSUME NEW t, Sound(t), NEW n \in Nat, n > Len(t.array), n <= 2^MaxBits
  PROVE  Sound(LuaResizeArray(t, n))
<1> DEFINE h == IF t.dummy THEN 0 ELSE SizeNode(t)
           left == Fields(t) \ (1..n)
<1>1. Good(t) /\ ~t.full /\ LuaResizeArray(t, n) = Resize(t, n, h)
  BY DEF Sound, LuaResizeArray
<1>2. /\ IsFiniteSet(Fields(t)) /\ IsFiniteSet(Slots(t)) /\ IsFiniteSet(Live(t))
      /\ Cardinality(Fields(t)) = Cardinality(Slots(t)) + Cardinality(Live(t))
  BY <1>1, FieldsCount
<1>3. DOMAIN t.array = 1..Len(t.array) /\ Len(t.array) \in Nat
  BY <1>1, NodesAre DEF Good, Typed
<1>4. Slots(t) \subseteq Fields(t) \cap (1..n)
  <2>1. Slots(t) \subseteq 1..n
    BY <1>3 DEF Slots
  <2> QED BY <1>1, <2>1, FieldsAre
<1>5. IsFiniteSet(left) /\ Cardinality(left) \in Nat
  BY <1>2, FS_Subset, FS_CardinalityType
<1>6. left \cap Slots(t) = {} /\ left \cup Slots(t) \subseteq Fields(t)
  BY <1>4
<1> HIDE DEF left
<1>7. Cardinality(left) <= Cardinality(Live(t))
  <2>1. /\ IsFiniteSet(left \cup Slots(t))
        /\ Cardinality(left \cup Slots(t)) = Cardinality(left) + Cardinality(Slots(t)) - Cardinality(left \cap Slots(t))
    BY <1>2, <1>5, FS_Union
  <2>2. Cardinality(left \cap Slots(t)) = 0
    BY <1>6, FS_EmptySet, Zenon
  <2>3. Cardinality(left \cup Slots(t)) <= Cardinality(Fields(t))
    BY <1>2, <1>6, FS_Subset
  <2>4. Cardinality(Slots(t)) \in Nat /\ Cardinality(Live(t)) \in Nat
    BY <1>2, FS_CardinalityType
  <2> QED BY <1>2, <1>5, <2>1, <2>2, <2>3, <2>4
<1>8. /\ IsFiniteSet(DOMAIN t.node) /\ Cardinality(DOMAIN t.node) = SizeNode(t) /\ SizeNode(t) \in Nat
      /\ Live(t) \subseteq DOMAIN t.node
  BY <1>1, UsedFinite DEF Live
<1>9. Cardinality(Live(t)) \in Nat /\ Cardinality(Live(t)) <= SizeNode(t)
  BY <1>2, <1>8, FS_Subset, FS_CardinalityType
<1>10. t.dummy => Cardinality(Live(t)) = 0
  <2>1. ASSUME t.dummy PROVE Live(t) = {}
    <3>1. \A i \in DOMAIN t.node : t.node[i].key = Nil
      BY <1>1, <2>1 DEF Good, Filled
    <3>2. \A i \in DOMAIN t.node : t.node[i].val = Nil
      BY <1>1, <3>1 DEF Good, Chained
    <3> QED BY <3>2 DEF Live
  <2> QED BY <2>1, FS_EmptySet
<1>11. h \in Nat /\ Cardinality(left) <= h
  BY <1>5, <1>7, <1>8, <1>9, <1>10
<1> HIDE DEF h
<1>12. Resized(t, Resize(t, n, h), n, h)
  BY <1>1, <1>11, ResizeIs DEF Room, left
<1> QED BY <1>1, <1>12 DEF Resized, Sound

(* A run of assignments, one for every element of a list.                  *)
LEMMA ListIs ==
  ASSUME NEW t, Sound(t), NEW items \in Seq(Values \cup {Nil}), Len(items) <= MaxItems
  PROVE  Sound(SetList(t, items))
<1> DEFINE n == Len(items)
           base == IF n > Len(t.array) THEN LuaResizeArray(t, n) ELSE t
           M == {u \in Tables : Sound(u)}
           order == [i \in 1..n |-> n + 1 - i]
           step(s, i) == Set(s, i, items[i])
           F == [p \in M \X (1..n) |-> step(p[1], order[p[2]])]
           Eq(V) == V = [s \in SUBSET (1..n) |-> IF s = {} THEN base ELSE step(V[s \ {Max(s)}], order[Max(s)])]
           U == CHOOSE V : Eq(V)
<1>1. n \in Nat /\ n <= 2^MaxBits /\ 1..n \subseteq Keys
  <2>1. n \in Nat /\ n <= MaxItems /\ MaxItems \in Nat /\ MaxItems <= 2^MaxBits /\ MaxBits \in Nat
    BY KeysAssumption
  <2>2. 2^MaxBits \in Nat /\ 1..MaxItems \subseteq Ints
    BY <2>1, TwoTo, KeysAssumption
  <2>3. n <= 2^MaxBits /\ 1..n \subseteq Ints
    BY <2>1, <2>2
  <2> QED BY <2>1, <2>3 DEF Keys
<1>2. \A i \in 1..n : order[i] \in 1..n
  BY <1>1
<1>3. \A u : u \in M <=> Sound(u)
  BY DEF Sound, Good, Typed
<1>4. SetList(t, items) = U[1..n]
  BY DEF SetList, FoldLeft, MapThenFoldSet
<1>5. base \in M
  <2>1. CASE n > Len(t.array)
    BY <1>1, <1>3, <2>1, ArrayGrows
  <2>2. CASE ~(n > Len(t.array))
    BY <1>3, <2>2
  <2> QED BY <2>1, <2>2
<1>6. \A i \in 1..n : items[i] \in Values \cup {Nil}
  OBVIOUS
<1> HIDE DEF M, base, order, n
<1>7. \A x \in M, i \in 1..n : F[<<x, i>>] = step(x, order[i])
  OBVIOUS
<1>8. ASSUME NEW x \in M, NEW i \in 1..n PROVE step(x, i) \in M
  BY <1>1, <1>3, <1>6, SetIs
<1> HIDE DEF F, step
<1>9. \A x \in M, i \in 1..n : F[<<x, i>>] \in M
  BY <1>2, <1>7, <1>8
<1>10. PICK V \in [SUBSET (1..n) -> M] : IsFold(V, base, n, F)
  BY <1>1, <1>5, <1>9, FoldExists
<1>11. \A s \in SUBSET (1..n) : s # {} => V[s \ {Max(s)}] \in M /\ Max(s) \in 1..n
  BY <1>1, MaxIn
<1>12. Eq(V)
  BY <1>7, <1>10, <1>11 DEF IsFold
<1> HIDE DEF U
<1>13. Eq(U)
  BY <1>12, Zenon DEF U
<1>14. U[{}] = base
  BY <1>13
<1>15. \A s \in SUBSET (1..n) : s # {} => Max(s) \in 1..n /\ U[s] = step(U[s \ {Max(s)}], order[Max(s)])
  BY <1>11, <1>13
<1> HIDE DEF Eq
<1>16. \A s \in SUBSET (1..n) : s # {} /\ U[s \ {Max(s)}] \in M => U[s] = F[<<U[s \ {Max(s)}], Max(s)>>]
  BY <1>7, <1>15
<1>17. PICK W : IsTrace(W, U, base, n, F, M)
  BY <1>1, <1>5, <1>9, <1>14, <1>16, FoldTrace
<1>18. U[1..n] \in M
  <2>1. n \in 0..n
    BY <1>1
  <2> QED BY <1>17, <2>1 DEF IsTrace
<1> QED BY <1>3, <1>4, <1>18

(* The elements of a finite set as a list.                                 *)
LEMMA Listed ==
  ASSUME NEW S, IsFiniteSet(S)
  PROVE  SetToSeq(S) \in [1..Cardinality(S) -> S]
<1>1. \E f \in [1..Cardinality(S) -> S] : IsInjective(f)
  <2>1. ExistsBijection(1..Cardinality(S), S)
    BY FS_CardinalityType
  <2>2. PICK f : f \in Bijection(1..Cardinality(S), S)
    BY <2>1 DEF ExistsBijection
  <2> QED BY <2>2 DEF Bijection, Injection
<1> QED BY <1>1, Zenon DEF SetToSeq

LEMMA NewIs ==
  ASSUME hash \in Hashes, NEW narray \in 0..MaxItems, NEW nhash \in Nat
  PROVE  Sound(New(narray, nhash))
<1> DEFINE t == [array |-> <<>>, node |-> [i \in {0} |-> Free], dummy |-> TRUE, lsizenode |-> 0, lastfree |-> 0,
                 full |-> FALSE]
           u == New(narray, nhash)
<1>1. u = SetNodeVector(SetArrayVector(t, narray), nhash)
  BY DEF New
<1>2. t \in Tables
  <2>1. [i \in {0} |-> Free] \in [0..(1 - 1) -> NodeRecords]
    BY DEF Free, NodeRecords
  <2>2. <<>> \in Seq(Values \cup {Nil})
    OBVIOUS
  <2> DEFINE node == [i \in {0} |-> Free]
  <2> HIDE DEF node
  <2> QED BY <2>1, <2>2 DEF Tables, node
<1>3. t.full = FALSE /\ \A i \in DOMAIN t.array : t.array[i] # Nil => i \in Ints
  OBVIOUS
<1>4. narray \in Nat /\ narray <= 2^MaxBits
  <2>1. MaxBits \in Nat /\ MaxItems \in Nat /\ MaxItems <= 2^MaxBits
    BY KeysAssumption
  <2>2. 2^MaxBits \in Nat
    BY <2>1, TwoTo
  <2> QED BY <2>1, <2>2
<1> HIDE DEF t, u
<1>5. Emptied(t, u, narray, nhash)
  BY <1>1, <1>2, <1>3, <1>4, FreshIs
<1>6. Good(u) /\ ~u.full /\ Len(u.array) <= 2^MaxBits
  BY <1>3, <1>4, <1>5 DEF Emptied
<1> QED BY <1>6 DEF Sound, u

LEMMA ConstructedIs ==
  ASSUME hash \in Hashes, NEW fields \in SUBSET Keys, NEW items \in Seq(Values \cup {Nil}), Len(items) <= MaxItems,
         NEW narray \in 0..Len(items)
  PROVE  Sound(Constructed(fields, items, narray))
<1> DEFINE n == Cardinality(fields)
           list == SetToSeq(fields)
           v == CHOOSE v \in Values : TRUE
           base == New(narray, n)
           M == {u \in Tables : Sound(u)}
           F == [p \in M \X (1..n) |-> Set(p[1], list[p[2]], v)]
           Eq(V) == V = [s \in SUBSET (1..n) |-> IF s = {} THEN base ELSE Set(V[s \ {Max(s)}], list[Max(s)], v)]
           U == CHOOSE V : Eq(V)
<1>1. n \in Nat /\ list \in [1..n -> fields]
  <2>1. IsFiniteSet(fields)
    BY KeysAssumption, FS_Subset
  <2> QED BY <2>1, FS_CardinalityType, Listed
<1>2. v \in Values
  BY KeysAssumption
<1>3. \A u : u \in M <=> Sound(u)
  BY DEF Sound, Good, Typed
<1>4. Constructed(fields, items, narray) = SetList(U[1..n], items)
  BY <1>1 DEF Constructed, FoldLeft, MapThenFoldSet
<1>5. base \in M
  <2>1. narray \in 0..MaxItems
    BY KeysAssumption
  <2> QED BY <1>1, <1>3, <2>1, NewIs
<1> HIDE DEF M, base, list, n, v
<1>6. \A x \in M, i \in 1..n : F[<<x, i>>] = Set(x, list[i], v)
  OBVIOUS
<1> HIDE DEF F
<1>7. ASSUME NEW x \in M, NEW i \in 1..n PROVE F[<<x, i>>] \in M
  <2>1. list[i] \in Keys
    BY <1>1
  <2> QED BY <1>2, <1>3, <1>6, <2>1, SetIs
<1>8. PICK V \in [SUBSET (1..n) -> M] : IsFold(V, base, n, F)
  BY <1>1, <1>5, <1>7, FoldExists
<1>9. \A s \in SUBSET (1..n) : s # {} => V[s \ {Max(s)}] \in M /\ Max(s) \in 1..n
  BY <1>1, MaxIn
<1>10. Eq(V)
  BY <1>6, <1>8, <1>9 DEF IsFold
<1> HIDE DEF U
<1>11. Eq(U)
  BY <1>10, Zenon DEF U
<1>12. U[{}] = base
  BY <1>11
<1>13. \A s \in SUBSET (1..n) : s # {} => Max(s) \in 1..n /\ U[s] = Set(U[s \ {Max(s)}], list[Max(s)], v)
  BY <1>9, <1>11
<1> HIDE DEF Eq
<1>14. \A s \in SUBSET (1..n) : s # {} /\ U[s \ {Max(s)}] \in M => U[s] = F[<<U[s \ {Max(s)}], Max(s)>>]
  BY <1>6, <1>13
<1>15. PICK W : IsTrace(W, U, base, n, F, M)
  BY <1>1, <1>5, <1>7, <1>12, <1>14, FoldTrace
<1>16. U[1..n] \in M
  <2>1. n \in 0..n
    BY <1>1
  <2> QED BY <1>15, <2>1 DEF IsTrace
<1> QED BY <1>3, <1>4, <1>16, ListIs
-----------------------------------------------------------------------------
(* Where the first node of a chain's walk stands: before every other node  *)
(* of goal on the chain.                                                   *)
LEMMA StepsOn ==
  ASSUME NEW D, NEW nx, Linked(D, nx), NEW s \in D, NEW x \in D, Reaches(D, nx, s, x), s # x
  PROVE  nx[s] \in D /\ Reaches(D, nx, nx[s], x)
<1>1. nx[s] \in D \cup {-1}
  BY DEF Linked
<1>2. ASSUME nx[s] = -1 PROVE FALSE
  <2>1. Closed(nx, {s})
    BY <1>2 DEF Closed
  <2>2. {s} \in SUBSET D /\ s \in {s} /\ x \notin {s}
    OBVIOUS
  <2> QED BY <2>1, <2>2 DEF Reaches
<1>3. ASSUME NEW S \in SUBSET D, nx[s] \in S, Closed(nx, S) PROVE x \in S
  <2> DEFINE R == S \cup {s}
  <2>1. Closed(nx, R)
    BY <1>3 DEF Closed
  <2>2. R \in SUBSET D /\ s \in R
    OBVIOUS
  <2> HIDE DEF R
  <2>3. x \in R
    BY <2>1, <2>2 DEF Reaches
  <2> QED BY <2>3 DEF R
<1> QED BY <1>1, <1>2, <1>3 DEF Reaches

LEMMA NoWayBack ==
  ASSUME NEW D, NEW nx, Linked(D, nx), NEW a \in D, NEW b \in D, Reaches(D, nx, a, b), Reaches(D, nx, b, a)
  PROVE  a = b
<1> SUFFICES ASSUME a # b PROVE FALSE
  OBVIOUS
<1> DEFINE C == {s \in D : Reaches(D, nx, a, s) /\ Reaches(D, nx, s, a)}
<1>1. a \in C
  BY DEF Reaches
<1>2. ASSUME NEW s \in C PROVE nx[s] \in C
  <2>1. s \in D /\ Reaches(D, nx, a, s) /\ Reaches(D, nx, s, a)
    OBVIOUS
  <2>2. nx[s] \in D /\ Reaches(D, nx, nx[s], a)
    <3>1. CASE s = a
      <4>1. nx[a] \in D /\ Reaches(D, nx, nx[a], b)
        BY StepsOn
      <4> QED BY <3>1, <4>1 DEF Reaches
    <3>2. CASE s # a
      BY <2>1, <3>2, StepsOn
    <3> QED BY <3>1, <3>2
  <2>3. Reaches(D, nx, a, nx[s])
    <3>1. nx[s] # -1
      BY <2>2 DEF Linked
    <3> QED BY <2>1, <3>1 DEF Reaches, Closed
  <2> QED BY <2>2, <2>3
<1>3. C \in SUBSET D
  OBVIOUS
<1> HIDE DEF C
<1>4. C = {}
  BY <1>2, <1>3 DEF Linked, Acyclic
<1> QED BY <1>1, <1>4

LEMMA WalkFirst ==
  ASSUME NEW D, NEW nx, Linked(D, nx), NEW goal, NEW f, IsWalk(D, nx, goal, f), NEW i \in D, f[i] # -1,
         NEW j \in goal \cap D, Reaches(D, nx, i, j)
  PROVE  Reaches(D, nx, f[i], j)
<1>1. /\ -1 \notin D /\ nx \in [D -> D \cup {-1}] /\ f[-1] = -1
      /\ \A s \in D : f[s] = IF s \in goal THEN s ELSE f[nx[s]]
  BY DEF Linked, IsWalk
<1> SUFFICES ASSUME NEW R \in SUBSET D, f[i] \in R, Closed(nx, R) PROVE j \in R
  BY DEF Reaches
<1> DEFINE P == {s \in D : f[s] = f[i] /\ s \notin goal}
           S == P \cup R
<1>2. i \in S
  BY <1>1
<1>3. ASSUME NEW s \in P PROVE nx[s] \in S
  <2>1. f[s] = f[i] /\ f[s] = f[nx[s]] /\ nx[s] \in D \cup {-1}
    BY <1>1
  <2>2. nx[s] \in D /\ f[nx[s]] = f[i]
    BY <1>1, <2>1
  <2>3. nx[s] \in goal => nx[s] \in R
    BY <1>1, <2>2
  <2> QED BY <2>2, <2>3
<1>4. Closed(nx, S)
  BY <1>3 DEF Closed
<1>5. S \in SUBSET D
  OBVIOUS
<1>6. j \in S
  BY <1>2, <1>4, <1>5 DEF Reaches
<1> QED BY <1>6

(* A walk by its equation, whatever solution was chosen.                   *)
LEMMA WalkOf ==
  ASSUME NEW t, Linked(DOMAIN t.node, Links(t)), NEW goal, NEW i \in DOMAIN t.node
  PROVE  \E f : IsWalk(DOMAIN t.node, Links(t), goal, f) /\ Walk(t, i, goal) = f[i]
<1> DEFINE D == DOMAIN t.node
           nx == Links(t)
           Eq(f) == f = [j \in D \cup {-1} |-> IF j = -1 \/ j \in goal THEN j ELSE f[t.node[j].next]]
           U == CHOOSE f : Eq(f)
<1>1. \A j \in D \cup {-1} : j # -1 => nx[j] = t.node[j].next
  BY DEF Links, Linked
<1>2. ASSUME NEW f PROVE IsWalk(D, nx, goal, f) <=> Eq(f)
  BY <1>1 DEF IsWalk
<1>3. \E f : IsWalk(D, nx, goal, f)
  BY WalkExists
<1>4. \E f : Eq(f)
  <2> HIDE DEF Eq, D, nx
  <2> QED BY <1>2, <1>3
<1>5. Eq(U)
  BY <1>4, Zenon
<1>6. Walk(t, i, goal) = U[i]
  BY DEF Walk
<1>7. IsWalk(D, nx, goal, U)
  <2> HIDE DEF Eq, D, nx, U
  <2> QED BY <1>2, <1>5
<1> HIDE DEF U, Eq
<1> QED BY <1>6, <1>7

(* What a walk ends at, if anything: the node of goal that is first on the *)
(* chain.                                                                  *)
IsFirst(D, nx, i, goal, w) ==
  /\ w \in (goal \cap D) \cup {-1}
  /\ w = -1 => \A j \in goal \cap D : ~Reaches(D, nx, i, j)
  /\ w # -1 => Reaches(D, nx, i, w) /\ \A j \in goal \cap D : Reaches(D, nx, i, j) => Reaches(D, nx, w, j)

LEMMA WalkIsFirst ==
  ASSUME NEW t, Linked(DOMAIN t.node, Links(t)), NEW goal, NEW i \in DOMAIN t.node
  PROVE  IsFirst(DOMAIN t.node, Links(t), i, goal, Walk(t, i, goal))
<1> DEFINE D == DOMAIN t.node
           nx == Links(t)
           w == Walk(t, i, goal)
<1>1. PICK f : IsWalk(D, nx, goal, f) /\ w = f[i]
  BY WalkOf
<1>2. Linked(D, nx) /\ i \in D
  OBVIOUS
<1> HIDE DEF D, nx, w
<1>3. /\ w \in (goal \cap D) \cup {-1}
      /\ \A S \in SUBSET D : i \in S /\ Closed(nx, S) => w \in S \cup {-1}
      /\ w = -1 => \A j \in goal \cap D : ~Reaches(D, nx, i, j)
  BY <1>1, <1>2, WalkEnds
<1>4. w # -1 => \A j \in goal \cap D : Reaches(D, nx, i, j) => Reaches(D, nx, w, j)
  BY <1>1, <1>2, WalkFirst
<1>5. w # -1 => Reaches(D, nx, i, w)
  BY <1>3 DEF Reaches
<1>6. IsFirst(D, nx, i, goal, w)
  BY <1>3, <1>4, <1>5 DEF IsFirst
<1> QED BY <1>6 DEF D, nx, w

LEMMA OneFirst ==
  ASSUME NEW D, NEW nx, Linked(D, nx), NEW i, NEW goal, NEW v, NEW w,
         IsFirst(D, nx, i, goal, v), IsFirst(D, nx, i, goal, w)
  PROVE  v = w
<1>1. v = -1 <=> w = -1
  BY DEF IsFirst
<1>2. CASE v # -1 /\ w # -1
  <2>1. v \in goal \cap D /\ w \in goal \cap D /\ Reaches(D, nx, v, w) /\ Reaches(D, nx, w, v)
    BY <1>2 DEF IsFirst
  <2> QED BY <2>1, NoWayBack
<1> QED BY <1>1, <1>2

(* Where findindex finds a key whose node is not dead: at that node.       *)
LEMMA FindsLive ==
  ASSUME NEW t, Good(t), NEW i \in DOMAIN t.node, t.node[i].key # Nil, ~t.node[i].dead
  PROVE  FindIndex(t, t.node[i].key) = Len(t.array) + i + 1
<1> DEFINE D == DOMAIN t.node
           nx == Links(t)
           k == t.node[i].key
           m == MainPosition(t, k)
           goal == With(t, k)
           w == Walk(t, m, goal)
<1>1. k \in Keys /\ k \in Hashable /\ ~InArray(t, k)
  BY NodesAre, KeysAre DEF Good, Typed, NodeRecords, Chained
<1>2. m \in D /\ Linked(D, nx) /\ -1 \notin D
  BY <1>1, MainIs DEF Good, Chained, Linked
<1>3. \A j \in D : j \in goal <=> t.node[j].key = k
  BY DEF With
<1>4. Reaches(D, nx, m, i)
  BY DEF Good, Chained, OnChain
<1>5. IsFirst(D, nx, m, goal, w)
  BY <1>2, WalkIsFirst
<1>6. FindIndex(t, k) = IF w = -1 THEN -1 ELSE Len(t.array) + w + 1
  BY <1>1 DEF FindIndex
<1> HIDE DEF w, goal, m, nx
<1>7. w \in D /\ t.node[w].key = k /\ Reaches(D, nx, w, i)
  BY <1>3, <1>4, <1>5 DEF IsFirst
<1>8. w = i
  <2>1. CASE ~t.node[w].dead
    BY <1>7, <2>1 DEF Good, Chained, Unique
  <2>2. CASE t.node[w].dead
    <3>1. Reaches(D, nx, i, w)
      BY <1>7, <2>2 DEF Good, Ahead, nx
    <3> QED BY <1>2, <1>7, <3>1, NoWayBack
  <2> QED BY <2>1, <2>2
<1> QED BY <1>2, <1>6, <1>8

(* findindex finds a key where it was, whatever values have changed and    *)
(* whatever keys have died.                                                *)
Alike(t, u) ==
  /\ DOMAIN u.node = DOMAIN t.node /\ Len(u.array) = Len(t.array) /\ u.lsizenode = t.lsizenode
  /\ \A i \in DOMAIN t.node : u.node[i].key = t.node[i].key /\ u.node[i].next = t.node[i].next
LEMMA SameFind ==
  ASSUME NEW t, Good(t), NEW u, Alike(t, u), NEW k \in Hashable
  PROVE  FindIndex(u, k) = FindIndex(t, k)
<1> DEFINE D == DOMAIN t.node
           nx == Links(t)
           m == MainPosition(t, k)
           goal == With(t, k)
           v == Walk(t, m, goal)
           w == Walk(u, m, goal)
<1>1. Links(u) = nx /\ With(u, k) = goal /\ MainPosition(u, k) = m /\ InArray(u, k) = InArray(t, k)
      /\ Len(u.array) = Len(t.array) /\ DOMAIN u.node = D
  BY SameMain DEF Alike, Links, With, InArray
<1>2. m \in D /\ Linked(D, nx)
  BY MainIs DEF Good, Chained
<1>3. IsFirst(D, nx, m, goal, v)
  BY <1>2, WalkIsFirst
<1>4. IsFirst(D, nx, m, goal, w)
  <2> HIDE DEF nx, m, goal
  <2>1. IsFirst(DOMAIN u.node, Links(u), m, goal, Walk(u, m, goal))
    BY <1>1, <1>2, WalkIsFirst
  <2> QED BY <1>1, <2>1
<1>5. v = w
  <2> HIDE DEF v, w, nx, m, goal
  <2> QED BY <1>2, <1>3, <1>4, OneFirst
<1>6. Walk(u, MainPosition(u, k), With(u, k)) = Walk(t, MainPosition(t, k), With(t, k))
  BY <1>1, <1>5
<1> QED BY <1>1, <1>6 DEF FindIndex
-----------------------------------------------------------------------------
(* The order of a traversal: the array part, then the nodes.               *)
Elements(t) ==
  [i \in 1..Len(t.array) |-> [key |-> i, val |-> t.array[i]]] \o [i \in 1..SizeNode(t) |-> t.node[i - 1]]

LEMMA ElementsAre ==
  ASSUME NEW t, Good(t)
  PROVE  LET e == Elements(t)
             n == Len(t.array)
         IN /\ n \in Nat /\ SizeNode(t) \in Nat /\ DOMAIN e = 1..(n + SizeNode(t))
            /\ \A i \in 1..n : e[i].key = i /\ e[i].val = t.array[i]
            /\ \A i \in DOMAIN t.node : n + i + 1 \in DOMAIN e /\ e[n + i + 1] = t.node[i]
            /\ \A p \in DOMAIN e : p \in 1..n \/ p - n - 1 \in DOMAIN t.node
<1> DEFINE v == [i \in 1..Len(t.array) |-> [key |-> i, val |-> t.array[i]]]
           w == [i \in 1..SizeNode(t) |-> t.node[i - 1]]
           e == Elements(t)
           size == SizeNode(t)
           n == Len(t.array)
<1>1. /\ DOMAIN t.array = 1..n /\ n \in Nat /\ DOMAIN t.node = 0..(size - 1) /\ size \in Nat
  BY NodesAre, SizeIs DEF Good, Typed
<1>2. e = v \o w
  BY DEF Elements
<1> HIDE DEF e, size, n
<1>3. /\ Len(v) = n /\ Len(w) = size
      /\ \A i \in 1..n : v[i] = [key |-> i, val |-> t.array[i]]
      /\ \A i \in 1..size : w[i] = t.node[i - 1]
  BY <1>1 DEF size, n
<1>4. v \in Seq({v[i] : i \in 1..n}) /\ w \in Seq({w[i] : i \in 1..size})
  <2>1. v = [i \in 1..n |-> v[i]] /\ w = [i \in 1..size |-> w[i]]
    BY DEF size, n
  <2> HIDE DEF v, w
  <2>2. v \in Seq({v[i] : i \in 1..n})
    BY <1>1, <2>1, SeqOfOwn
  <2>3. w \in Seq({w[i] : i \in 1..size})
    BY <1>1, <2>1, SeqOfOwn
  <2> QED BY <2>2, <2>3
<1> HIDE DEF v, w
<1>5. /\ DOMAIN e = 1..(n + size)
      /\ \A i \in 1..n : e[i] = v[i]
      /\ \A i \in (n + 1)..(n + size) : e[i] = w[i - n]
  <2> DEFINE X == {v[i] : i \in 1..n} \cup {w[i] : i \in 1..size}
  <2>1. v \in Seq(X) /\ w \in Seq(X)
    BY <1>4
  <2> HIDE DEF X
  <2>2. /\ Len(v \o w) = Len(v) + Len(w) /\ DOMAIN (v \o w) = 1..(Len(v) + Len(w))
        /\ \A i \in 1..Len(v) : (v \o w)[i] = v[i]
        /\ \A i \in (Len(v) + 1)..(Len(v) + Len(w)) : (v \o w)[i] = w[i - Len(v)]
    BY <2>1, Concat
  <2>3. /\ DOMAIN e = 1..(Len(v) + Len(w))
        /\ \A i \in 1..Len(v) : e[i] = v[i]
        /\ \A i \in (Len(v) + 1)..(Len(v) + Len(w)) : e[i] = w[i - Len(v)]
    BY <1>2, <2>2, Zenon
  <2>4. Len(v) = n /\ Len(w) = size
    BY <1>3
  <2> QED BY <2>3, <2>4, Zenon
<1>6. \A i \in 1..n : e[i].key = i /\ e[i].val = t.array[i]
  BY <1>3, <1>5
<1>7. ASSUME NEW i \in DOMAIN t.node PROVE n + i + 1 \in DOMAIN e /\ e[n + i + 1] = t.node[i]
  <2>1. i \in 0..(size - 1) /\ i + 1 \in 1..size /\ (i + 1) - 1 = i
    BY <1>1
  <2> DEFINE p == n + i + 1
  <2>2. p \in (n + 1)..(n + size) /\ p - n = i + 1 /\ p \in 1..(n + size)
    BY <1>1, <2>1
  <2> HIDE DEF p
  <2>3. e[p] = w[i + 1] /\ p \in DOMAIN e
    BY <1>5, <2>2
  <2> USE DEF p
  <2> QED BY <1>3, <1>5, <2>1, <2>2, <2>3
<1>8. ASSUME NEW p \in DOMAIN e PROVE p \in 1..n \/ p - n - 1 \in DOMAIN t.node
  <2>1. p \in 1..(n + size)
    BY <1>5
  <2> QED BY <1>1, <2>1
<1> QED BY <1>1, <1>5, <1>6, <1>7, <1>8 DEF e, size, n

(* Every field has one place in this order, where findindex finds it.      *)
LEMMA PlacesAre ==
  ASSUME NEW t, Good(t)
  PROVE  LET e == Elements(t)
         IN /\ \A p \in DOMAIN e : e[p].val # Nil => e[p].key \in Fields(t) /\ FindIndex(t, e[p].key) = p
            /\ \A k \in Fields(t) : /\ FindIndex(t, k) \in DOMAIN e
                                    /\ e[FindIndex(t, k)].key = k /\ e[FindIndex(t, k)].val # Nil
<1> DEFINE e == Elements(t)
           n == Len(t.array)
<1>1. /\ n \in Nat /\ SizeNode(t) \in Nat /\ DOMAIN e = 1..(n + SizeNode(t))
      /\ \A i \in 1..n : e[i].key = i /\ e[i].val = t.array[i]
      /\ \A i \in DOMAIN t.node : n + i + 1 \in DOMAIN e /\ e[n + i + 1] = t.node[i]
      /\ \A p \in DOMAIN e : p \in 1..n \/ p - n - 1 \in DOMAIN t.node
  BY ElementsAre
<1>2. DOMAIN t.array = 1..n /\ \A i \in DOMAIN t.node : i \in Int
  BY NodesAre DEF Good, Typed
<1> HIDE DEF e
<1>3. ASSUME NEW i \in Slots(t)
      PROVE  i \in 1..n /\ i \in Fields(t) /\ FindIndex(t, i) = i /\ e[i].key = i /\ e[i].val # Nil
  <2>1. i \in 1..n /\ t.array[i] # Nil
    BY <1>2 DEF Slots
  <2>2. i \in Fields(t) /\ InArray(t, i) /\ i # Nil
    BY <2>1, FieldsAre, KeysAre
  <2> QED BY <1>1, <2>1, <2>2 DEF FindIndex
<1>4. ASSUME NEW i \in Live(t)
      PROVE  /\ t.node[i].key \in Fields(t) /\ FindIndex(t, t.node[i].key) = n + i + 1
             /\ n + i + 1 \in DOMAIN e /\ e[n + i + 1].key = t.node[i].key /\ e[n + i + 1].val # Nil
  <2>1. i \in DOMAIN t.node /\ t.node[i].val # Nil
    BY DEF Live
  <2>2. t.node[i].key # Nil /\ ~t.node[i].dead
    BY <2>1 DEF Good, Chained
  <2>3. FindIndex(t, t.node[i].key) = n + i + 1
    BY <2>1, <2>2, FindsLive
  <2>4. t.node[i].key \in Fields(t)
    BY FieldsAre
  <2> QED BY <1>1, <2>1, <2>3, <2>4
<1>5. ASSUME NEW p \in DOMAIN e, e[p].val # Nil
      PROVE  e[p].key \in Fields(t) /\ FindIndex(t, e[p].key) = p
  <2>1. CASE p \in 1..n
    <3>1. p \in Slots(t)
      BY <1>1, <1>2, <1>5, <2>1 DEF Slots
    <3> QED BY <1>3, <3>1
  <2>2. CASE p \notin 1..n
    <3> DEFINE i == p - n - 1
    <3>1. i \in DOMAIN t.node /\ n + i + 1 = p
      BY <1>1, <2>2
    <3> HIDE DEF i
    <3>2. e[p] = t.node[i]
      BY <1>1, <3>1
    <3>3. i \in Live(t)
      BY <1>5, <3>1, <3>2 DEF Live
    <3> QED BY <1>4, <3>1, <3>2, <3>3
  <2> QED BY <2>1, <2>2
<1>6. ASSUME NEW k \in Fields(t)
      PROVE  FindIndex(t, k) \in DOMAIN e /\ e[FindIndex(t, k)].key = k /\ e[FindIndex(t, k)].val # Nil
  <2>1. CASE k \in Slots(t)
    <3>1. k \in 1..(n + SizeNode(t))
      BY <1>1, <1>3, <2>1
    <3> QED BY <1>1, <1>3, <2>1, <3>1
  <2>2. CASE k \notin Slots(t)
    <3>1. PICK i \in Live(t) : k = t.node[i].key
      BY <2>2, FieldsAre
    <3> QED BY <1>4, <3>1
  <2> QED BY <2>1, <2>2
<1> QED BY <1>5, <1>6 DEF e

(* luaH_next: the field that is next in this order, or none.               *)
Gives(t, k, next) ==
  \/ next = None /\ \A j \in Fields(t) : FindIndex(t, j) <= FindIndex(t, k)
  \/ /\ next \in Fields(t) /\ FindIndex(t, next) > FindIndex(t, k)
     /\ \A j \in Fields(t) : FindIndex(t, j) > FindIndex(t, k) => FindIndex(t, j) >= FindIndex(t, next)

LEMMA NextIs ==
  ASSUME NEW t, Good(t), NEW k, FindIndex(t, k) \in Int, FindIndex(t, k) # -1
  PROVE  Gives(t, k, LuaNext(t, k))
<1> DEFINE e == Elements(t)
           at == FindIndex(t, k)
           after == {i \in DOMAIN e : i > at /\ e[i].val # Nil}
<1>1. LuaNext(t, k) = IF after = {} THEN None ELSE e[Min(after)].key
  BY DEF LuaNext, Elements
<1>2. /\ \A p \in DOMAIN e : e[p].val # Nil => e[p].key \in Fields(t) /\ FindIndex(t, e[p].key) = p
      /\ \A j \in Fields(t) : FindIndex(t, j) \in DOMAIN e /\ e[FindIndex(t, j)].val # Nil
  BY PlacesAre
<1>3. DOMAIN e \subseteq Nat
  BY ElementsAre
<1> HIDE DEF e, at
<1>4. \A j \in Fields(t) : FindIndex(t, j) > at => FindIndex(t, j) \in after
  BY <1>2
<1>5. \A j \in Fields(t) : FindIndex(t, j) \in Int
  BY <1>2, <1>3
<1>6. CASE after = {}
  <2>1. \A j \in Fields(t) : FindIndex(t, j) <= at
    BY <1>4, <1>5, <1>6 DEF at
  <2> QED BY <1>1, <1>6, <2>1 DEF Gives, at
<1>7. CASE after # {}
  <2> DEFINE p == Min(after)
  <2>1. after \subseteq Nat
    BY <1>3
  <2>2. after \subseteq DOMAIN e /\ \A i \in after : i > at /\ e[i].val # Nil
    OBVIOUS
  <2> HIDE DEF after
  <2>3. \E x \in after : \A y \in after : x <= y
    BY <1>7, <2>1, Least
  <2>4. p \in after /\ \A y \in after : p <= y
    BY <2>3 DEF Min
  <2> HIDE DEF p
  <2>5. e[p].key \in Fields(t) /\ FindIndex(t, e[p].key) = p /\ p > at
    BY <1>2, <2>2, <2>4
  <2>6. LuaNext(t, k) = e[p].key
    BY <1>1, <1>7 DEF p
  <2>7. \A j \in Fields(t) : FindIndex(t, j) > at => FindIndex(t, j) >= p
    BY <1>4, <1>5, <2>1, <2>4
  <2> QED BY <2>5, <2>6, <2>7 DEF Gives, at
<1> QED BY <1>6, <1>7
-----------------------------------------------------------------------------
(* What a table says does not change while the strings hash to the same.   *)
LEMMA SameHash ==
  ASSUME hash' = hash
  PROVE  /\ Sound(table') => Sound(table)'
         /\ Fields(table)' = Fields(table')
         /\ \A k : Get(table, k)' = Get(table', k)
         /\ \A k : FindIndex(table, k)' = FindIndex(table', k)
<1>1. Sound(table') => Sound(table)'
  BY DEF Sound, Good, Chained, OnChain, MainPosition
<1>2. \A k : Get(table, k)' = Get(table', k)
  BY DEF Get, NodeOf, MainPosition
<1>3. \A k : FindIndex(table, k)' = FindIndex(table', k)
  BY DEF FindIndex, MainPosition
<1>4. Fields(table)' = Fields(table')
  BY <1>2 DEF Fields
<1> QED BY <1>1, <1>2, <1>3, <1>4
-----------------------------------------------------------------------------
(* The key given last has a place still, and the fields that were given    *)
(* are those up to it.                                                     *)
Walked(t, k, given) ==
  FindIndex(t, k) \in Nat /\ \A j \in Fields(t) : j \in given <=> FindIndex(t, j) <= FindIndex(t, k)
LEMMA WalkedStays ==
  ASSUME NEW t, Good(t), NEW u, Alike(t, u), Fields(u) \subseteq Fields(t),
         NEW k \in Keys \cup {Nil}, NEW given, Walked(t, k, given)
  PROVE  Walked(u, k, given)
<1>1. FindIndex(u, k) = FindIndex(t, k)
  <2>1. CASE k = Nil
    BY <2>1 DEF FindIndex
  <2>2. CASE k # Nil
    BY <2>2, KeysAre, SameFind
  <2> QED BY <2>1, <2>2
<1>2. \A j \in Fields(t) : FindIndex(u, j) = FindIndex(t, j)
  BY KeysAre, SameFind DEF Fields
<1> QED BY <1>1, <1>2 DEF Walked

(* An assignment to a field, also of the absent value, leaves its key.     *)
LEMMA ClearsOrChanges ==
  ASSUME NEW t, Sound(t), NEW k \in Keys, Get(t, k) # Nil, NEW v \in Values \cup {Nil}
  PROVE  LET u == Set(t, k, v) IN Alike(t, u) /\ Fields(u) \subseteq Fields(t)
<1> DEFINE u == Set(t, k, v)
<1>1. Has(t, k) /\ Good(t) /\ ~t.full
  BY NoPlace DEF Sound, Fields
<1>2. u = Store(t, k, v)
  BY <1>1 DEF Set
<1>3. Alike(t, u)
  BY <1>1, <1>2, StoreIs DEF Alike
<1>4. \A j \in Keys : j # k => Get(u, j) = Get(t, j)
  BY SetIs, KeysAre
<1> HIDE DEF u
<1>5. Fields(u) \subseteq Fields(t)
  BY <1>4 DEF Fields
<1> QED BY <1>3, <1>5 DEF u

(* The collector: keys without a value die where they are.                 *)
Collected(t) ==
  [t EXCEPT !.node = [i \in DOMAIN @ |->
     IF @[i].val = Nil /\ @[i].key \in Names THEN [@[i] EXCEPT !.dead = TRUE] ELSE @[i]]]
LEMMA CollectedIs ==
  ASSUME NEW t, Sound(t)
  PROVE  LET u == Collected(t)
         IN Sound(u) /\ Alike(t, u) /\ \A k \in Hashable : Get(u, k) = Get(t, k)
<1> DEFINE u == Collected(t)
           dies(i) == t.node[i].val = Nil /\ t.node[i].key \in Names
           node == [i \in DOMAIN t.node |-> IF dies(i) THEN [t.node[i] EXCEPT !.dead = TRUE] ELSE t.node[i]]
<1>1. Good(t) /\ t \in Tables
  BY DEF Sound, Good, Typed
<1>2. u = [t EXCEPT !.node = node]
  BY DEF Collected
<1> HIDE DEF u
<1>3. /\ u.node = node /\ u.array = t.array /\ u.full = t.full /\ u.lsizenode = t.lsizenode
      /\ u.lastfree = t.lastfree /\ u.dummy = t.dummy
  BY <1>1, <1>2 DEF Tables
<1>4. \A i \in DOMAIN t.node : t.node[i] \in NodeRecords
  BY <1>1, NodesAre
<1>5. \A i \in DOMAIN t.node :
        /\ node[i] \in NodeRecords
        /\ node[i].key = t.node[i].key /\ node[i].next = t.node[i].next /\ node[i].val = t.node[i].val
        /\ node[i].dead = (t.node[i].dead \/ dies(i))
  BY <1>4 DEF NodeRecords
<1>6. DOMAIN node = DOMAIN t.node /\ node = [i \in DOMAIN t.node |-> node[i]]
  OBVIOUS
<1> HIDE DEF node
<1>7. u \in Tables
  <2>1. DOMAIN t.node = 0..(SizeNode(t) - 1) /\ SizeNode(t) \in Nat
    BY <1>1, SizeIs, NodesAre DEF Good, Typed
  <2>2. node \in [0..(SizeNode(t) - 1) -> NodeRecords]
    BY <1>5, <1>6, <2>1
  <2> QED BY <1>1, <1>2, <2>1, <2>2 DEF Tables
<1>8. Alike(t, u)
  BY <1>3, <1>5, <1>6 DEF Alike
<1>9. \A i \in DOMAIN t.node :
        /\ t.node[i].dead => u.node[i].dead
        /\ u.node[i].key = Nil => u.node[i].val = Nil /\ ~u.node[i].dead
        /\ u.node[i].dead => u.node[i].val = Nil
  <2>1. \A i \in DOMAIN t.node :
          /\ t.node[i].key = Nil => t.node[i].val = Nil /\ ~t.node[i].dead
          /\ t.node[i].dead => t.node[i].val = Nil
    BY <1>1 DEF Good, Chained
  <2> QED BY <1>3, <1>5, <2>1, KeysAssumption
<1>10. \A i \in DOMAIN u.array : u.array[i] # Nil => i \in Ints
  BY <1>1, <1>3 DEF Good, Filled
<1>11. Good(u)
  BY <1>1, <1>3, <1>7, <1>8, <1>9, <1>10, Revalued DEF Alike
<1>12. Live(u) = Live(t)
  BY <1>3, <1>5, <1>6 DEF Live
<1>13. Pairs(u) = Pairs(t)
  BY <1>3, <1>5, <1>12 DEF Pairs, Live
<1>14. ASSUME NEW k \in Hashable PROVE Get(u, k) = Get(t, k)
  <2>1. InArray(u, k) <=> InArray(t, k)
    BY <1>3 DEF InArray
  <2>2. CASE InArray(t, k)
    BY <1>3, <2>1, <2>2 DEF Get
  <2>3. CASE ~InArray(t, k)
    BY <1>1, <1>11, <1>13, <2>1, <2>3, SameGet
  <2> QED BY <2>2, <2>3
<1>15. Sound(u)
  BY <1>3, <1>11 DEF Sound
<1> QED BY <1>8, <1>14, <1>15 DEF u
-----------------------------------------------------------------------------
(* The inductive invariant.                                                *)
IInv ==
  /\ Sound(table) /\ uses \in KeySets
  /\ last \in Keys \cup {Nil, None} /\ seen \subseteq Keys
  /\ last = None => seen = {}
  /\ last # None => Walked(table, last, seen)

LEMMA IInvInit == Init => IInv
<1> SUFFICES ASSUME Init PROVE IInv
  OBVIOUS
<1>1. PICK fields \in SUBSET uses, items \in BoundedSeq(Values \cup {Nil}, MaxItems) :
        \E narray \in 0..Len(items) :
          /\ Cardinality(fields) <= MaxItems
          /\ table = Constructed(fields, items, narray)
  BY DEF Init
<1>2. PICK narray \in 0..Len(items) : table = Constructed(fields, items, narray)
  BY <1>1
<1>3. items \in Seq(Values \cup {Nil}) /\ Len(items) <= MaxItems
  BY KeysAssumption DEF BoundedSeq, SeqOf
<1>4. fields \in SUBSET Keys /\ uses \in KeySets /\ hash \in Hashes
  BY KeysAssumption DEF Init
<1>5. Sound(table)
  BY <1>2, <1>3, <1>4, ConstructedIs
<1> QED BY <1>4, <1>5 DEF Init, IInv

(* What holds after a step, said of the next table with the same hash.     *)
LEMMA IInvSame ==
  ASSUME hash' = hash, uses' = uses, IInv, Sound(table'),
         last' \in Keys \cup {Nil, None}, seen' \subseteq Keys, last' = None => seen' = {},
         last' # None => Walked(table', last', seen')
  PROVE  IInv'
<1>1. Sound(table)'
  BY SameHash
<1>2. Walked(table', last', seen') => Walked(table, last, seen)'
  BY DEF Walked, FindIndex, Fields, Get, NodeOf, MainPosition
<1> QED BY <1>1, <1>2 DEF IInv

LEMMA IInvNext == IInv /\ [Next]_vars => IInv'
<1> SUFFICES ASSUME IInv, [Next]_vars PROVE IInv'
  OBVIOUS
<1>1. /\ Sound(table) /\ Good(table) /\ uses \in KeySets /\ uses \subseteq Keys
      /\ last \in Keys \cup {Nil, None} /\ seen \subseteq Keys
      /\ last = None => seen = {}
      /\ last # None => Walked(table, last, seen)
  BY KeysAssumption DEF IInv, Sound
<1>2. None # Nil /\ None # Invalid /\ None \notin Keys
  BY KeysAssumption DEF Keys
<1>3. CASE Start
  <2>1. hash' = hash /\ uses' = uses /\ table' = table /\ last' = Nil /\ seen' = {}
    BY <1>1, <1>3 DEF Start
  <2>2. \A k \in Fields(table) : FindIndex(table, k) > 0
    <3>1. \A k \in Fields(table) : FindIndex(table, k) \in DOMAIN Elements(table)
      BY <1>1, PlacesAre
    <3> QED BY <1>1, <3>1, ElementsAre
  <2>3. FindIndex(table, Nil) = 0
    BY DEF FindIndex
  <2>4. \A k \in Fields(table) : FindIndex(table, k) \in Int
    BY <1>1, PlacesAre, ElementsAre
  <2>5. Walked(table, Nil, {})
    BY <2>2, <2>3, <2>4 DEF Walked
  <2>6. Sound(table') /\ Walked(table', last', seen')
    BY <1>1, <2>1, <2>5
  <2> QED BY <1>2, <2>1, <2>6, IInvSame
<1>4. CASE Traverse
  <2>1. /\ hash' = hash /\ uses' = uses /\ table' = table /\ last # None
        /\ last' = LuaNext(table, last) /\ seen' = IF last' = None THEN {} ELSE seen \cup {last'}
    BY <1>4 DEF Traverse
  <2>2. /\ FindIndex(table, last) \in Nat
        /\ \A j \in Fields(table) : j \in seen <=> FindIndex(table, j) <= FindIndex(table, last)
    BY <1>1, <2>1 DEF Walked
  <2>3. Gives(table, last, last')
    BY <1>1, <2>1, <2>2, NextIs
  <2>4. CASE last' = None
    BY <1>1, <2>1, <2>4, IInvSame
  <2>5. CASE last' # None
    <3>1. /\ last' \in Fields(table) /\ FindIndex(table, last') > FindIndex(table, last)
          /\ \A j \in Fields(table) : FindIndex(table, j) > FindIndex(table, last) =>
                                        FindIndex(table, j) >= FindIndex(table, last')
      BY <2>3, <2>5 DEF Gives
    <3>2. \A j \in Fields(table) : /\ FindIndex(table, j) \in Nat
                                   /\ Elements(table)[FindIndex(table, j)].key = j
      BY <1>1, PlacesAre, ElementsAre
    <3>3. ASSUME NEW j \in Fields(table)
          PROVE  j \in seen \cup {last'} <=> FindIndex(table, j) <= FindIndex(table, last')
      <4>1. FindIndex(table, j) = FindIndex(table, last') => j = last'
        BY <3>1, <3>2
      <4>2. FindIndex(table, j) \in Nat /\ FindIndex(table, last') \in Nat
        BY <3>1, <3>2
      <4> QED BY <2>2, <3>1, <4>1, <4>2
    <3>4. Walked(table', last', seen')
      BY <2>1, <2>5, <3>1, <3>2, <3>3 DEF Walked
    <3>5. last' \in Keys
      BY <3>1 DEF Fields
    <3> QED BY <1>1, <2>1, <2>5, <3>4, <3>5, IInvSame
  <2> QED BY <2>4, <2>5
<1>5. CASE Collect
  <2>1. table' = Collected(table) /\ UNCHANGED <<hash, last, seen, uses>>
    BY <1>5 DEF Collect, Collected
  <2>2. Sound(table') /\ Alike(table, table') /\ \A k \in Hashable : Get(table', k) = Get(table, k)
    BY <1>1, <2>1, CollectedIs
  <2>3. Fields(table') \subseteq Fields(table)
    BY <2>2, KeysAre DEF Fields
  <2>4. last # None => Walked(table', last, seen)
    BY <1>1, <2>2, <2>3, WalkedStays
  <2> QED BY <1>1, <2>1, <2>2, <2>4, IInvSame
<1>6. ASSUME NEW k \in uses, NEW v \in Values \cup {Nil}, Assign(k, v) PROVE IInv'
  <2>1. table' = Set(table, k, v) /\ hash' = hash /\ uses' = uses /\ k \in Keys
    BY <1>1, <1>6 DEF Assign
  <2>2. Sound(table')
    BY <1>1, <2>1, SetIs
  <2>3. CASE Get(table, k) = Nil
    <3>1. last' = None /\ seen' = {}
      BY <1>6, <2>3 DEF Assign
    <3> QED BY <2>1, <2>2, <3>1, <1>1, IInvSame
  <2>4. CASE Get(table, k) # Nil
    <3>1. last' = last /\ seen' = seen
      BY <1>6, <2>4 DEF Assign
    <3>2. Alike(table, table') /\ Fields(table') \subseteq Fields(table)
      BY <1>1, <2>1, <2>4, ClearsOrChanges
    <3>3. last # None => Walked(table', last, seen)
      BY <1>1, <3>2, WalkedStays
    <3> QED BY <1>1, <2>1, <2>2, <3>1, <3>3, IInvSame
  <2> QED BY <2>3, <2>4
<1>7. CASE UNCHANGED vars
  <2>1. hash' = hash /\ uses' = uses /\ table' = table /\ last' = last /\ seen' = seen
    BY <1>7 DEF vars
  <2>2. Sound(table') /\ (last # None => Walked(table', last, seen))
    BY <1>1, <2>1
  <2> QED BY <1>1, <2>1, <2>2, IInvSame
<1> QED BY <1>3, <1>4, <1>5, <1>6, <1>7 DEF Next

LEMMA IInvHolds == Spec => []IInv
<1>1. Init => IInv
  BY IInvInit
<1>2. IInv /\ [Next]_vars => IInv'
  BY IInvNext
<1> QED BY <1>1, <1>2, PTL DEF Spec

(* The parts of a table keep their form, whatever is assigned, cleared and *)
(* collected in whatever order, and next is never told "invalid key":      *)
(* ltable.c's Table and Node.                                              *)
THEOREM TypeCorrect == Spec => []TypeOK
<1>1. IInv => TypeOK
  <2> SUFFICES ASSUME IInv PROVE TypeOK
    OBVIOUS
  <2>1. Good(table)
    BY DEF IInv, Sound
  <2>2. /\ table.array \in Seq(Values \cup {Nil}) /\ DOMAIN table.node = 0..(SizeNode(table) - 1)
        /\ table.lastfree \in Nat /\ table.lastfree <= SizeNode(table) /\ SizeNode(table) \in Nat
        /\ \A i \in DOMAIN table.node : table.node[i] \in NodeRecords
    BY <2>1, NodesAre, SizeIs DEF Good, Typed
  <2>3. table.lastfree \in 0..SizeNode(table)
    BY <2>2
  <2>4. \A i \in DOMAIN table.node : table.node[i].next \in DOMAIN table.node \cup {-1}
    BY <2>1 DEF Good, Chained, Linked, Links
  <2>5. \A i \in DOMAIN table.node :
          (table.node[i].key = Nil \/ table.node[i].dead) => table.node[i].val = Nil
    BY <2>1 DEF Good, Chained
  <2>6. \A i \in DOMAIN table.node :
          /\ table.node[i].key \in Keys \cup {Nil} /\ table.node[i].val \in Values \cup {Nil}
          /\ table.node[i].dead \in BOOLEAN
    BY <2>2 DEF NodeRecords
  <2>7. \A n \in Range(table.node) : \E i \in DOMAIN table.node : n = table.node[i]
    BY DEF Range
  <2>8. last \in Keys \cup {Nil, None} /\ seen \subseteq Keys
    BY DEF IInv
  <2>9. \A n \in Range(table.node) :
          /\ n.key \in Keys \cup {Nil} /\ n.val \in Values \cup {Nil}
          /\ n.next \in DOMAIN table.node \cup {-1} /\ n.dead \in BOOLEAN
          /\ (n.key = Nil \/ n.dead) => n.val = Nil
    BY <2>4, <2>5, <2>6, <2>7
  <2> QED BY <2>2, <2>3, <2>8, <2>9 DEF TypeOK
<1>2. Spec => []IInv
  BY IInvHolds
<1> QED BY <1>1, <1>2, PTL

(* Every key with a value is found on the chain of its main position, once,*)
(* whatever collided before: mainposition, newkey and luaH_get.            *)
THEOREM KeysAreReached == Spec => []ChainsReach
<1>1. IInv => ChainsReach
  <2> SUFFICES ASSUME IInv PROVE ChainsReach
    OBVIOUS
  <2> DEFINE t == table
             D == DOMAIN t.node
  <2>1. Good(t) /\ Chained(t) /\ Filled(t) /\ Linked(D, Links(t)) /\ Unique(t)
    BY DEF IInv, Sound, Good, Chained
  <2>2. \A i, j \in D : i # j /\ t.node[i].next # -1 => t.node[i].next # t.node[j].next
    BY <2>1 DEF Linked, OnePrevious, Links
  <2>3. ASSUME NEW i \in Live(t)
        PROVE  /\ Walk(t, MainPosition(t, t.node[i].key), {i}) = i
               /\ ~InArray(t, t.node[i].key)
               /\ \A j \in Live(t) : t.node[j].key = t.node[i].key => i = j
    <3> DEFINE m == MainPosition(t, t.node[i].key)
               w == Walk(t, m, {i})
    <3>1. \A j \in Live(t) : j \in D /\ t.node[j].key # Nil /\ ~t.node[j].dead
      BY <2>1 DEF Live, Chained
    <3>2. t.node[i].key \in Hashable
      BY FieldsAre, KeysAre, <2>1
    <3>3. m \in D /\ Reaches(D, Links(t), m, i) /\ ~InArray(t, t.node[i].key)
      BY <2>1, <3>1, <3>2, MainIs DEF Chained, OnChain, Good
    <3>4. IsFirst(D, Links(t), m, {i}, w)
      <4> HIDE DEF m
      <4> QED BY <2>1, <3>3, WalkIsFirst
    <3>5. i \in {i} \cap D
      BY <3>1
    <3> HIDE DEF w, m, D
    <3>6. w = i
      BY <3>3, <3>4, <3>5 DEF IsFirst
    <3>7. \A j \in Live(t) : t.node[j].key = t.node[i].key => i = j
      BY <2>1, <3>1 DEF Unique, D
    <3> QED BY <3>3, <3>6, <3>7 DEF w, m
  <2>4. ~t.dummy => \A i \in D : i >= t.lastfree => t.node[i].key # Nil
    BY <2>1 DEF Filled
  <2> QED BY <2>2, <2>3, <2>4 DEF ChainsReach
<1>2. Spec => []IInv
  BY IInvHolds
<1> QED BY <1>1, <1>2, PTL

(* A rehash makes room for its key: luaH_set always finds a place for its  *)
(* value, and newkey does not rehash twice for it (computesizes).          *)
THEOREM RehashMakesRoom == Spec => []RehashFits
<1>1. IInv => RehashFits
  <2> SUFFICES ASSUME IInv, NEW k \in uses
               PROVE  /\ \A v \in Values \cup {Nil} : Get(Set(table, k, v), k) = v
                      /\ ~Has(table, k) =>
                           LET u == Rehash(table, k)
                           IN /\ ~u.full /\ \A j \in uses : Get(u, j) = Get(table, j)
                              /\ Len(u.array) = Best(Candidates(table, k))
                              /\ ~Has(u, k) => ~PutKey(u, k).full
    BY DEF RehashFits
  <2>1. Sound(table) /\ Good(table) /\ ~table.full /\ uses \subseteq Keys /\ uses \subseteq Hashable /\ k \in Keys
    BY KeysAssumption, KeysAre DEF IInv, Sound
  <2>2. \A v \in Values \cup {Nil} : Get(Set(table, k, v), k) = v
    BY <2>1, SetIs
  <2>3. ASSUME ~Has(table, k)
        PROVE  LET u == Rehash(table, k)
               IN /\ ~u.full /\ \A j \in uses : Get(u, j) = Get(table, j)
                  /\ Len(u.array) = Best(Candidates(table, k))
                  /\ ~Has(u, k) => ~PutKey(u, k).full
    <3> DEFINE u == Rehash(table, k)
    <3>1. /\ Good(u) /\ ~u.full /\ \A j \in Hashable : Get(u, j) = Get(table, j)
          /\ Len(u.array) = Best(Candidates(table, k))
          /\ ~InArray(u, k) => ~u.dummy /\ Used(u) # DOMAIN u.node
      BY <2>1, <2>3, RehashIs
    <3> HIDE DEF u
    <3>2. ASSUME ~Has(u, k) PROVE ~PutKey(u, k).full
      <4>1. ~u.dummy /\ Used(u) # DOMAIN u.node
        BY <3>1, <3>2 DEF Has
      <4>2. Put(u, PutKey(u, k), k)
        BY <2>1, <3>1, <3>2, <4>1, PutKeyIs
      <4> QED BY <3>1, <4>2 DEF Put
    <3> QED BY <2>1, <3>1, <3>2 DEF u
  <2> QED BY <2>2, <2>3
<1>2. Spec => []IInv
  BY IInvHolds
<1> QED BY <1>1, <1>2, PTL
-----------------------------------------------------------------------------
(* What a table holds for a key.                                           *)
LEMMA GetType ==
  ASSUME NEW t, Good(t), NEW k \in Hashable
  PROVE  Get(t, k) \in Values \cup {Nil}
<1>1. /\ t.array \in Seq(Values \cup {Nil}) /\ DOMAIN t.array = 1..Len(t.array)
      /\ \A i \in DOMAIN t.node : t.node[i].val \in Values \cup {Nil}
  BY NodesAre DEF Good, Typed, NodeRecords
<1>2. NodeOf(t, k) # -1 => NodeOf(t, k) \in DOMAIN t.node
  BY NodeOfIs
<1>3. CASE InArray(t, k)
  BY <1>1, <1>3 DEF Get, InArray
<1>4. CASE ~InArray(t, k)
  BY <1>1, <1>2, <1>4 DEF Get
<1> QED BY <1>3, <1>4

(* The steps of a table are those of AssociativeTable: the content changes *)
(* for the assigned key only, and next gives every field once, luaH_set,   *)
(* rehash and luaH_next.                                                   *)
THEOREM ImplementsAssociativeTable == Spec => IsATable
<1> DEFINE content == [k \in Keys |-> Get(table, k)]
<1>1. Init => A!Init
  <2> SUFFICES ASSUME Init PROVE A!Init
    OBVIOUS
  <2>1. Good(table)
    BY IInvInit DEF IInv, Sound
  <2>2. \A k \in Keys : Get(table, k) \in Values \cup {Nil}
    BY <2>1, GetType, KeysAre
  <2> QED BY <2>2 DEF A!Init, Init
<1>2. IInv /\ [Next]_vars => [A!Next]_(A!vars)
  <2> SUFFICES ASSUME IInv, [Next]_vars PROVE [A!Next]_(A!vars)
    OBVIOUS
  <2>1. /\ Sound(table) /\ Good(table) /\ uses \subseteq Keys
        /\ last \in Keys \cup {Nil, None} /\ seen \subseteq Keys
        /\ last # None => Walked(table, last, seen)
    BY KeysAssumption DEF IInv, Sound
  <2>2. ASSUME hash' = hash PROVE content' = [k \in Keys |-> Get(table', k)]
    BY <2>2, SameHash
  <2>3. A!Present = Fields(table)
    BY DEF A!Present, Fields
  <2>4. CASE Start
    <3>1. content' = content
      BY <2>2, <2>4 DEF Start
    <3> QED BY <2>4, <3>1 DEF Start, A!Start, A!Next
  <2>5. CASE Traverse
    <3>1. /\ hash' = hash /\ table' = table /\ last # None
          /\ last' = LuaNext(table, last) /\ seen' = IF last' = None THEN {} ELSE seen \cup {last'}
      BY <2>5 DEF Traverse
    <3>2. content' = content
      BY <2>2, <3>1
    <3>3. /\ FindIndex(table, last) \in Nat
          /\ \A j \in Fields(table) : j \in seen <=> FindIndex(table, j) <= FindIndex(table, last)
      BY <2>1, <3>1 DEF Walked
    <3>4. Gives(table, last, last')
      BY <2>1, <3>1, <3>3, NextIs
    <3>5. CASE last' = None
      <4>1. None \notin Keys
        BY KeysAssumption DEF Keys
      <4>2. Fields(table) \subseteq seen
        BY <3>3, <3>4, <3>5, <4>1 DEF Gives, Fields
      <4>3. A!End
        BY <2>3, <3>1, <3>2, <3>5, <4>2 DEF A!End
      <4> QED BY <4>3 DEF A!Next
    <3>6. CASE last' # None
      <4>1. last' \in Fields(table) /\ FindIndex(table, last') > FindIndex(table, last)
        BY <3>4, <3>6 DEF Gives
      <4>2. FindIndex(table, last') \in Nat
        BY <2>1, <4>1, PlacesAre, ElementsAre
      <4>3. last' \notin seen /\ last' \in Keys
        BY <3>3, <4>1, <4>2 DEF Fields
      <4>4. A!Give(last')
        BY <2>3, <3>1, <3>2, <3>6, <4>1, <4>3 DEF A!Give
      <4> QED BY <4>3, <4>4 DEF A!Next
    <3> QED BY <3>5, <3>6
  <2>6. CASE Collect
    <3>1. table' = Collected(table) /\ UNCHANGED <<hash, last, seen>>
      BY <2>6 DEF Collect, Collected
    <3>2. \A k \in Keys : Get(table', k) = Get(table, k)
      BY <2>1, <3>1, CollectedIs, KeysAre
    <3>3. content' = content
      BY <2>2, <3>1, <3>2
    <3> QED BY <3>1, <3>3 DEF A!vars
  <2>7. ASSUME NEW k \in uses, NEW v \in Values \cup {Nil}, Assign(k, v) PROVE A!Next
    <3>1. table' = Set(table, k, v) /\ hash' = hash /\ k \in Keys
      BY <2>1, <2>7 DEF Assign
    <3>2. Get(table', k) = v /\ \A j \in Keys : j # k => Get(table', j) = Get(table, j)
      BY <2>1, <3>1, SetIs, KeysAre
    <3>3. content' = [j \in Keys |-> Get(table', j)]
      BY <2>2, <3>1
    <3>4. {j \in Keys : content'[j] # content[j]} \subseteq {k} /\ content'[k] \in Values \cup {Nil}
      BY <3>1, <3>2, <3>3
    <3>5. IF k \in A!Present THEN UNCHANGED <<last, seen>> ELSE last' = None /\ seen' = {}
      BY <2>3, <2>7, <3>1 DEF Assign, Fields
    <3>6. A!Assign
      BY <3>1, <3>4, <3>5 DEF A!Assign
    <3> QED BY <3>6 DEF A!Next
  <2>8. CASE UNCHANGED vars
    <3>1. hash' = hash /\ table' = table /\ last' = last /\ seen' = seen
      BY <2>8 DEF vars
    <3>2. content' = content
      BY <2>2, <3>1
    <3> QED BY <3>1, <3>2 DEF A!vars
  <2> QED BY <2>4, <2>5, <2>6, <2>7, <2>8 DEF Next
<1>3. Spec => []IInv
  BY IInvHolds
<1> QED BY <1>1, <1>2, <1>3, PTL DEF Spec, IsATable, A!Spec
-----------------------------------------------------------------------------
(* A function on the first numbers that is defined by its value before.    *)
IsIterate(b, N, base, F) == b = [n \in 0..N |-> IF n = 0 THEN base ELSE F[b[n - 1]]]
LEMMA Iterates ==
  ASSUME NEW N \in Nat, NEW S, NEW base \in S, NEW F \in [S -> S]
  PROVE  \E b \in [0..N -> S] : IsIterate(b, N, base, F)
<1> DEFINE Solves(b, l) == b \in [0..l -> S] /\ b = [n \in 0..l |-> IF n = 0 THEN base ELSE F[b[n - 1]]]
           C == {l \in 0..N : \E b : Solves(b, l)}
<1>1. 0 \in C
  <2> DEFINE b == [n \in 0..0 |-> base]
  <2>1. Solves(b, 0)
    OBVIOUS
  <2> HIDE DEF Solves, b
  <2> QED BY <2>1
<1>2. ASSUME NEW l \in 1..N, l - 1 \in C PROVE l \in C
  <2>1. PICK b : Solves(b, l - 1)
    BY <1>2
  <2>2. b \in [0..(l - 1) -> S] /\ \A n \in 0..(l - 1) : b[n] = IF n = 0 THEN base ELSE F[b[n - 1]]
    BY <2>1
  <2> DEFINE c == [n \in 0..l |-> IF n = l THEN F[b[l - 1]] ELSE b[n]]
  <2>3. \A n \in 0..l : n # l => n \in 0..(l - 1)
    OBVIOUS
  <2>4. l - 1 \in 0..(l - 1) /\ F[b[l - 1]] \in S
    BY <2>2
  <2>5. c \in [0..l -> S]
    BY <2>2, <2>3, <2>4
  <2>6. \A n \in 0..l : n # 0 => c[n - 1] = b[n - 1]
    OBVIOUS
  <2>7. \A n \in 0..l : c[n] = IF n = 0 THEN base ELSE F[c[n - 1]]
    BY <2>2, <2>3, <2>6
  <2>8. c = [n \in 0..l |-> c[n]]
    OBVIOUS
  <2> HIDE DEF c
  <2>9. Solves(c, l)
    BY <2>5, <2>7, <2>8
  <2> HIDE DEF Solves
  <2> QED BY <2>9
<1> HIDE DEF C
<1>3. \A l \in 0..N : l \in C
  BY <1>1, <1>2, Induct
<1> USE DEF C
<1>4. PICK b : Solves(b, N)
  BY <1>3
<1> QED BY <1>4 DEF IsIterate

(* A border: a field, or 0, with no field after it.                        *)
Border(t, n) == n \in Nat /\ (n = 0 \/ Get(t, n) # Nil) /\ Get(t, n + 1) = Nil
Bounds == [i : Nat, j : Nat]
Between(t, p) == p \in Bounds /\ p.i < p.j /\ (p.i = 0 \/ Get(t, p.i) # Nil)

LEMMA HalveIs ==
  ASSUME NEW t, NEW i \in Nat, NEW j \in Nat, i < j, i = 0 \/ Get(t, i) # Nil, Get(t, j) = Nil
  PROVE  Border(t, Halve(t, i, j))
<1> DEFINE half(p) == LET m == (p.i + p.j) \div 2
                      IN CASE p.j - p.i <= 1 -> p
                           [] p.j - p.i > 1 /\ Get(t, m) = Nil -> [p EXCEPT !.j = m]
                           [] OTHER -> [p EXCEPT !.i = m]
           base == [i |-> i, j |-> j]
           F == [p \in Bounds |-> half(p)]
           N == j - i
           Eq(b) == b = [n \in 0..N |-> IF n = 0 THEN base ELSE half(b[n - 1])]
           U == CHOOSE b : Eq(b)
<1>1. N \in Nat /\ base \in Bounds /\ base.i = i /\ base.j = j
  BY DEF Bounds
<1>2. Halve(t, i, j) = U[N].i
  BY DEF Halve
<1> HIDE DEF base, N
<1>3. ASSUME NEW p \in Bounds, p.j - p.i <= 1 PROVE half(p) = p
  BY <1>3 DEF Bounds
<1>4. ASSUME NEW p \in Bounds, p.j - p.i > 1
      PROVE  /\ half(p) \in Bounds /\ half(p).i < half(p).j /\ half(p).j - half(p).i <= p.j - p.i - 1
             /\ \/ half(p).i = p.i /\ Get(t, half(p).j) = Nil
                \/ half(p).j = p.j /\ Get(t, half(p).i) # Nil
  <2> DEFINE m == (p.i + p.j) \div 2
  <2>1. p.i \in Nat /\ p.j \in Nat
    BY DEF Bounds
  <2>2. m \in Nat /\ p.i < m /\ m < p.j
    BY <1>4, <2>1
  <2>3. half(p) = IF Get(t, m) = Nil THEN [p EXCEPT !.j = m] ELSE [p EXCEPT !.i = m]
    BY <1>4, <2>1
  <2> HIDE DEF m, half
  <2>4. CASE Get(t, m) = Nil
    <3>1. half(p) \in Bounds /\ half(p).i = p.i /\ half(p).j = m
      BY <2>2, <2>3, <2>4 DEF Bounds
    <3> QED BY <2>1, <2>2, <2>4, <3>1
  <2>5. CASE Get(t, m) # Nil
    <3>1. half(p) \in Bounds /\ half(p).j = p.j /\ half(p).i = m
      BY <2>2, <2>3, <2>5 DEF Bounds
    <3> QED BY <2>1, <2>2, <2>5, <3>1
  <2> QED BY <2>4, <2>5
<1> HIDE DEF half
<1>5. \A p \in Bounds : F[p] = half(p) /\ half(p) \in Bounds
  BY <1>3, <1>4 DEF Bounds
<1>6. F \in [Bounds -> Bounds]
  BY <1>5
<1> HIDE DEF F
<1>7. PICK b \in [0..N -> Bounds] : IsIterate(b, N, base, F)
  BY <1>1, <1>6, Iterates
<1>8. \A n \in 0..N : n # 0 => b[n - 1] \in Bounds
  BY <1>1
<1>9. Eq(b)
  BY <1>5, <1>7, <1>8 DEF IsIterate
<1>10. Eq(U)
  BY <1>9, Zenon
<1> HIDE DEF U
<1>11. U[0] = base /\ \A n \in 1..N : U[n] = half(U[n - 1])
  BY <1>1, <1>10
<1> HIDE DEF Eq
<1> DEFINE C == {n \in 0..N : /\ Between(t, U[n]) /\ Get(t, U[n].j) = Nil
                              /\ U[n].j - U[n].i = 1 \/ U[n].j - U[n].i <= N - n}
<1>12. 0 \in C
  <2>1. Between(t, base) /\ Get(t, base.j) = Nil /\ base.j - base.i <= N - 0
    BY <1>1 DEF Between, N
  <2> QED BY <1>1, <1>11, <2>1
<1>13. ASSUME NEW n \in 1..N, n - 1 \in C PROVE n \in C
  <2> DEFINE p == U[n - 1]
  <2>1. /\ Between(t, p) /\ Get(t, p.j) = Nil /\ U[n] = half(p)
        /\ p.j - p.i = 1 \/ p.j - p.i <= N - (n - 1)
    BY <1>11, <1>13
  <2> HIDE DEF p
  <2>2. p \in Bounds /\ p.i \in Nat /\ p.j \in Nat /\ p.i < p.j /\ (p.i = 0 \/ Get(t, p.i) # Nil)
    BY <2>1 DEF Between, Bounds
  <2>3. CASE p.j - p.i <= 1
    <3>1. U[n] = p /\ p.j - p.i = 1
      BY <1>3, <2>1, <2>2, <2>3
    <3> QED BY <2>1, <3>1
  <2>4. CASE p.j - p.i > 1
    <3>1. /\ U[n] \in Bounds /\ U[n].i < U[n].j /\ U[n].j - U[n].i <= p.j - p.i - 1
          /\ \/ U[n].i = p.i /\ Get(t, U[n].j) = Nil
             \/ U[n].j = p.j /\ Get(t, U[n].i) # Nil
      BY <1>4, <2>1, <2>2, <2>4
    <3>2. Between(t, U[n]) /\ Get(t, U[n].j) = Nil
      BY <2>1, <2>2, <3>1 DEF Between
    <3>3. U[n].j - U[n].i <= N - n
      <4>1. U[n].i \in Nat /\ U[n].j \in Nat
        BY <3>1 DEF Bounds
      <4>2. p.j - p.i <= N - (n - 1)
        BY <2>1, <2>4
      <4> QED BY <1>1, <2>2, <3>1, <4>1, <4>2
    <3> QED BY <3>2, <3>3
  <2> QED BY <2>2, <2>3, <2>4
<1> HIDE DEF C
<1>14. \A n \in 0..N : n \in C
  BY <1>1, <1>12, <1>13, Induct
<1>15. N \in 0..N
  BY <1>1
<1>16. /\ U[N] \in Bounds /\ U[N].i < U[N].j /\ (U[N].i = 0 \/ Get(t, U[N].i) # Nil) /\ Get(t, U[N].j) = Nil
       /\ U[N].j - U[N].i = 1 \/ U[N].j - U[N].i <= N - N
  BY <1>14, <1>15 DEF C, Between
<1>17. U[N].i \in Nat /\ U[N].j = U[N].i + 1
  <2>1. U[N].i \in Nat /\ U[N].j \in Nat
    BY <1>16 DEF Bounds
  <2> QED BY <1>1, <1>16, <2>1
<1> QED BY <1>2, <1>16, <1>17 DEF Border

LEMMA DoubleIs ==
  ASSUME NEW t, NEW i \in Nat, i = 0 \/ Get(t, i) # Nil, Get(t, MaxInt + 1) = Nil
  PROVE  Border(t, Double(t, i, i + 1))
<1> DEFINE j == i + 1
           double(p) == IF Get(t, p.j) = Nil \/ 2 * p.j > MaxInt THEN p ELSE [i |-> p.j, j |-> 2 * p.j]
           base == [i |-> i, j |-> j]
           G == [p \in Bounds |-> double(p)]
           Eq(b) == b = [n \in 0..MaxInt |-> IF n = 0 THEN base ELSE double(b[n - 1])]
           U == CHOOSE b : Eq(b)
           end == U[MaxInt]
           ends == {n \in 1..(MaxInt + 1) : Get(t, n) = Nil}
<1>1. MaxInt \in Nat /\ base \in Bounds /\ Between(t, base)
  BY KeysAssumption DEF Bounds, Between
<1>2. Double(t, i, j) = IF Get(t, end.j) = Nil THEN Halve(t, end.i, end.j) ELSE Min(ends) - 1
  BY DEF Double
<1>3. ASSUME NEW p \in Bounds
      PROVE  /\ double(p) \in Bounds /\ G[p] = double(p)
             /\ Between(t, p) => Between(t, double(p))
  <2>1. p.i \in Nat /\ p.j \in Nat
    BY DEF Bounds
  <2>2. CASE Get(t, p.j) = Nil \/ 2 * p.j > MaxInt
    BY <2>2
  <2>3. CASE ~(Get(t, p.j) = Nil \/ 2 * p.j > MaxInt)
    <3>1. double(p) = [i |-> p.j, j |-> 2 * p.j] /\ Get(t, p.j) # Nil
      BY <2>3
    <3>2. double(p) \in Bounds
      BY <2>1, <3>1 DEF Bounds
    <3>3. ASSUME Between(t, p) PROVE Between(t, double(p))
      <4>1. p.j >= 1 /\ p.j < 2 * p.j
        BY <2>1, <3>3 DEF Between
      <4> HIDE DEF double
      <4>2. double(p).i = p.j /\ double(p).j = 2 * p.j
        BY <3>1
      <4> QED BY <3>1, <3>2, <4>1, <4>2 DEF Between
    <3> QED BY <3>2, <3>3
  <2> QED BY <2>2, <2>3
<1> HIDE DEF base, double, j
<1>4. G \in [Bounds -> Bounds]
  BY <1>3
<1> HIDE DEF G
<1>5. PICK b \in [0..MaxInt -> Bounds] : IsIterate(b, MaxInt, base, G)
  BY <1>1, <1>4, Iterates
<1>6. \A n \in 0..MaxInt : n # 0 => b[n - 1] \in Bounds
  BY <1>1
<1>7. Eq(b)
  BY <1>3, <1>5, <1>6 DEF IsIterate
<1>8. Eq(U)
  BY <1>7, Zenon
<1> HIDE DEF U
<1>9. U[0] = base /\ \A n \in 1..MaxInt : U[n] = double(U[n - 1])
  BY <1>1, <1>8
<1> HIDE DEF Eq
<1> DEFINE C == {n \in 0..MaxInt : U[n] \in Bounds /\ Between(t, U[n])}
<1>10. 0 \in C
  BY <1>1, <1>9
<1>11. ASSUME NEW n \in 1..MaxInt, n - 1 \in C PROVE n \in C
  BY <1>3, <1>9, <1>11
<1> HIDE DEF C
<1>12. \A n \in 0..MaxInt : n \in C
  BY <1>1, <1>10, <1>11, Induct
<1>13. Between(t, end)
  <2>1. MaxInt \in 0..MaxInt
    BY <1>1
  <2> QED BY <1>12, <2>1 DEF C
<1> HIDE DEF end, ends
<1>14. CASE Get(t, end.j) = Nil
  <2>1. end.i \in Nat /\ end.j \in Nat /\ end.i < end.j /\ (end.i = 0 \/ Get(t, end.i) # Nil)
    BY <1>13 DEF Between, Bounds
  <2>2. Border(t, Halve(t, end.i, end.j))
    BY <1>14, <2>1, HalveIs
  <2> QED BY <1>2, <1>14, <2>2 DEF j
<1>15. CASE Get(t, end.j) # Nil
  <2>1. ends \subseteq Nat /\ MaxInt + 1 \in ends
    BY <1>1 DEF ends
  <2>2. \E x \in ends : \A y \in ends : x <= y
    BY <2>1, Least
  <2> DEFINE m == Min(ends)
  <2>3. m \in ends /\ \A y \in ends : m <= y
    BY <2>2 DEF Min
  <2> HIDE DEF m
  <2>4. m \in 1..(MaxInt + 1) /\ Get(t, m) = Nil
    BY <2>3 DEF ends
  <2>5. m - 1 \in Nat /\ (m - 1) + 1 = m
    BY <1>1, <2>4
  <2>6. m - 1 = 0 \/ Get(t, m - 1) # Nil
    <3>1. m - 1 # 0 => m - 1 \in 1..(MaxInt + 1)
      BY <1>1, <2>4
    <3>2. m - 1 \notin ends
      BY <1>1, <2>3, <2>4
    <3> QED BY <3>1, <3>2 DEF ends
  <2>7. Border(t, m - 1)
    BY <2>4, <2>5, <2>6 DEF Border
  <2> QED BY <1>2, <1>15, <2>7 DEF j, m
<1> QED BY <1>14, <1>15

LEMMA GetNIs ==
  ASSUME NEW t, Sound(t)
  PROVE  Border(t, GetN(t))
<1> DEFINE n == Len(t.array)
<1>1. Good(t) /\ n \in Nat /\ DOMAIN t.array = 1..n /\ t.dummy \in BOOLEAN
  BY NodesAre DEF Sound, Good, Typed
<1>2. MaxInt \in Nat /\ n <= MaxInt
  <2>1. MaxBits \in Nat /\ MaxInt \in Nat /\ 2^MaxBits <= MaxInt
    BY KeysAssumption
  <2>2. 2^MaxBits \in Nat
    BY <2>1, TwoTo
  <2> QED BY <1>1, <2>1, <2>2 DEF Sound
<1> HIDE DEF n
<1>3. \A i \in 1..n : Get(t, i) = t.array[i]
  BY DEF Get, InArray, n
<1>4. CASE n > 0 /\ t.array[n] = Nil
  <2>1. GetN(t) = Halve(t, 0, n)
    BY <1>4 DEF GetN, n
  <2>2. Get(t, n) = Nil
    BY <1>1, <1>3, <1>4
  <2> QED BY <1>1, <1>4, <2>1, <2>2, HalveIs
<1>5. CASE ~(n > 0 /\ t.array[n] = Nil)
  <2>1. n = 0 \/ Get(t, n) # Nil
    BY <1>1, <1>3, <1>5
  <2>2. CASE t.dummy
    <3>1. GetN(t) = n
      BY <1>5, <2>2 DEF GetN, n
    <3>2. Used(t) = {}
      BY <1>1, <2>2 DEF Good, Filled, Used
    <3>3. ~InArray(t, n + 1)
      BY <1>1 DEF InArray, n
    <3>4. n + 1 \in Hashable
      <4>1. n + 1 \in 0..(MaxInt + 1)
        BY <1>1, <1>2
      <4> QED BY <4>1 DEF Hashable
    <3>5. Get(t, n + 1) = Nil
      BY <1>1, <3>2, <3>3, <3>4, NothingUsed
    <3> QED BY <1>1, <2>1, <3>1, <3>5 DEF Border
  <2>3. CASE ~t.dummy
    <3>1. GetN(t) = Double(t, n, n + 1)
      BY <1>5, <2>3 DEF GetN, n
    <3>2. Get(t, MaxInt + 1) = Nil
      <4>1. MaxInt + 1 \in Hashable
        <5>1. MaxInt + 1 \in 0..(MaxInt + 1)
          BY <1>2
        <5> QED BY <5>1 DEF Hashable
      <4>2. MaxInt + 1 \notin Keys
        <5>1. MaxInt + 1 \in Int /\ ~(MaxInt + 1 <= MaxInt)
          BY <1>2
        <5> QED BY <5>1, KeysAre, KeysAssumption
      <4> QED BY <1>1, <4>1, <4>2, FieldKeys DEF Fields
    <3> QED BY <1>1, <2>1, <3>1, <3>2, DoubleIs
  <2> QED BY <1>1, <2>2, <2>3
<1> QED BY <1>4, <1>5

(* The length is a border whatever the hash part holds: luaH_getn and      *)
(* unbound_search, also where doubling would pass MAX_INT.                 *)
THEOREM LengthIsRight == Spec => []LengthIsABorder
<1>1. IInv => LengthIsABorder
  BY GetNIs DEF IInv, Border, LengthIsABorder
<1>2. Spec => []IInv
  BY IInvHolds
<1> QED BY <1>1, <1>2, PTL
=============================================================================
