------------------------------ MODULE LuaTable ------------------------------
(* A table as ltable.c keeps it: an array part, and a hash part whose nodes*)
(* are chained within the same vector (Brent's variation of chained scatter*)
(* tables), rehashed when no node is free.                                 *)
EXTENDS Integers, FiniteSets, SequencesExt

CONSTANTS Ints, Names,   \* the keys: integers and strings
          Values,
          HashNum,       \* the sum of the words of a number, for hashnum
          Hashes,        \* what the strings may hash to, one is chosen
          KeySets,       \* the keys a program uses, one is chosen
          MaxBits,       \* MAXBITS
          MaxInt,        \* MAX_INT
          MaxItems,      \* items of a constructor
          Nil, None, Invalid
Keys == Ints \cup Names
ASSUME KeysAssumption ==
  /\ MaxBits \in Nat /\ MaxInt \in Nat /\ 2^MaxBits <= MaxInt
  /\ MaxItems \in Nat /\ MaxItems <= 2^MaxBits
  /\ 1..MaxItems \subseteq Ints /\ Ints \subseteq Int /\ \A i \in Ints : i <= MaxInt
  /\ IsFiniteSet(Keys) /\ \A k \in Names \cup {Nil, None, Invalid} : k \notin Int
  /\ KeySets \subseteq SUBSET Keys /\ Hashes \subseteq [Names -> Nat]
  /\ \A i \in Ints \cup 0..(MaxInt + 1) : HashNum[i] \in Nat
  /\ Values # {} /\ {Nil, None, Invalid} \cap (Names \cup Values) = {}
  /\ Nil # None /\ None # Invalid /\ Invalid # Nil

VARIABLES table, \* Table: array, node, dummy, lsizenode, lastfree; full when a rehash meets a full table
          hash,  \* what the strings hash to
          last,  \* the key luaH_next gave last
          seen,  \* the keys it has given
          uses   \* the keys of the program
vars == <<table, hash, last, seen, uses>>

(* Node: a dead key is one of LUA_TDEADKEY, no next is -1.                 *)
Free == [key |-> Nil, dead |-> FALSE, val |-> Nil, next |-> -1]
SizeNode(t) == 2^t.lsizenode
InArray(t, k) == k \in 1..Len(t.array)
Live(t) == {i \in DOMAIN t.node : t.node[i].val # Nil}

CeilLog2(n) == CHOOSE i \in 0..n : 2^i >= n /\ \A j \in 0..(i - 1) : 2^j < n
-----------------------------------------------------------------------------
(* hashnum, hashstr.                                                       *)
MainPosition(t, k) ==
  IF k \in Names THEN hash[k] % SizeNode(t)
  ELSE HashNum[k] % (IF SizeNode(t) = 1 THEN 1 ELSE SizeNode(t) - 1)

(* The loops of the lookups, and the one of newkey: along the chain to the *)
(* first node of goal, or past its end.                                    *)
Walk(t, i, goal) ==
  LET from[j \in DOMAIN t.node \cup {-1}] ==
        IF j = -1 \/ j \in goal THEN j ELSE from[t.node[j].next]
  IN from[i]

(* The nodes of a key; luaH_get: dead keys are equal to none.              *)
With(t, k) == {i \in DOMAIN t.node : t.node[i].key = k}
Dead(t) == {i \in DOMAIN t.node : t.node[i].dead}
NodeOf(t, k) == Walk(t, MainPosition(t, k), With(t, k) \ Dead(t))
Has(t, k) == InArray(t, k) \/ NodeOf(t, k) # -1
Get(t, k) ==
  IF InArray(t, k) THEN t.array[k]
  ELSE LET i == NodeOf(t, k) IN IF i = -1 THEN Nil ELSE t.node[i].val

(* Where luaH_set has found or made a place for the key.                   *)
Store(t, k, v) ==
  IF InArray(t, k) THEN [t EXCEPT !.array[k] = v] ELSE [t EXCEPT !.node[NodeOf(t, k)].val = v]

SetArrayVector(t, size) ==
  [t EXCEPT !.array = [i \in 1..size |-> IF i <= Len(@) THEN @[i] ELSE Nil]]
\* mutant: the vector is as large as asked for
SetNodeVectorExact(t, size) ==
  [t EXCEPT !.node = [i \in 0..(Max({1, size}) - 1) |-> Free], !.dummy = (size = 0),
            !.lsizenode = IF size = 0 THEN 0 ELSE CeilLog2(size), !.lastfree = size]
SetNodeVector(t, size) ==
  LET lsize == IF size = 0 THEN 0 ELSE CeilLog2(size)
  IN [t EXCEPT !.node = [i \in 0..(2^lsize - 1) |-> Free], !.dummy = (size = 0),
               !.lsizenode = lsize, !.lastfree = IF size = 0 THEN 0 ELSE 2^lsize]

GetFreePos(t) ==
  LET free == {i \in 0..(t.lastfree - 1) : t.node[i].key = Nil}
  IN IF free = {} THEN -1 ELSE Max(free)
-----------------------------------------------------------------------------
(* newkey, when there is a free position.                                  *)
Previous(t, i, mp) == Walk(t, i, {j \in DOMAIN t.node : t.node[j].next = mp})
\* mutant: the chain of the moved node is not redone
MoveUnlinked(t, mp, free, k) ==
  [t EXCEPT !.node[free] = t.node[mp], !.node[mp] = [Free EXCEPT !.key = k], !.lastfree = free]
Move(t, mp, free, k) ==
  LET previous == Previous(t, MainPosition(t, t.node[mp].key), mp)
  IN [t EXCEPT !.node[previous].next = free, !.node[free] = t.node[mp],
               !.node[mp] = [Free EXCEPT !.key = k], !.lastfree = free]
Follow(t, mp, free, k) ==
  [t EXCEPT !.node[free] = [Free EXCEPT !.key = k, !.next = t.node[mp].next],
            !.node[mp].next = free, !.lastfree = free]
Collides(t, k) == t.dummy \/ t.node[MainPosition(t, k)].val # Nil
PutKey(t, k) ==
  LET mp == MainPosition(t, k)
      free == GetFreePos(t)
  IN CASE ~Collides(t, k) -> [t EXCEPT !.node[mp].key = k, !.node[mp].dead = FALSE]
       [] Collides(t, k) /\ free = -1 -> [t EXCEPT !.full = TRUE]
       [] OTHER -> IF MainPosition(t, t.node[mp].key) # mp THEN Move(t, mp, free, k)
                   ELSE Follow(t, mp, free, k)

(* luaH_set within resize.                                                 *)
Reinsert(t, k, v) ==
  LET u == IF Has(t, k) THEN t ELSE PutKey(t, k) IN IF u.full THEN u ELSE Store(u, k, v)

Resize(t, nasize, nhsize) ==
  LET fresh == SetNodeVector(SetArrayVector(t, nasize), nhsize)
      vanishing == [i \in DOMAIN t.array |-> [key |-> i, val |-> IF i <= nasize THEN Nil ELSE t.array[i]]]
      nodes == [i \in 1..SizeNode(t) |-> t.node[SizeNode(t) - i]]
  IN FoldLeft(LAMBDA u, n : IF n.val = Nil THEN u ELSE Reinsert(u, n.key, n.val),
              fresh, vanishing \o nodes)
LuaResizeArray(t, nasize) == Resize(t, nasize, IF t.dummy THEN 0 ELSE SizeNode(t))

(* numusearray, numusehash and countint: the integer keys in use that may  *)
(* go to the array part, by slices (2^(i-1), 2^i].                         *)
ArrayIndex(k) == k \in Ints /\ k > 0 /\ k <= 2^MaxBits
InUse(t) == {i \in DOMAIN t.array : t.array[i] # Nil}
            \cup {k \in {t.node[i].key : i \in Live(t)} : ArrayIndex(k)}
Candidates(t, k) == InUse(t) \cup {j \in {k} : ArrayIndex(j)}
Nums(keys) == [i \in 0..MaxBits |-> Cardinality({j \in keys : CeilLog2(j) = i})]

\* mutant: the array takes every slice that has an element
ComputeSizesAny(nums, narray) ==
  [n |-> IF narray = 0 THEN 0 ELSE 2^Max({i \in 0..MaxBits : nums[i] > 0}), na |-> narray]
ComputeSizes(nums, narray) ==
  LET step(s, i) == LET a == s.a + nums[i]
                        more == nums[i] > 0 /\ 2 * a > 2^i
                    IN IF s.over \/ 2^i >= 2 * narray THEN s
                       ELSE [a |-> a, over |-> a = narray,
                             n |-> IF more THEN 2^i ELSE s.n, na |-> IF more THEN a ELSE s.na]
  IN FoldLeft(step, [a |-> 0, n |-> 0, na |-> 0, over |-> FALSE], [i \in 1..(MaxBits + 1) |-> i - 1])

Rehash(t, k) ==
  LET keys == Candidates(t, k)
      sizes == ComputeSizes(Nums(keys), Cardinality(keys))
      totaluse == Cardinality({i \in DOMAIN t.array : t.array[i] # Nil}) + Cardinality(Live(t)) + 1
  IN Resize(t, sizes.n, totaluse - sizes.na)

NewKey(t, k) ==
  IF Collides(t, k) /\ GetFreePos(t) = -1
  THEN LET u == Rehash(t, k) IN IF Has(u, k) THEN u ELSE PutKey(u, k)
  ELSE PutKey(t, k)
Set(t, k, v) ==
  LET u == IF Has(t, k) THEN t ELSE NewKey(t, k) IN IF u.full THEN u ELSE Store(u, k, v)
-----------------------------------------------------------------------------
(* findindex, where a dead key will do, and luaH_next.                     *)
\* mutant: a dead key is not found
FindIndexLive(t, k) ==
  LET i == NodeOf(t, k)
  IN CASE k = Nil -> 0
       [] k # Nil /\ InArray(t, k) -> k
       [] OTHER -> IF i = -1 THEN -1 ELSE Len(t.array) + i + 1
FindIndex(t, k) ==
  LET i == Walk(t, MainPosition(t, k), With(t, k))
  IN CASE k = Nil -> 0
       [] k # Nil /\ InArray(t, k) -> k
       [] OTHER -> IF i = -1 THEN -1 ELSE Len(t.array) + i + 1
LuaNext(t, k) ==
  LET elements == [i \in 1..Len(t.array) |-> [key |-> i, val |-> t.array[i]]]
                  \o [i \in 1..SizeNode(t) |-> t.node[i - 1]]
      after == {i \in DOMAIN elements : i > FindIndex(t, k) /\ elements[i].val # Nil}
  IN CASE FindIndex(t, k) = -1 -> Invalid
       [] FindIndex(t, k) # -1 /\ after = {} -> None
       [] OTHER -> elements[Min(after)].key

(* The binary searches: the last two of the bounds that j - i rounds give. *)
Halve(t, i, j) ==
  LET b[n \in 0..(j - i)] ==
        IF n = 0 THEN [i |-> i, j |-> j]
        ELSE LET p == b[n - 1]
                 m == (p.i + p.j) \div 2
             IN CASE p.j - p.i <= 1 -> p
                  [] p.j - p.i > 1 /\ Get(t, m) = Nil -> [p EXCEPT !.j = m]
                  [] OTHER -> [p EXCEPT !.i = m]
  IN b[j - i].i
(* unbound_search, with its linear search when j overflows.                *)
Double(t, i, j) ==
  LET b[n \in 0..MaxInt] ==
        IF n = 0 THEN [i |-> i, j |-> j]
        ELSE LET p == b[n - 1]
             IN IF Get(t, p.j) = Nil \/ 2 * p.j > MaxInt THEN p ELSE [i |-> p.j, j |-> 2 * p.j]
      end == b[MaxInt]
  IN IF Get(t, end.j) = Nil THEN Halve(t, end.i, end.j)
     ELSE Min({n \in 1..(MaxInt + 1) : Get(t, n) = Nil}) - 1
\* mutant: the hash part is not looked at
GetNOfArray(t) ==
  LET j == Len(t.array) IN IF j > 0 /\ t.array[j] = Nil THEN Halve(t, 0, j) ELSE j
GetN(t) ==
  LET j == Len(t.array)
  IN CASE j > 0 /\ t.array[j] = Nil -> Halve(t, 0, j)
       [] t.dummy /\ ~(j > 0 /\ t.array[j] = Nil) -> j
       [] OTHER -> Double(t, j, j + 1)
-----------------------------------------------------------------------------
New(narray, nhash) ==
  LET t == [array |-> <<>>, node |-> [i \in {0} |-> Free], dummy |-> TRUE, lsizenode |-> 0, lastfree |-> 0,
            full |-> FALSE]
  IN SetNodeVector(SetArrayVector(t, narray), nhash)

(* OP_SETLIST.                                                             *)
SetList(t, items) ==
  LET n == Len(items)
      u == IF n > Len(t.array) THEN LuaResizeArray(t, n) ELSE t
  IN FoldLeft(LAMBDA s, i : Set(s, i, items[i]), u, [i \in 1..n |-> n + 1 - i])

(* A table as a constructor leaves it: narray items are counted by the     *)
(* compiler, the last expression may give more.                            *)
Constructed(fields, items, narray) ==
  LET t == New(narray, Cardinality(fields))
      set == FoldLeft(LAMBDA s, k : Set(s, k, CHOOSE v \in Values : TRUE), t, SetToSeq(fields))
  IN SetList(set, items)

Init ==
  /\ hash \in Hashes /\ uses \in KeySets
  /\ \E fields \in SUBSET uses, items \in BoundedSeq(Values \cup {Nil}, MaxItems) :
       \E narray \in 0..Len(items) :
         /\ Cardinality(fields) <= MaxItems
         /\ table = Constructed(fields, items, narray)
  /\ last = None /\ seen = {}

(* t[k] = v of the program, and rawset.                                    *)
Assign(k, v) ==
  /\ table' = Set(table, k, v)
  /\ IF Get(table, k) = Nil THEN last' = None /\ seen' = {} ELSE UNCHANGED <<last, seen>>
  /\ UNCHANGED <<hash, uses>>

(* next of the program, and the loop of pairs.                             *)
Start == last = None /\ last' = Nil /\ UNCHANGED <<table, hash, seen, uses>>
Traverse ==
  /\ last \notin {None, Invalid}
  /\ last' = LuaNext(table, last)
  /\ seen' = IF last' = None THEN {} ELSE seen \cup {last'}
  /\ UNCHANGED <<table, hash, uses>>

(* removeentry of the collector: keys without a value die.                 *)
Collect ==
  /\ table' = [table EXCEPT !.node = [i \in DOMAIN @ |->
                 IF @[i].val = Nil /\ @[i].key \in Names THEN [@[i] EXCEPT !.dead = TRUE] ELSE @[i]]]
  /\ table' # table /\ UNCHANGED <<hash, last, seen, uses>>

Next ==
  \/ Start \/ Traverse \/ Collect
  \/ \E k \in uses, v \in Values \cup {Nil} : Assign(k, v)

Spec == Init /\ [][Next]_vars
-----------------------------------------------------------------------------
TypeOK ==
  /\ table.array \in Seq(Values \cup {Nil})
  /\ DOMAIN table.node = 0..(SizeNode(table) - 1)
  /\ \A n \in Range(table.node) :
       /\ n.key \in Keys \cup {Nil} /\ n.val \in Values \cup {Nil}
       /\ n.next \in DOMAIN table.node \cup {-1} /\ n.dead \in BOOLEAN
       /\ (n.key = Nil \/ n.dead) => n.val = Nil
  /\ table.lastfree \in 0..SizeNode(table)
  /\ last \in Keys \cup {Nil, None} /\ seen \subseteq Keys

(* The chains run through one vector of nodes and are cut and joined by    *)
(* every collision (ltable.c:399). Whatever the order of the insertions,   *)
(* a node has one predecessor, every key with a value is on the chain of   *)
(* its main position, once, no integer hides behind the array part, and    *)
(* the positions from lastfree on are taken.                               *)
ChainsReach ==
  LET t == table
  IN /\ \A i, j \in DOMAIN t.node : i # j /\ t.node[i].next # -1 => t.node[i].next # t.node[j].next
     /\ \A i \in Live(t) :
          /\ Walk(t, MainPosition(t, t.node[i].key), {i}) = i
          /\ ~InArray(t, t.node[i].key)
          /\ \A j \in Live(t) : t.node[j].key = t.node[i].key => i = j
     /\ ~t.dummy => \A i \in DOMAIN t.node : i >= t.lastfree => t.node[i].key # Nil

(* The best array for the integer keys in use: the largest power of two    *)
(* with more than half of its slots in use (what computesizes is for).     *)
Best(keys) ==
  LET good == {i \in 0..MaxBits : 2 * Cardinality({k \in keys : k <= 2^i}) > 2^i}
  IN IF good = {} THEN 0 ELSE 2^Max(good)

(* An assignment finds a place for its value, although a rehash for its key*)
(* (ltable.c:333) may come in between, which keeps every field, makes the  *)
(* array part as large as more than half of it will be in use, and leaves  *)
(* room for the key: it is never needed again before the key is in.        *)
RehashFits ==
  \A k \in uses :
    /\ \A v \in Values \cup {Nil} : Get(Set(table, k, v), k) = v
    /\ ~Has(table, k) =>
         LET u == Rehash(table, k)
         IN /\ ~u.full /\ \A j \in uses : Get(u, j) = Get(table, j)
            /\ Len(u.array) = Best(Candidates(table, k))
            /\ ~Has(u, k) => ~PutKey(u, k).full

(* The length of a table is a border, from the array part, the hash part or*)
(* both: a field, or 0, with no field after it (ltable.c:557).             *)
LengthIsABorder ==
  LET n == GetN(table) IN (n = 0 \/ Get(table, n) # Nil) /\ Get(table, n + 1) = Nil

A == INSTANCE AssociativeTable WITH content <- [k \in Keys |-> Get(table, k)]

(* A table is what AssociativeTable says: an assignment changes the value  *)
(* of its key only, through rehashes, moved nodes and dead keys, and a     *)
(* traversal gives every field once although fields are cleared on the way.*)
IsATable == A!Spec
=============================================================================
