--------------------------- MODULE LuaCallsProofs ---------------------------
(***************************************************************************)
(* The C stack and the counters of the threads belong together: proofs     *)
(* that an error jumps to the innermost protected call, that the counters  *)
(* are what is on the stack, and that coroutine.status is right.           *)
(***************************************************************************)
EXTENDS LuaCalls, Integers, FiniteSetTheorems, SequenceTheorems, TLAPS

CiKinds == {"base", "lua", "pcall", "xpcall", "foreach", "error", "yield", "resume", "wrap"}
LuaState == [ci : Seq(CiKinds), size_ci : Nat, status : {"ok", "yield", "error"},
             nCcalls : 0..MaxCCalls + ExtraCCalls, allowhook : BOOLEAN, errfunc : BOOLEAN,
             errorJmp : Nat, top : {0, 1}]
Record ==
  [k : {"execute"}, thread : Threads, nexeccalls : Nat]
    \cup [k : {"call", "hook", "errormsg"}, thread : Threads]
    \cup [k : {"pcall"}, thread : Threads, ci : Nat, nCcalls : Nat, allowhook : BOOLEAN,
          errfunc : BOOLEAN, ef : BOOLEAN, previous : Nat]
    \cup [k : {"resume"}, thread : Threads \ {Main}, how : {"resume", "wrap"}, previous : Nat]
-----------------------------------------------------------------------------
(***************************************************************************)
(* The C stack.  c is one, i and n places in it, t a thread.               *)
(***************************************************************************)
Is(c, i, t, kind) == c[i].thread = t /\ c[i].k = kind
Jump(c, i, t) == c[i].thread = t /\ c[i].k \in {"pcall", "resume"}
CallsOf(c, t, n) == {i \in 1..n : Is(c, i, t, "call")}

(* What the counters of t are when the lowest n records are under way.     *)
Innermost(c, t, n, jmp) ==
  IF jmp = 0 THEN \A i \in 1..n : ~Jump(c, i, t)
  ELSE jmp \in 1..n /\ Jump(c, jmp, t) /\ \A i \in jmp + 1..n : ~Jump(c, i, t)
Hookable(c, t, n) == \A i \in 1..n : ~Is(c, i, t, "hook")
Handled(c, t, n) ==
  \E i \in 1..n : /\ Is(c, i, t, "pcall") /\ c[i].ef
                  /\ \A m \in i + 1..n : ~Is(c, m, t, "pcall")
Counts(c, t, n, jmp, calls, hook, handler) ==
  /\ Innermost(c, t, n, jmp)
  /\ calls = Cardinality(CallsOf(c, t, n))
  /\ hook = Hookable(c, t, n)
  /\ handler = Handled(c, t, n)

(* Records of a thread lie together above the resume that started it, but  *)
(* for those of the threads it resumed.                                    *)
Nested(c) ==
  /\ c # <<>> => Is(c, 1, Main, "pcall")
  /\ \A i \in DOMAIN c : c[i].k = "resume" =>
       \A m \in 1..i - 1 : c[m].thread # c[i].thread
  /\ \A i, k \in DOMAIN c : i < k =>
       \/ c[i].thread = c[k].thread
       \/ \E m \in i + 1..k : Is(c, m, c[k].thread, "resume")

(* A record has saved what the counters were below it.                     *)
Saved(c) ==
  \A i \in DOMAIN c :
    LET r == c[i]
    IN /\ r.k = "pcall" => /\ Counts(c, r.thread, i - 1, r.previous, r.nCcalls, r.allowhook, r.errfunc)
                           /\ r.nCcalls < MaxCCalls + ExtraCCalls
       /\ r.k = "resume" => r.previous = 0
       /\ r.k = "hook" => Hookable(c, r.thread, i - 1)

Counted(T, c) ==
  \A t \in Threads : T[t].status # "error" =>
    Counts(c, t, Len(c), T[t].errorJmp, T[t].nCcalls, T[t].allowhook, T[t].errfunc)
-----------------------------------------------------------------------------
(* The CallInfo.  v gives each record the length ci has under it.          *)
Level(ci, c, v, i) ==
  LET r == c[i]
      under == IF i = 1 THEN 0 ELSE v[i - 1]
      k == IF i = 1 THEN "none" ELSE c[i - 1].k
  IN CASE r.k = "resume" -> v[i] = 1 /\ k = "execute"
       [] r.k = "pcall" -> v[i] = under + 1 /\ r.ci = v[i] /\ k \in {"none", "execute"}
       [] r.k = "execute" -> /\ k \in {"call", "resume"}
                             /\ r.nexeccalls \in Nat \ {0} /\ v[i] = under + r.nexeccalls
                             /\ \A j \in under + 1..v[i] : ci[j] = "lua"
       [] r.k = "call" -> \/ v[i] = under /\ k \in {"pcall", "hook", "errormsg", "execute"}
                          \/ v[i] = under + 1 /\ k = "execute" /\ ci[v[i]] # "lua"
       [] r.k = "hook" -> v[i] = under /\ k = "execute"
       [] r.k = "errormsg" -> v[i] \in {under, under + 1}
Levels(T, c, v) ==
  /\ v \in [DOMAIN c -> Nat \ {0}]
  /\ \A i \in DOMAIN c : /\ Level(T[c[i].thread].ci, c, v, i)
                         /\ v[i] <= Len(T[c[i].thread].ci)
  /\ \A i, k \in DOMAIN c : i < k /\ c[i].thread = c[k].thread => v[i] <= v[k]

(* A thread that waits for another is in the C function that resumes.      *)
Waiting(T, c, v) ==
  /\ \A i \in DOMAIN c : c[i].k = "resume" => Len(T[c[i - 1].thread].ci) = v[i - 1] + 1
  /\ \A i \in DOMAIN c : c[i].thread # Last(c).thread => Len(T[c[i].thread].ci) > 1
Idle(T, c) ==
  \A t \in Threads \ {Main} : (\A i \in DOMAIN c : c[i].thread # t) =>
    /\ T[t].status = "ok" => Len(T[t].ci) = 1
    /\ T[t].status = "yield" =>
         Len(T[t].ci) > 2 /\ \A j \in 2..Len(T[t].ci) - 1 : T[t].ci[j] = "lua"
Alive(T, c) == \A i \in DOMAIN c : T[c[i].thread].status = "ok"
CiFits(T) ==
  \A t \in Threads :
    LET l == T[t]
    IN /\ l.ci # <<>> /\ l.ci[1] = "base"
       /\ Len(l.ci) <= l.size_ci /\ l.size_ci \in 2..2 * MaxCalls

Good(T, c, v) ==
  /\ T \in [Threads -> LuaState] /\ c \in Seq(Record)
  /\ Nested(c) /\ Saved(c) /\ Counted(T, c)
  /\ Levels(T, c, v) /\ Waiting(T, c, v)
  /\ Idle(T, c) /\ Alive(T, c) /\ CiFits(T)

(* Of the thread that runs: it is in a Lua function, or perhaps in a C     *)
(* function that has no record.                                            *)
Height(T, c) == Len(T[Last(c).thread].ci)
Steady(T, c, v) == Last(c).k = "execute" /\ Height(T, c) = v[Len(c)]
Loose(T, c, v) == Height(T, c) \in {v[Len(c)], v[Len(c)] + 1}
-----------------------------------------------------------------------------
(* The counts below a place depend on the records below it only.           *)

LEMMA CountsAgree ==
  ASSUME NEW c, NEW d, NEW t, NEW n \in Nat, \A i \in 1..n : c[i] = d[i],
         NEW jmp, NEW calls, NEW hook, NEW handler, Counts(c, t, n, jmp, calls, hook, handler)
  PROVE  Counts(d, t, n, jmp, calls, hook, handler)
<1>1. CallsOf(c, t, n) = CallsOf(d, t, n)
  BY DEF CallsOf, Is
<1>2. Innermost(d, t, n, jmp)
  BY DEF Counts, Innermost, Jump
<1>3. Hookable(c, t, n) = Hookable(d, t, n)
  BY DEF Hookable, Is
<1>4. Handled(c, t, n) = Handled(d, t, n)
  BY DEF Handled, Is
<1> QED
  BY <1>1, <1>2, <1>3, <1>4 DEF Counts

(* Records of other threads on top do not count.                           *)
LEMMA CountsSkip ==
  ASSUME NEW c, NEW t, NEW m \in Nat, NEW n \in Nat, m <= n,
         \A i \in m + 1..n : c[i].thread # t,
         NEW jmp, NEW calls, NEW hook, NEW handler
  PROVE  Counts(c, t, n, jmp, calls, hook, handler) <=> Counts(c, t, m, jmp, calls, hook, handler)
<1>1. CallsOf(c, t, n) = CallsOf(c, t, m)
  BY DEF CallsOf, Is
<1>2. Innermost(c, t, n, jmp) <=> Innermost(c, t, m, jmp)
  BY DEF Innermost, Jump
<1>3. Hookable(c, t, n) = Hookable(c, t, m)
  BY DEF Hookable, Is
<1>4. Handled(c, t, n) = Handled(c, t, m)
  BY DEF Handled, Is
<1> QED
  BY <1>1, <1>2, <1>3, <1>4 DEF Counts

LEMMA CallsAreFinite ==
  ASSUME NEW c, NEW t, NEW n \in Nat
  PROVE  /\ IsFiniteSet(CallsOf(c, t, n)) /\ Cardinality(CallsOf(c, t, n)) \in Nat
         /\ CallsOf(c, t, 0) = {} /\ Cardinality(CallsOf(c, t, 0)) = 0
<1>1. IsFiniteSet(1..n)
  BY FS_Interval
<1>2. CallsOf(c, t, n) \in SUBSET (1..n)
  BY DEF CallsOf
<1>3. IsFiniteSet(CallsOf(c, t, n))
  BY <1>1, <1>2, FS_Subset
<1>4. CallsOf(c, t, 0) = {}
  BY DEF CallsOf
<1> QED
  BY <1>3, <1>4, FS_CardinalityType, FS_EmptySet


(* One record more, by its kind.                                           *)
LEMMA CountsOfFrame ==
  ASSUME NEW c, NEW t, NEW n \in Nat, c[n + 1].thread = t,
         c[n + 1].k \in {"execute", "errormsg"},
         NEW jmp, NEW calls, NEW hook, NEW handler
  PROVE  Counts(c, t, n + 1, jmp, calls, hook, handler) <=> Counts(c, t, n, jmp, calls, hook, handler)
<1>1. CallsOf(c, t, n + 1) = CallsOf(c, t, n)
  BY DEF CallsOf, Is
<1>2. Innermost(c, t, n + 1, jmp) <=> Innermost(c, t, n, jmp)
  BY DEF Innermost, Jump
<1>3. Hookable(c, t, n + 1) = Hookable(c, t, n)
  BY DEF Hookable, Is
<1>4. Handled(c, t, n + 1) = Handled(c, t, n)
  BY DEF Handled, Is
<1> QED
  BY <1>1, <1>2, <1>3, <1>4 DEF Counts

LEMMA CountsOfCall ==
  ASSUME NEW c, NEW t, NEW n \in Nat, Is(c, n + 1, t, "call"),
         NEW jmp, NEW calls \in Int, NEW hook, NEW handler
  PROVE  Counts(c, t, n + 1, jmp, calls + 1, hook, handler)
           <=> Counts(c, t, n, jmp, calls, hook, handler)
<1>1. CallsOf(c, t, n + 1) = CallsOf(c, t, n) \cup {n + 1} /\ n + 1 \notin CallsOf(c, t, n)
  BY DEF CallsOf, Is
<1>2. /\ Cardinality(CallsOf(c, t, n + 1)) = Cardinality(CallsOf(c, t, n)) + 1
      /\ Cardinality(CallsOf(c, t, n)) \in Nat
  BY <1>1, CallsAreFinite, FS_AddElement
<1>3. Innermost(c, t, n + 1, jmp) <=> Innermost(c, t, n, jmp)
  BY DEF Innermost, Jump, Is
<1>4. Hookable(c, t, n + 1) = Hookable(c, t, n)
  BY DEF Hookable, Is
<1>5. Handled(c, t, n + 1) = Handled(c, t, n)
  BY DEF Handled, Is
<1> QED
  BY <1>2, <1>3, <1>4, <1>5 DEF Counts

LEMMA CountsOfHook ==
  ASSUME NEW c, NEW t, NEW n \in Nat, Is(c, n + 1, t, "hook"),
         NEW jmp, NEW calls, NEW hook, NEW handler
  PROVE  /\ Counts(c, t, n, jmp, calls, hook, handler)
              => Counts(c, t, n + 1, jmp, calls, FALSE, handler)
         /\ Counts(c, t, n + 1, jmp, calls, hook, handler) /\ Hookable(c, t, n)
              => Counts(c, t, n, jmp, calls, TRUE, handler)
<1>1. CallsOf(c, t, n + 1) = CallsOf(c, t, n)
  BY DEF CallsOf, Is
<1>2. Innermost(c, t, n + 1, jmp) <=> Innermost(c, t, n, jmp)
  BY DEF Innermost, Jump, Is
<1>3. Hookable(c, t, n + 1) = FALSE /\ (Hookable(c, t, n) => Hookable(c, t, n) = TRUE)
  BY DEF Hookable
<1>4. Handled(c, t, n + 1) = Handled(c, t, n)
  BY DEF Handled, Is
<1> QED
  BY <1>1, <1>2, <1>3, <1>4 DEF Counts

LEMMA CountsOfPcall ==
  ASSUME NEW c, NEW t, NEW n \in Nat, Is(c, n + 1, t, "pcall"), c[n + 1].ef \in BOOLEAN,
         NEW jmp, NEW calls, NEW hook, NEW handler
  PROVE  /\ Counts(c, t, n, jmp, calls, hook, handler)
              => Counts(c, t, n + 1, n + 1, calls, hook, c[n + 1].ef)
         /\ \A j, k, h, e : Counts(c, t, n + 1, jmp, calls, hook, handler) /\ Counts(c, t, n, j, k, h, e)
              => Counts(c, t, n, j, calls, hook, e)
<1>1. CallsOf(c, t, n + 1) = CallsOf(c, t, n)
  BY DEF CallsOf, Is
<1>2. Innermost(c, t, n + 1, n + 1)
  BY DEF Innermost, Jump, Is
<1>3. Hookable(c, t, n + 1) = Hookable(c, t, n)
  BY DEF Hookable, Is
<1>4. Handled(c, t, n + 1) = c[n + 1].ef
  <2>1. CASE c[n + 1].ef = TRUE
    <3>1. n + 1 \in 1..n + 1 /\ \A m \in n + 1 + 1..n + 1 : ~Is(c, m, t, "pcall")
      OBVIOUS
    <3> QED
      BY <2>1, <3>1 DEF Handled
  <2>2. CASE c[n + 1].ef = FALSE
    <3>1. ASSUME NEW i \in 1..n + 1, c[i].ef PROVE n + 1 \in i + 1..n + 1
      BY <2>2, <3>1
    <3>2. ~Handled(c, t, n + 1)
      BY <3>1 DEF Handled
    <3> QED
      BY <2>2, <3>2 DEF Handled
  <2> QED
    BY <2>1, <2>2
<1> QED
  BY <1>1, <1>2, <1>3, <1>4 DEF Counts

LEMMA CountsOfNone ==
  ASSUME NEW c, NEW t, NEW n \in Nat, \A i \in 1..n : c[i].thread # t
  PROVE  Counts(c, t, n, 0, 0, TRUE, FALSE)
<1>1. CallsOf(c, t, n) = {}
  BY DEF CallsOf, Is
<1>2. Hookable(c, t, n) = TRUE /\ Handled(c, t, n) = FALSE
  BY DEF Hookable, Handled, Is
<1> QED
  BY <1>1, <1>2, FS_EmptySet DEF Counts, Innermost, Jump

LEMMA CountsOfResume ==
  ASSUME NEW c, NEW t, NEW n \in Nat, Is(c, n + 1, t, "resume"),
         \A i \in 1..n : c[i].thread # t,
         NEW jmp, NEW calls, NEW hook, NEW handler
  PROVE  Counts(c, t, n + 1, jmp, calls, hook, handler)
           <=> jmp = n + 1 /\ calls = 0 /\ hook = TRUE /\ handler = FALSE
<1>1. CallsOf(c, t, n + 1) = {}
  BY DEF CallsOf, Is
<1>2. Hookable(c, t, n + 1) = TRUE /\ Handled(c, t, n + 1) = FALSE
  BY DEF Hookable, Handled, Is
<1>3. Innermost(c, t, n + 1, jmp) <=> jmp = n + 1
  BY DEF Innermost, Jump, Is
<1> QED
  BY <1>1, <1>2, <1>3, FS_EmptySet DEF Counts
-----------------------------------------------------------------------------
(* What holds of a stack holds of its lower part.                          *)

Lower(c, m) == SubSeq(c, 1, m)

LEMMA LowerPart ==
  ASSUME NEW S, NEW c \in Seq(S), NEW m \in 0..Len(c)
  PROVE  /\ Lower(c, m) \in Seq(S) /\ Len(Lower(c, m)) = m /\ DOMAIN Lower(c, m) = 1..m
         /\ \A i \in 1..m : Lower(c, m)[i] = c[i]
         /\ DOMAIN c = 1..Len(c) /\ Len(c) \in Nat
         /\ Lower(c, m) = <<>> <=> m = 0
<1>1. Len(c) \in Nat /\ DOMAIN c = 1..Len(c) /\ \A i \in 1..Len(c) : c[i] \in S
  BY LenProperties
<1>2. \A i \in 1..m : c[i] \in S
  BY <1>1
<1>3. /\ SubSeq(c, 1, m) \in Seq(S)
      /\ Len(SubSeq(c, 1, m)) = IF 1 <= m THEN m - 1 + 1 ELSE 0
      /\ \A i \in 1..m - 1 + 1 : SubSeq(c, 1, m)[i] = c[1 + i - 1]
  BY <1>1, <1>2, SubSeqProperties
<1>4. Len(Lower(c, m)) = m /\ \A i \in 1..m : Lower(c, m)[i] = c[i]
  BY <1>1, <1>3 DEF Lower
<1>5. Lower(c, m) \in Seq(S)
  BY <1>3 DEF Lower
<1> QED
  BY <1>1, <1>4, <1>5, LenProperties, EmptySeq

LEMMA LowerNested ==
  ASSUME NEW c \in Seq(Record), NEW m \in 0..Len(c), Nested(c)
  PROVE  Nested(Lower(c, m))
<1>1. /\ Len(Lower(c, m)) = m /\ DOMAIN Lower(c, m) = 1..m
      /\ \A i \in 1..m : Lower(c, m)[i] = c[i]
      /\ DOMAIN c = 1..Len(c) /\ Len(c) \in Nat
      /\ Lower(c, m) = <<>> <=> m = 0
  BY LowerPart
<1> DEFINE d == Lower(c, m)
<1> HIDE DEF d
<1>2. c # <<>> \/ m = 0
  BY <1>1, EmptySeq
<1>3. d # <<>> => Is(d, 1, Main, "pcall")
  <2>1. d # <<>> => m \in Nat \ {0} /\ d[1] = c[1]
    BY <1>1 DEF d
  <2> QED
    BY <1>2, <2>1 DEF Nested, Is
<1>4. ASSUME NEW i \in DOMAIN d, d[i].k = "resume", NEW j \in 1..i - 1
      PROVE  d[j].thread # d[i].thread
  <2>1. i \in DOMAIN c /\ d[i] = c[i] /\ d[j] = c[j]
    BY <1>1 DEF d
  <2> QED
    BY <1>4, <2>1 DEF Nested
<1>5. ASSUME NEW i \in DOMAIN d, NEW j \in DOMAIN d, i < j, d[i].thread # d[j].thread
      PROVE  \E h \in i + 1..j : Is(d, h, d[j].thread, "resume")
  <2>1. i \in DOMAIN c /\ j \in DOMAIN c /\ d[i] = c[i] /\ d[j] = c[j]
        /\ \A h \in i + 1..j : d[h] = c[h]
    BY <1>1 DEF d
  <2>2. PICK h \in i + 1..j : Is(c, h, c[j].thread, "resume")
    BY <1>5, <2>1 DEF Nested
  <2> QED
    BY <2>1, <2>2 DEF Is
<1> QED
  BY <1>3, <1>4, <1>5 DEF Nested, d

LEMMA LowerSaved ==
  ASSUME NEW c \in Seq(Record), NEW m \in 0..Len(c), Saved(c)
  PROVE  Saved(Lower(c, m))
<1> DEFINE d == Lower(c, m)
<1>1. /\ DOMAIN d = 1..m /\ \A i \in 1..m : d[i] = c[i]
      /\ DOMAIN c = 1..Len(c) /\ Len(c) \in Nat
  BY LowerPart
<1> HIDE DEF d
<1>2. ASSUME NEW i \in 1..m
      PROVE  LET r == d[i]
             IN /\ r.k = "pcall" => /\ Counts(d, r.thread, i - 1, r.previous, r.nCcalls, r.allowhook, r.errfunc)
                                    /\ r.nCcalls < MaxCCalls + ExtraCCalls
                /\ r.k = "resume" => r.previous = 0
                /\ r.k = "hook" => Hookable(d, r.thread, i - 1)
  <2>1. i \in DOMAIN c /\ d[i] = c[i] /\ i - 1 \in Nat /\ \A j \in 1..i - 1 : c[j] = d[j]
    BY <1>1
  <2>2. Hookable(c, c[i].thread, i - 1) => Hookable(d, c[i].thread, i - 1)
    BY <2>1 DEF Hookable, Is
  <2>3. c[i].k = "pcall" => Counts(d, c[i].thread, i - 1, c[i].previous, c[i].nCcalls,
                                   c[i].allowhook, c[i].errfunc)
    BY <2>1, CountsAgree DEF Saved
  <2> QED
    BY <2>1, <2>2, <2>3 DEF Saved
<1> QED
  BY <1>1, <1>2 DEF Saved, d


(* The levels of a part of the stack, after changes of ci above them.      *)
Under(v, m) == [i \in 1..m |-> v[i]]

LEMMA LevelAgrees ==
  ASSUME NEW ci, NEW cj, NEW c, NEW d, NEW v, NEW w, NEW i \in Nat \ {0},
         c[i] = d[i], v[i] = w[i], v[i] \in Nat \ {0},
         i # 1 => c[i - 1] = d[i - 1] /\ v[i - 1] = w[i - 1] /\ v[i - 1] \in Nat,
         \A j \in 1..v[i] : cj[j] = ci[j], c[i] \in Record,
         Level(ci, c, v, i)
  PROVE  Level(cj, d, w, i)
<1> DEFINE under == IF i = 1 THEN 0 ELSE v[i - 1]
           k == IF i = 1 THEN "none" ELSE c[i - 1].k
<1>1. under = (IF i = 1 THEN 0 ELSE w[i - 1]) /\ under \in Nat
      /\ k = (IF i = 1 THEN "none" ELSE d[i - 1].k)
  OBVIOUS
<1>2. \A j \in under + 1..v[i] : cj[j] = ci[j]
  BY <1>1
<1>3. cj[v[i]] = ci[v[i]]
  OBVIOUS
<1>4. c[i].k \in {"resume", "pcall", "execute", "call", "hook", "errormsg"}
  BY DEF Record
<1> HIDE DEF under, k
<1>5. CASE c[i].k = "execute"
  BY <1>1, <1>2, <1>5 DEF Level, under, k
<1>6. CASE c[i].k = "call"
  BY <1>1, <1>3, <1>6 DEF Level, under, k
<1>7. CASE c[i].k \in {"resume", "pcall", "hook", "errormsg"}
  BY <1>1, <1>7 DEF Level, under, k
<1> QED
  BY <1>4, <1>5, <1>6, <1>7

LEMMA LevelsKept ==
  ASSUME NEW T, NEW U, NEW c \in Seq(Record), NEW v, Levels(T, c, v), NEW m \in 0..Len(c),
         \A i \in 1..m : /\ v[i] <= Len(U[c[i].thread].ci)
                         /\ \A j \in 1..v[i] : U[c[i].thread].ci[j] = T[c[i].thread].ci[j]
  PROVE  Levels(U, Lower(c, m), Under(v, m))
<1> DEFINE d == Lower(c, m)
           w == Under(v, m)
<1>1. /\ DOMAIN d = 1..m /\ \A i \in 1..m : d[i] = c[i]
      /\ DOMAIN c = 1..Len(c) /\ Len(c) \in Nat
  BY LowerPart
<1>2. \A i \in 1..m : w[i] = v[i] /\ v[i] \in Nat \ {0} /\ i \in DOMAIN c /\ c[i] \in Record
  BY <1>1, ElementOfSeq DEF Under, Levels
<1>3. w \in [DOMAIN d -> Nat \ {0}]
  BY <1>1, <1>2 DEF Under
<1> HIDE DEF d, w
<1>4. ASSUME NEW i \in 1..m
      PROVE  Level(U[d[i].thread].ci, d, w, i) /\ w[i] <= Len(U[d[i].thread].ci)
  <2>1. Level(T[c[i].thread].ci, c, v, i)
    BY <1>2 DEF Levels
  <2>2. i # 1 => i - 1 \in 1..m
    BY <1>1
  <2>3. i # 1 => c[i - 1] = d[i - 1] /\ v[i - 1] = w[i - 1] /\ v[i - 1] \in Nat
    BY <2>2, <1>1, <1>2
  <2>4. /\ i \in Nat \ {0} /\ c[i] = d[i] /\ v[i] = w[i] /\ v[i] \in Nat \ {0}
        /\ c[i] \in Record
        /\ \A j \in 1..v[i] : U[c[i].thread].ci[j] = T[c[i].thread].ci[j]
    BY <1>1, <1>2
  <2>5. Level(U[c[i].thread].ci, d, w, i)
    BY <2>1, <2>3, <2>4, LevelAgrees, SMTT(60)
  <2> QED
    BY <1>1, <1>2, <2>5
<1>5. ASSUME NEW i \in 1..m, NEW j \in 1..m, i < j, d[i].thread = d[j].thread
      PROVE  w[i] <= w[j]
  BY <1>1, <1>2, <1>5 DEF Levels
<1> QED
  <2>1. DOMAIN d = 1..m
    BY <1>1
  <2> QED
    BY <2>1, <1>3, <1>4, <1>5 DEF Levels, d, w

LEMMA OnTop ==
  ASSUME NEW S, NEW c \in Seq(S), NEW r \in S
  PROVE  /\ Append(c, r) \in Seq(S) /\ Len(Append(c, r)) = Len(c) + 1
         /\ DOMAIN Append(c, r) = 1..Len(c) + 1
         /\ \A i \in 1..Len(c) : Append(c, r)[i] = c[i]
         /\ Append(c, r)[Len(c) + 1] = r /\ Append(c, r) # <<>> /\ Last(Append(c, r)) = r
         /\ DOMAIN c = 1..Len(c) /\ Len(c) \in Nat
<1>1. /\ Append(c, r) \in Seq(S) /\ Len(Append(c, r)) = Len(c) + 1
      /\ \A i \in 1..Len(c) : Append(c, r)[i] = c[i]
      /\ Append(c, r)[Len(c) + 1] = r /\ Append(c, r) # <<>>
  BY AppendProperties
<1>2. DOMAIN c = 1..Len(c) /\ Len(c) \in Nat /\ DOMAIN Append(c, r) = 1..Len(c) + 1
  BY <1>1, LenProperties
<1> QED
  BY <1>1, <1>2 DEF Last

Above(v, n, x) == [i \in 1..n + 1 |-> IF i <= n THEN v[i] ELSE x]

LEMMA LevelsPush ==
  ASSUME NEW T, NEW c \in Seq(Record), NEW r \in Record, NEW v, Levels(T, c, v),
         NEW x \in Nat \ {0}, x <= Len(T[r.thread].ci),
         \A i \in 1..Len(c) : c[i].thread = r.thread => v[i] <= x,
         Level(T[r.thread].ci, Append(c, r), Above(v, Len(c), x), Len(c) + 1)
  PROVE  Levels(T, Append(c, r), Above(v, Len(c), x))
<1> DEFINE n == Len(c)
           d == Append(c, r)
           w == Above(v, n, x)
<1>1. /\ DOMAIN d = 1..n + 1 /\ \A i \in 1..n : d[i] = c[i]
      /\ d[n + 1] = r /\ DOMAIN c = 1..n /\ n \in Nat
  BY OnTop
<1> HIDE DEF n, d
<1>8. \A i \in 1..n : v[i] \in Nat \ {0} /\ i \in DOMAIN c /\ c[i] \in Record
  BY <1>1, ElementOfSeq DEF Levels, n
<1>2. /\ \A i \in 1..n : w[i] = v[i] /\ v[i] \in Nat \ {0} /\ i \in DOMAIN c /\ c[i] \in Record
      /\ w[n + 1] = x
  BY <1>1, <1>8 DEF Above
<1>3. w \in [DOMAIN d -> Nat \ {0}]
  BY <1>1, <1>8 DEF Above
<1> HIDE DEF w
<1>4. ASSUME NEW i \in 1..n
      PROVE  Level(T[d[i].thread].ci, d, w, i) /\ w[i] <= Len(T[d[i].thread].ci)
  <2>1. Level(T[c[i].thread].ci, c, v, i)
    BY <1>2 DEF Levels
  <2>2. i # 1 => i - 1 \in 1..n
    BY <1>1
  <2>3. i # 1 => c[i - 1] = d[i - 1] /\ v[i - 1] = w[i - 1] /\ v[i - 1] \in Nat
    BY <2>2, <1>1, <1>2
  <2>4. i \in Nat \ {0} /\ \A j \in 1..v[i] : T[c[i].thread].ci[j] = T[c[i].thread].ci[j]
    BY <1>1
  <2>5. c[i] = d[i] /\ v[i] = w[i] /\ v[i] \in Nat \ {0} /\ c[i] \in Record
    BY <1>1, <1>2
  <2>6. Level(T[c[i].thread].ci, d, w, i)
    BY <2>1, <2>3, <2>4, <2>5, LevelAgrees
  <2> QED
    BY <1>1, <1>2, <2>6 DEF Levels
<1>5. Level(T[d[n + 1].thread].ci, d, w, n + 1) /\ w[n + 1] <= Len(T[d[n + 1].thread].ci)
  BY <1>1, <1>2 DEF d, w, n
<1>6. ASSUME NEW i \in 1..n + 1, NEW j \in 1..n + 1, i < j, d[i].thread = d[j].thread
      PROVE  w[i] <= w[j]
  <2>1. i \in 1..n
    BY <1>1, <1>6
  <2>2. CASE j \in 1..n
    BY <1>1, <1>2, <1>6, <2>1, <2>2 DEF Levels
  <2>3. CASE j = n + 1
    BY <1>1, <1>2, <1>6, <2>1, <2>3 DEF n
  <2> QED
    BY <1>1, <2>2, <2>3
<1>7. 1..n + 1 = (1..n) \cup {n + 1}
  BY <1>1
<1> QED
  BY <1>1, <1>3, <1>4, <1>5, <1>6, <1>7 DEF Levels, d, w, n

-----------------------------------------------------------------------------
(* What a change of the thread that runs leaves good.                      *)

CountsAre(c, t, n, l) ==
  Counts(c, t, n, l.errorJmp, l.nCcalls, l.allowhook, l.errfunc)

Sound(l) ==
  /\ l.status = "ok"
  /\ l.ci # <<>> /\ l.ci[1] = "base"
  /\ Len(l.ci) <= l.size_ci /\ l.size_ci \in 2..2 * MaxCalls

LEMMA RecordsOfStack ==
  ASSUME NEW c \in Seq(Record)
  PROVE  /\ Len(c) \in Nat /\ DOMAIN c = 1..Len(c)
         /\ \A i \in 1..Len(c) : c[i] \in Record /\ c[i].thread \in Threads
                                 /\ c[i].k \in {"resume", "pcall", "execute", "call", "hook", "errormsg"}
         /\ c # <<>> <=> Len(c) \in Nat \ {0}
         /\ Last(c) = c[Len(c)]
<1>1. Len(c) \in Nat /\ DOMAIN c = 1..Len(c) /\ \A i \in 1..Len(c) : c[i] \in Record
  BY LenProperties, ElementOfSeq
<1>2. \A r \in Record : r.thread \in Threads
                        /\ r.k \in {"resume", "pcall", "execute", "call", "hook", "errormsg"}
  BY DEF Record
<1>3. c # <<>> <=> Len(c) \in Nat \ {0}
  BY <1>1, EmptySeq
<1> QED
  BY <1>1, <1>2, <1>3 DEF Last

LEMMA WaitersAreOthers ==
  ASSUME NEW c \in Seq(Record), Nested(c), NEW i \in 1..Len(c), c[i].k = "resume"
  PROVE  i > 1 /\ c[i - 1].thread # Last(c).thread /\ i - 1 \in 1..Len(c)
<1> DEFINE n == Len(c)
<1>1. n \in Nat /\ DOMAIN c = 1..n /\ Last(c) = c[n] /\ c # <<>>
  BY RecordsOfStack
<1>0. i \in 1..n
  OBVIOUS
<1> HIDE DEF n
<1>2. i > 1 /\ i - 1 \in 1..n
  <2>1. i # 1
    BY <1>1 DEF Nested, Is
  <2> QED
    BY <1>1, <2>1 DEF n
<1>3. ASSUME NEW m \in 1..n, c[m].k = "resume", i <= m
      PROVE  c[i - 1].thread # c[m].thread
  BY <1>1, <1>2, <1>3 DEF Nested
<1>4. CASE i = n
  BY <1>1, <1>2, <1>3, <1>4
<1>5. CASE i < n
  <2>1. n \in 1..n /\ i \in 1..n
    BY <1>1 DEF n
  <2>2. CASE c[i].thread = c[n].thread
    BY <1>1, <1>2, <1>3, <2>1, <2>2
  <2>3. CASE \E m \in i + 1..n : Is(c, m, c[n].thread, "resume")
    BY <1>1, <1>2, <1>3, <2>1, <2>3 DEF Is
  <2> QED
    BY <1>1, <1>5, <2>1, <2>2, <2>3 DEF Nested
<1>6. i = n \/ i < n
  BY <1>0, <1>1
<1> QED
  BY <1>2, <1>4, <1>5, <1>6 DEF n

(* The thread goes on, perhaps with records of its own taken away.         *)
LEMMA SameRuns ==
  ASSUME NEW T, NEW c, NEW v, Good(T, c, v), NEW m \in 1..Len(c), NEW t \in Threads,
         \A i \in m..Len(c) : c[i].thread = t,
         NEW U \in [Threads -> LuaState], \A u \in Threads \ {t} : U[u] = T[u],
         Sound(U[t]), CountsAre(c, t, m, U[t]),
         v[m] <= Len(U[t].ci), \A j \in 1..v[m] : U[t].ci[j] = T[t].ci[j]
  PROVE  Good(U, Lower(c, m), Under(v, m)) /\ Last(Lower(c, m)) = c[m]
<1> DEFINE n == Len(c)
           d == Lower(c, m)
           w == Under(v, m)
<1>a. c \in Seq(Record) /\ Nested(c) /\ Saved(c)
  BY DEF Good
<1>b. n \in Nat /\ DOMAIN c = 1..n /\ \A i \in 1..n : c[i].thread \in Threads
  BY <1>a, RecordsOfStack
<1>c. m \in 0..Len(c) /\ m \in Nat /\ m <= n /\ m \in 1..n
  BY <1>b
<1>d. /\ d \in Seq(Record) /\ Len(d) = m /\ DOMAIN d = 1..m
      /\ \A i \in 1..m : d[i] = c[i]
  BY <1>a, <1>c, LowerPart
<1>1. /\ c \in Seq(Record) /\ n \in Nat /\ DOMAIN c = 1..n
      /\ d \in Seq(Record) /\ Len(d) = m /\ DOMAIN d = 1..m /\ \A i \in 1..m : d[i] = c[i]
      /\ \A i \in 1..n : c[i].thread \in Threads
      /\ m \in Nat /\ m <= n /\ m \in 1..n
  BY <1>a, <1>b, <1>c, <1>d
<1>2. Last(d) = c[m] /\ c[m].thread = t /\ Last(c).thread = t
  BY <1>1 DEF Last
<1>3. Nested(d) /\ Saved(d)
  BY <1>1, LowerNested, LowerSaved DEF Good
<1>4. w = [i \in 1..m |-> v[i]]
  BY DEF Under
<1>5. \A i \in 1..m : v[i] \in Nat \ {0}
  BY <1>1 DEF Good, Levels
<1>6. Levels(U, d, w)
  <2>1. ASSUME NEW i \in 1..m
        PROVE  /\ v[i] <= Len(U[c[i].thread].ci)
               /\ \A j \in 1..v[i] : U[c[i].thread].ci[j] = T[c[i].thread].ci[j]
    <3>1. CASE c[i].thread = t
      <4>1. v[i] <= v[m]
        <5>1. i \in DOMAIN c /\ m \in DOMAIN c /\ (i < m \/ i = m) /\ v[m] \in Nat
          BY <1>1, <1>5
        <5> QED
          BY <1>2, <3>1, <5>1 DEF Good, Levels
      <4>2. Len(U[t].ci) \in Nat
        BY LenProperties DEF LuaState
      <4> QED
        BY <1>5, <3>1, <4>1, <4>2
    <3>2. CASE c[i].thread # t
      <4>1. i \in DOMAIN c /\ c[i].thread \in Threads \ {t}
        BY <1>b, <1>c, <3>2
      <4>2. U[c[i].thread] = T[c[i].thread]
        BY <4>1
      <4>3. v[i] <= Len(T[c[i].thread].ci)
        BY <4>1 DEF Good, Levels
      <4> QED
        BY <4>2, <4>3
    <3> QED
      BY <3>1, <3>2
  <2> QED
    BY <1>a, <1>c, <2>1, LevelsKept DEF Good
<1> HIDE DEF n, d, w
<1>7. Counted(U, d)
  <2> SUFFICES ASSUME NEW u \in Threads, U[u].status # "error"
               PROVE  CountsAre(d, u, m, U[u])
    BY <1>1 DEF Counted, CountsAre
  <2>1. CountsAre(c, u, m, U[u])
    <3>1. CASE u # t
      <4>1. CountsAre(c, u, n, U[u])
        BY <3>1 DEF Good, Counted, CountsAre, n
      <4>2. \A i \in m + 1..n : c[i].thread # u
        BY <1>1, <3>1 DEF n
      <4> QED
        BY <1>1, <4>1, <4>2, CountsSkip DEF CountsAre
    <3> QED
      BY <3>1
  <2> QED
    BY <1>1, <2>1, CountsAgree DEF CountsAre
<1>8. Waiting(U, d, w)
  <2>1. ASSUME NEW i \in 1..m, d[i].k = "resume"
        PROVE  Len(U[d[i - 1].thread].ci) = w[i - 1] + 1
    <3>1. i > 1 /\ c[i - 1].thread # t /\ i \in 1..n
      <4>1. i \in 1..Len(c) /\ c[i].k = "resume" /\ i \in 1..n
        BY <1>1, <2>1 DEF n
      <4> QED
        BY <1>a, <1>2, <4>1, WaitersAreOthers
    <3>2. i - 1 \in 1..m /\ i - 1 \in 1..n /\ d[i - 1] = c[i - 1] /\ w[i - 1] = v[i - 1]
      BY <1>1, <1>4, <3>1
    <3>3. Len(T[c[i - 1].thread].ci) = v[i - 1] + 1
      BY <1>1, <2>1, <3>1 DEF Good, Waiting
    <3> QED
      BY <1>1, <3>1, <3>2, <3>3
  <2>2. ASSUME NEW i \in 1..m, d[i].thread # t PROVE Len(U[d[i].thread].ci) > 1
    <3>1. i \in DOMAIN c /\ c[i].thread # Last(c).thread /\ d[i] = c[i]
          /\ c[i].thread \in Threads \ {t}
      BY <1>1, <1>2, <2>2
    <3> QED
      BY <3>1 DEF Good, Waiting
  <2> QED
    BY <1>1, <1>2, <2>1, <2>2 DEF Waiting
<1>9. Idle(U, d)
  <2> SUFFICES ASSUME NEW u \in Threads \ {Main}, \A i \in 1..m : d[i].thread # u
               PROVE  /\ U[u].status = "ok" => Len(U[u].ci) = 1
                      /\ U[u].status = "yield" =>
                           Len(U[u].ci) > 2 /\ \A j \in 2..Len(U[u].ci) - 1 : U[u].ci[j] = "lua"
    BY <1>1 DEF Idle
  <2>1. u # t
    BY <1>1, <1>2
  <2>2. ASSUME NEW i \in 1..n PROVE c[i].thread # u
    <3>1. CASE i \in 1..m
      BY <1>1, <3>1
    <3>2. CASE i \in m..Len(c)
      BY <2>1, <3>2
    <3> QED
      BY <1>1, <3>1, <3>2 DEF n
  <2> QED
    BY <1>1, <2>1, <2>2 DEF Good, Idle
<1>10. Alive(U, d)
  <2>1. ASSUME NEW i \in 1..m PROVE U[d[i].thread].status = "ok"
    <3>1. i \in DOMAIN c /\ d[i] = c[i] /\ c[i].thread \in Threads
      BY <1>1
    <3> QED
      BY <3>1 DEF Good, Alive, Sound
  <2> QED
    BY <1>1, <2>1 DEF Alive
<1>11. CiFits(U)
  <2>1. \A u \in Threads : u = t \/ U[u] = T[u]
    OBVIOUS
  <2> QED
    BY <2>1 DEF Good, CiFits, Sound
<1> QED
  BY <1>1, <1>2, <1>3, <1>6, <1>7, <1>8, <1>9, <1>10, <1>11 DEF Good, d, w


(* A record of the thread that runs is put on the stack.                   *)
SavedAt(c, n, r) ==
  /\ r.k = "pcall" => /\ Counts(c, r.thread, n, r.previous, r.nCcalls, r.allowhook, r.errfunc)
                      /\ r.nCcalls < MaxCCalls + ExtraCCalls
  /\ r.k = "resume" => r.previous = 0
  /\ r.k = "hook" => Hookable(c, r.thread, n)

LEMMA SavedPush ==
  ASSUME NEW c \in Seq(Record), NEW r \in Record, Saved(c), SavedAt(c, Len(c), r)
  PROVE  Saved(Append(c, r))
<1> DEFINE n == Len(c)
           d == Append(c, r)
<1>1. /\ DOMAIN d = 1..n + 1 /\ \A i \in 1..n : d[i] = c[i]
      /\ d[n + 1] = r /\ DOMAIN c = 1..n /\ n \in Nat
  BY OnTop
<1> HIDE DEF n, d
<1>2. ASSUME NEW i \in 1..n + 1 PROVE SavedAt(d, i - 1, d[i])
  <2>1. SavedAt(c, i - 1, d[i])
    <3>1. CASE i \in 1..n
      BY <1>1, <3>1 DEF Saved, SavedAt
    <3>2. CASE i = n + 1
      <4>1. i - 1 = n
        BY <1>1, <3>2
      <4> QED
        BY <1>1, <3>2, <4>1 DEF n
    <3> QED
      BY <1>1, <3>1, <3>2
  <2>2. i - 1 \in Nat /\ \A j \in 1..i - 1 : c[j] = d[j]
    BY <1>1
  <2> DEFINE e == d[i]
  <2> HIDE DEF e
  <2>3. e.k = "hook" => Hookable(d, e.thread, i - 1)
    BY <2>1, <2>2 DEF SavedAt, Hookable, Is, e
  <2>4. e.k = "pcall" => Counts(d, e.thread, i - 1, e.previous, e.nCcalls, e.allowhook, e.errfunc)
    BY <2>1, <2>2, CountsAgree DEF SavedAt, e
  <2> QED
    BY <2>1, <2>3, <2>4 DEF SavedAt, e
<1> QED
  BY <1>1, <1>2 DEF Saved, SavedAt, d

LEMMA NestedPush ==
  ASSUME NEW c \in Seq(Record), NEW r \in Record, Nested(c), c # <<>>,
         \/ r.thread = Last(c).thread /\ r.k # "resume"
         \/ r.k = "resume" /\ \A i \in 1..Len(c) : c[i].thread # r.thread
  PROVE  Nested(Append(c, r))
<1> DEFINE n == Len(c)
           d == Append(c, r)
<1>1. /\ DOMAIN d = 1..n + 1 /\ \A i \in 1..n : d[i] = c[i]
      /\ d[n + 1] = r /\ DOMAIN c = 1..n /\ n \in Nat \ {0} /\ Last(c) = c[n]
  BY OnTop, RecordsOfStack
<1> HIDE DEF n, d
<1>2. Is(d, 1, Main, "pcall")
  BY <1>1 DEF Nested, Is
<1>3. ASSUME NEW i \in 1..n + 1, d[i].k = "resume", NEW j \in 1..i - 1
      PROVE  d[j].thread # d[i].thread
  <2>1. j \in 1..n /\ d[j] = c[j]
    BY <1>1
  <2>2. CASE i \in 1..n
    BY <1>1, <1>3, <2>1, <2>2 DEF Nested
  <2>3. CASE i = n + 1
    BY <1>1, <1>3, <2>1, <2>3 DEF n
  <2> QED
    BY <1>1, <2>2, <2>3
<1>4. ASSUME NEW i \in 1..n + 1, NEW j \in 1..n + 1, i < j, d[i].thread # d[j].thread
      PROVE  \E h \in i + 1..j : Is(d, h, d[j].thread, "resume")
  <2>1. i \in 1..n /\ d[i] = c[i]
    BY <1>1, <1>4
  <2>2. CASE j \in 1..n
    <3>1. PICK h \in i + 1..j : Is(c, h, c[j].thread, "resume")
      BY <1>1, <1>4, <2>1, <2>2 DEF Nested
    <3> QED
      BY <1>1, <2>2, <3>1 DEF Is
  <2>3. CASE j = n + 1 /\ r.k = "resume"
    <3>1. Is(d, j, d[j].thread, "resume") /\ j \in i + 1..j
      BY <1>1, <2>1, <2>3 DEF Is
    <3> QED
      BY <3>1
  <2>4. CASE j = n + 1 /\ r.k # "resume"
    <3>1. d[j].thread = c[n].thread /\ i # n
      BY <1>1, <1>4, <2>1, <2>4
    <3>2. PICK h \in i + 1..n : Is(c, h, c[n].thread, "resume")
      <4>1. i \in DOMAIN c /\ n \in DOMAIN c /\ i < n /\ c[i].thread # c[n].thread
        BY <1>1, <1>4, <2>1, <3>1
      <4> QED
        BY <4>1 DEF Nested
    <3>3. h \in i + 1..j /\ h \in 1..n
      BY <1>1, <2>1, <2>4
    <3> QED
      BY <1>1, <3>1, <3>2, <3>3 DEF Is
  <2> QED
    BY <1>1, <2>2, <2>3, <2>4
<1> QED
  BY <1>1, <1>2, <1>3, <1>4 DEF Nested, d


LEMMA Pushed ==
  ASSUME NEW T, NEW c, NEW v, Good(T, c, v), c # <<>>, NEW r \in Record, NEW x \in Nat \ {0},
         NEW U \in [Threads -> LuaState], \A u \in Threads \ {r.thread} : U[u] = T[u],
         Sound(U[r.thread]), CountsAre(Append(c, r), r.thread, Len(c) + 1, U[r.thread]),
         SavedAt(c, Len(c), r), x <= Len(U[r.thread].ci),
         Level(U[r.thread].ci, Append(c, r), Above(v, Len(c), x), Len(c) + 1),
         \/ /\ r.k # "resume" /\ r.thread = Last(c).thread
            /\ v[Len(c)] <= x /\ U[r.thread].ci = T[r.thread].ci
         \/ /\ r.k = "resume" /\ \A i \in 1..Len(c) : c[i].thread # r.thread
            /\ Len(T[Last(c).thread].ci) = v[Len(c)] + 1
  PROVE  Good(U, Append(c, r), Above(v, Len(c), x))
<1> DEFINE n == Len(c)
           t == r.thread
           d == Append(c, r)
           w == Above(v, n, x)
           Goes == r.k # "resume" /\ t = Last(c).thread /\ v[n] <= x /\ U[t].ci = T[t].ci
           Starts == /\ r.k = "resume" /\ \A i \in 1..n : c[i].thread # t
                     /\ Len(T[Last(c).thread].ci) = v[n] + 1
<1>a. c \in Seq(Record) /\ Nested(c) /\ Saved(c) /\ (Goes \/ Starts)
  BY DEF Good
<1>b. n \in Nat \ {0} /\ DOMAIN c = 1..n /\ (\A i \in 1..n : c[i].thread \in Threads) /\ Last(c) = c[n]
  BY <1>a, RecordsOfStack
<1>c. /\ d \in Seq(Record) /\ Len(d) = n + 1 /\ DOMAIN d = 1..n + 1
      /\ \A i \in 1..n : d[i] = c[i]
      /\ d[n + 1] = r /\ Last(d) = r
  BY <1>a, OnTop
<1>d. t \in Threads
  BY DEF Record
<1>e. w = [i \in 1..n + 1 |-> IF i <= n THEN v[i] ELSE x]
  BY DEF Above
<1>f. Nested(d)
  BY <1>a, NestedPush
<1>g. Saved(d)
  BY <1>a, SavedPush
<1>h. ASSUME NEW i \in 1..n PROVE U[c[i].thread].ci = T[c[i].thread].ci
  BY <1>a, <1>b, <1>h
<1>i. \A i \in 1..n : v[i] \in Nat \ {0}
  BY <1>b DEF Good, Levels
<1>j. Levels(U, c, v)
  BY <1>b, <1>h DEF Good, Levels
<1>k. \A i \in 1..n : c[i].thread = t => v[i] <= x
  <2>1. ASSUME NEW i \in 1..n, c[i].thread = t PROVE v[i] <= x
    <3>a. Goes
      BY <1>a, <2>1
    <3>d. \A h \in Nat \ {0} : h \in 1..h /\ \A k \in 1..h : k < h \/ k = h
      OBVIOUS
    <3>b. i \in DOMAIN c /\ n \in DOMAIN c /\ (i < n \/ i = n)
      BY <1>b, <3>d
    <3>c. v[n] \in Nat
      BY <1>b, <1>i, <3>b
    <3>1. Goes /\ i \in DOMAIN c /\ n \in DOMAIN c /\ (i < n \/ i = n) /\ v[n] \in Nat
      BY <3>a, <3>b, <3>c
    <3>2. v[i] <= v[n]
      BY <1>b, <1>i, <2>1, <3>1 DEF Good, Levels
    <3> QED
      BY <1>i, <3>1, <3>2
  <2> QED
    BY <2>1
<1>l. Levels(U, d, w)
  BY <1>a, <1>j, <1>k, LevelsPush
<1> HIDE DEF n, d, w, t
<1>m. Counted(U, d)
  <2> SUFFICES ASSUME NEW u \in Threads, U[u].status # "error"
               PROVE  CountsAre(d, u, n + 1, U[u])
    BY <1>c DEF Counted, CountsAre
  <2>1. CASE u = t
    BY <2>1 DEF d, n, t
  <2>2. CASE u # t
    <3>1. U[u] = T[u]
      BY <2>2 DEF t
    <3>2. CountsAre(c, u, n, U[u])
      BY <3>1 DEF Good, Counted, CountsAre, n
    <3>3. CountsAre(d, u, n, U[u])
      BY <1>b, <1>c, <3>2, CountsAgree DEF CountsAre
    <3>4. \A i \in n + 1..n + 1 : d[i].thread # u
      BY <1>b, <1>c, <2>2 DEF t
    <3> QED
      BY <1>b, <3>3, <3>4, CountsSkip DEF CountsAre
  <2> QED
    BY <2>1, <2>2
<1>n. Waiting(U, d, w)
  <2>1. ASSUME NEW i \in 1..n + 1, d[i].k = "resume"
        PROVE  Len(U[d[i - 1].thread].ci) = w[i - 1] + 1
    <3>1. CASE i \in 1..n
      <4>1. i > 1 /\ i - 1 \in 1..n
        <5>1. i \in 1..Len(c) /\ c[i].k = "resume"
          BY <1>c, <2>1, <3>1 DEF n
        <5> QED
          BY <1>a, <1>b, <5>1, WaitersAreOthers DEF n
      <4>2. d[i - 1] = c[i - 1] /\ w[i - 1] = v[i - 1] /\ d[i] = c[i] /\ i \in DOMAIN c
        BY <1>b, <1>c, <1>e, <3>1, <4>1
      <4>3. Len(T[c[i - 1].thread].ci) = v[i - 1] + 1
        BY <2>1, <4>2 DEF Good, Waiting
      <4>4. U[c[i - 1].thread].ci = T[c[i - 1].thread].ci
        BY <1>h, <4>1
      <4> QED
        BY <4>2, <4>3, <4>4
    <3>2. CASE i = n + 1
      <4>1. Starts /\ i - 1 = n /\ n \in 1..n
        BY <1>a, <1>b, <1>c, <2>1, <3>2
      <4>2. w[n] = v[n] /\ d[n] = Last(c)
        BY <1>b, <1>c, <1>e, <4>1
      <4>3. U[Last(c).thread].ci = T[Last(c).thread].ci
        BY <1>b, <1>h, <4>1
      <4> QED
        BY <4>1, <4>2, <4>3
    <3> QED
      BY <1>b, <3>1, <3>2
  <2>2. ASSUME NEW i \in 1..n + 1, d[i].thread # t PROVE Len(U[d[i].thread].ci) > 1
    <3>1. i \in 1..n /\ d[i] = c[i]
      BY <1>b, <1>c, <2>2 DEF t
    <3>2. CASE c[i].thread # Last(c).thread
      <4>1. i \in DOMAIN c
        BY <1>b, <3>1
      <4>2. Len(T[c[i].thread].ci) > 1
        BY <3>2, <4>1 DEF Good, Waiting
      <4> QED
        BY <1>h, <3>1, <4>2
    <3>3. CASE c[i].thread = Last(c).thread
      <4>1. Starts /\ n \in 1..n
        BY <1>a, <1>b, <2>2, <3>1, <3>3
      <4>2. v[n] \in Nat \ {0}
        BY <1>i, <4>1
      <4>3. Len(T[c[i].thread].ci) = v[n] + 1
        BY <3>3, <4>1
      <4>4. Len(T[c[i].thread].ci) > 1
        BY <4>2, <4>3
      <4> QED
        BY <1>h, <3>1, <4>4
    <3> QED
      BY <3>2, <3>3
  <2> QED
    BY <1>c, <2>1, <2>2 DEF Waiting, t
<1>o. Idle(U, d)
  <2> SUFFICES ASSUME NEW u \in Threads \ {Main}, \A i \in 1..n + 1 : d[i].thread # u
               PROVE  /\ U[u].status = "ok" => Len(U[u].ci) = 1
                      /\ U[u].status = "yield" =>
                           Len(U[u].ci) > 2 /\ \A j \in 2..Len(U[u].ci) - 1 : U[u].ci[j] = "lua"
    BY <1>c DEF Idle
  <2>1. u # t
    BY <1>b, <1>c DEF t
  <2>2. \A i \in 1..n : c[i].thread # u
    BY <1>b, <1>c
  <2>3. U[u] = T[u]
    BY <2>1 DEF t
  <2> QED
    BY <1>b, <2>2, <2>3 DEF Good, Idle
<1>p. Alive(U, d)
  <2>1. ASSUME NEW i \in 1..n + 1 PROVE U[d[i].thread].status = "ok"
    <3>1. CASE d[i].thread = t
      BY <3>1 DEF Sound, t
    <3>2. CASE d[i].thread # t
      <4>1. i \in 1..n /\ d[i] = c[i] /\ i \in DOMAIN c /\ c[i].thread \in Threads
        BY <1>b, <1>c, <3>2 DEF t
      <4> QED
        BY <3>2, <4>1 DEF Good, Alive, t
    <3> QED
      BY <3>1, <3>2
  <2> QED
    BY <1>c, <2>1 DEF Alive
<1>q. CiFits(U)
  <2>1. \A u \in Threads : u = t \/ U[u] = T[u]
    BY DEF t
  <2> QED
    BY <2>1 DEF Good, CiFits, Sound, t
<1> QED
  BY <1>c, <1>f, <1>g, <1>l, <1>m, <1>n, <1>o, <1>p, <1>q DEF Good, d, w, n


(* A record lies on one of its own thread, but for the resume.             *)
LEMMA LiesOnItsOwn ==
  ASSUME NEW c \in Seq(Record), Nested(c), NEW i \in 1..Len(c), i # 1, c[i].k # "resume"
  PROVE  i - 1 \in 1..Len(c) /\ c[i - 1].thread = c[i].thread
<1> DEFINE n == Len(c)
<1>1. n \in Nat /\ DOMAIN c = 1..n
  BY RecordsOfStack
<1>2. i \in 1..n
  OBVIOUS
<1> HIDE DEF n
<1>3. i - 1 \in 1..n /\ i - 1 < i /\ \A m \in i - 1 + 1..i : m = i
  BY <1>1, <1>2
<1>4. ~ \E m \in i - 1 + 1..i : Is(c, m, c[i].thread, "resume")
  BY <1>3 DEF Is
<1> QED
  BY <1>1, <1>2, <1>3, <1>4 DEF Nested, n

(* From the innermost jump of the thread that runs all is its own.         *)
LEMMA JumpsOverItsOwn ==
  ASSUME NEW c \in Seq(Record), Nested(c), c # <<>>, NEW j,
         Innermost(c, Last(c).thread, Len(c), j)
  PROVE  /\ j \in 1..Len(c) /\ Jump(c, j, Last(c).thread)
         /\ \A i \in j..Len(c) : c[i].thread = Last(c).thread
<1> DEFINE n == Len(c)
           t == c[n].thread
<1>1. n \in Nat \ {0} /\ DOMAIN c = 1..n /\ Last(c) = c[n]
  BY RecordsOfStack
<1>2. Innermost(c, t, n, j)
  BY <1>1
<1> HIDE DEF n
<1>3. j # 0
  <2>1. \E i \in 1..n : Jump(c, i, t)
    <3>1. 1 \in 1..n /\ n \in 1..n
      BY <1>1
    <3>2. CASE c[1].thread = t
      BY <1>1, <3>1, <3>2 DEF Nested, Is, Jump
    <3>3. CASE c[1].thread # t
      <4>1. 1 < n
        BY <1>1, <3>3 DEF t
      <4>2. PICK m \in 1 + 1..n : Is(c, m, t, "resume")
        BY <1>1, <3>1, <3>3, <4>1 DEF Nested, t
      <4>3. m \in 1..n
        BY <1>1
      <4> QED
        BY <4>2, <4>3 DEF Is, Jump
    <3> QED
      BY <3>2, <3>3
  <2> QED
    BY <1>2, <2>1 DEF Innermost
<1>4. j \in 1..n /\ Jump(c, j, t) /\ \A i \in j + 1..n : ~Jump(c, i, t)
  BY <1>2, <1>3 DEF Innermost
<1>5. ASSUME NEW i \in j..n, c[i].thread # t PROVE FALSE
  <2>1. i \in 1..n /\ n \in 1..n /\ i < n
    BY <1>1, <1>4, <1>5 DEF t
  <2>2. PICK m \in i + 1..n : Is(c, m, t, "resume")
    BY <1>1, <1>5, <2>1 DEF Nested, t
  <2>3. m \in j + 1..n
    BY <1>1, <1>4, <2>1
  <2> QED
    BY <1>4, <2>2, <2>3 DEF Is, Jump
<1> QED
  BY <1>1, <1>4, <1>5 DEF n

(* A thread with nothing on the stack.                                     *)
Rests(l) ==
  /\ l.ci # <<>> /\ l.ci[1] = "base"
  /\ Len(l.ci) <= l.size_ci /\ l.size_ci \in 2..2 * MaxCalls
  /\ l.status # "error" => /\ l.errorJmp = 0 /\ l.nCcalls = 0
                           /\ l.allowhook = TRUE /\ l.errfunc = FALSE
  /\ l.status = "ok" => Len(l.ci) = 1
  /\ l.status = "yield" => Len(l.ci) > 2 /\ \A j \in 2..Len(l.ci) - 1 : l.ci[j] = "lua"

(* A coroutine ends, with an error or without, or yields.                  *)
LEMMA Left ==
  ASSUME NEW T, NEW c, NEW v, Good(T, c, v), NEW j \in 1..Len(c), NEW t \in Threads,
         Is(c, j, t, "resume"), \A i \in j..Len(c) : c[i].thread = t,
         NEW U \in [Threads -> LuaState], \A u \in Threads \ {t} : U[u] = T[u], Rests(U[t])
  PROVE  /\ j - 1 \in 1..Len(c)
         /\ Good(U, Lower(c, j - 1), Under(v, j - 1))
         /\ Last(Lower(c, j - 1)) = c[j - 1] /\ c[j - 1].k = "execute"
         /\ c[j - 1].thread # t
         /\ Len(U[c[j - 1].thread].ci) = v[j - 1] + 1
<1> DEFINE n == Len(c)
           m == j - 1
           d == Lower(c, m)
           w == Under(v, m)
<1>a. c \in Seq(Record) /\ Nested(c) /\ Saved(c)
  BY DEF Good
<1>b. n \in Nat /\ DOMAIN c = 1..n /\ \A i \in 1..n : c[i].thread \in Threads
  BY <1>a, RecordsOfStack
<1>c. j > 1 /\ j - 1 \in 1..n
  BY <1>a, WaitersAreOthers DEF Is
<1>d. m \in 0..Len(c) /\ m \in Nat /\ m < n /\ m \in 1..n /\ j = m + 1
  BY <1>b, <1>c
<1>e. /\ d \in Seq(Record) /\ Len(d) = m /\ DOMAIN d = 1..m
      /\ \A i \in 1..m : d[i] = c[i]
  BY <1>a, <1>d, LowerPart
<1>f. w = [i \in 1..m |-> v[i]]
  BY DEF Under
<1>g. ASSUME NEW i \in 1..m PROVE i \in 1..n /\ c[i].thread \in Threads /\ c[i].thread # t
  <2>1. i \in 1..n /\ j \in DOMAIN c /\ i \in 1..j - 1
    BY <1>b, <1>d
  <2> QED
    BY <1>b, <2>1 DEF Nested, Is, Good
<1>h. Nested(d) /\ Saved(d)
  BY <1>a, <1>d, LowerNested, LowerSaved
<1>i. Levels(U, d, w)
  <2>1. ASSUME NEW i \in 1..m
        PROVE  /\ v[i] <= Len(U[c[i].thread].ci)
               /\ \A k \in 1..v[i] : U[c[i].thread].ci[k] = T[c[i].thread].ci[k]
    BY <1>b, <1>g DEF Good, Levels
  <2> QED
    BY <1>a, <1>d, <2>1, LevelsKept DEF Good
<1>r. m \in 1..m
  <2>1. \A i \in 1..n : i \in 1..i
    OBVIOUS
  <2> QED
    BY <1>d, <2>1
<1>k. c[m].k = "execute" /\ Len(U[c[m].thread].ci) = v[m] + 1
  <2>1. j \in DOMAIN c /\ c[j].k = "resume" /\ j # 1
    BY <1>b, <1>c DEF Is
  <2>2. Level(T[c[j].thread].ci, c, v, j) /\ Len(T[c[m].thread].ci) = v[m] + 1
    BY <2>1 DEF Good, Levels, Waiting
  <2>3. c[m].k = "execute"
    BY <2>1, <2>2 DEF Level
  <2> QED
    BY <1>g, <1>r, <2>2, <2>3
<1> HIDE DEF n, d, w, m
<1>j. Last(d) = c[m]
  BY <1>e, <1>r DEF Last
<1>l. Counted(U, d)
  <2> SUFFICES ASSUME NEW u \in Threads, U[u].status # "error"
               PROVE  CountsAre(d, u, m, U[u])
    BY <1>e DEF Counted, CountsAre
  <2>1. CASE u = t
    <3>1. \A i \in 1..m : d[i].thread # u
      BY <1>e, <1>g, <2>1
    <3>2. Counts(d, u, m, 0, 0, TRUE, FALSE)
      BY <1>d, <3>1, CountsOfNone
    <3> QED
      BY <2>1, <3>2 DEF CountsAre, Rests
  <2>2. CASE u # t
    <3>1. CountsAre(c, u, n, U[u])
      BY <2>2 DEF Good, Counted, CountsAre, n
    <3>2. ASSUME NEW i \in m + 1..n PROVE c[i].thread # u
      <4>1. i \in j..Len(c)
        BY <1>b, <1>d DEF n
      <4> QED
        BY <2>2, <4>1
    <3>3. CountsAre(c, u, m, U[u])
      BY <1>b, <1>d, <3>1, <3>2, CountsSkip DEF CountsAre
    <3> QED
      BY <1>d, <1>e, <3>3, CountsAgree DEF CountsAre
  <2> QED
    BY <2>1, <2>2
<1>m. Waiting(U, d, w)
  <2>1. ASSUME NEW i \in 1..m, d[i].k = "resume"
        PROVE  Len(U[d[i - 1].thread].ci) = w[i - 1] + 1
    <3>1. i > 1 /\ i \in 1..n
      <4>1. i \in 1..Len(c) /\ c[i].k = "resume" /\ i \in 1..n
        BY <1>e, <1>g, <2>1 DEF n
      <4> QED
        BY <1>a, <4>1, WaitersAreOthers
    <3>2. i - 1 \in 1..m /\ i - 1 \in 1..n /\ d[i - 1] = c[i - 1] /\ w[i - 1] = v[i - 1]
      BY <1>b, <1>d, <1>e, <1>f, <3>1
    <3>3. Len(T[c[i - 1].thread].ci) = v[i - 1] + 1
      BY <1>b, <1>e, <2>1, <3>1 DEF Good, Waiting
    <3> QED
      BY <1>g, <3>2, <3>3
  <2>2. ASSUME NEW i \in 1..m, d[i].thread # Last(d).thread PROVE Len(U[d[i].thread].ci) > 1
    <3>1. i \in DOMAIN c /\ n \in 1..n /\ d[i] = c[i]
          /\ c[i].thread \in Threads \ {t}
      BY <1>b, <1>d, <1>e, <1>g, <2>2
    <3>2. Last(c).thread = t
      <4>1. n \in j..Len(c)
        BY <1>b, <1>d DEF n
      <4> QED
        BY <4>1 DEF n, Last
    <3> QED
      BY <3>1, <3>2 DEF Good, Waiting
  <2> QED
    BY <1>e, <2>1, <2>2 DEF Waiting
<1>n. Idle(U, d)
  <2> SUFFICES ASSUME NEW u \in Threads \ {Main}, \A i \in 1..m : d[i].thread # u
               PROVE  /\ U[u].status = "ok" => Len(U[u].ci) = 1
                      /\ U[u].status = "yield" =>
                           Len(U[u].ci) > 2 /\ \A h \in 2..Len(U[u].ci) - 1 : U[u].ci[h] = "lua"
    BY <1>e DEF Idle
  <2>1. CASE u = t
    BY <2>1 DEF Rests
  <2>2. CASE u # t
    <3>1. ASSUME NEW i \in 1..n PROVE c[i].thread # u
      <4>1. CASE i \in 1..m
        BY <1>e, <4>1
      <4>2. CASE i \in j..Len(c)
        BY <2>2, <4>2
      <4> QED
        BY <1>b, <1>d, <4>1, <4>2 DEF n
    <3> QED
      BY <1>b, <2>2, <3>1 DEF Good, Idle
  <2> QED
    BY <2>1, <2>2
<1>o. Alive(U, d)
  <2>1. ASSUME NEW i \in 1..m PROVE U[d[i].thread].status = "ok"
    BY <1>b, <1>e, <1>g DEF Good, Alive
  <2> QED
    BY <1>e, <2>1 DEF Alive
<1>p. CiFits(U)
  <2>1. \A u \in Threads : u = t \/ U[u] = T[u]
    OBVIOUS
  <2> QED
    BY <2>1, SMTT(60) DEF Good, CiFits, Rests
<1> QED
  BY <1>c, <1>e, <1>g, <1>r, <1>h, <1>i, <1>j, <1>k, <1>l, <1>m, <1>n, <1>o, <1>p DEF Good, d, w, m, n

(* The program ends.                                                       *)
LEMMA Ended ==
  ASSUME NEW T, NEW c, NEW v, Good(T, c, v), c # <<>>,
         \A i \in 1..Len(c) : c[i].thread = Main,
         NEW U \in [Threads -> LuaState], \A u \in Threads \ {Main} : U[u] = T[u],
         Sound(U[Main]), CountsAre(c, Main, 0, U[Main])
  PROVE  Good(U, <<>>, Under(v, 0))
<1>a. c \in Seq(Record) /\ Len(c) \in Nat /\ DOMAIN c = 1..Len(c) /\ Main \in Threads
  BY RecordsOfStack, LimitsAssumption DEF Good
<1>b. <<>> \in Seq(Record) /\ DOMAIN <<>> = {} /\ Len(<<>>) = 0
  BY EmptySeq
<1> DEFINE e == <<>>
<1> HIDE DEF e
<1>1. Nested(e) /\ Saved(e) /\ Waiting(U, e, Under(v, 0)) /\ Alive(U, e)
  BY <1>b DEF Nested, Saved, Waiting, Alive, e
<1>2. Levels(U, e, Under(v, 0))
  <2>1. Under(v, 0) \in [{} -> Nat \ {0}]
    BY DEF Under
  <2> QED
    BY <1>b, <2>1 DEF Levels, e
<1>3. Counted(U, e)
  <2> SUFFICES ASSUME NEW u \in Threads, U[u].status # "error"
               PROVE  CountsAre(e, u, 0, U[u])
    BY <1>b DEF Counted, CountsAre, e
  <2>1. CountsAre(c, u, 0, U[u])
    <3>1. CASE u # Main
      <4>1. CountsAre(c, u, Len(c), U[u])
        BY <3>1 DEF Good, Counted, CountsAre
      <4>2. \A i \in 0 + 1..Len(c) : c[i].thread # u
        BY <1>a, <3>1
      <4> QED
        BY <1>a, <4>1, <4>2, CountsSkip DEF CountsAre
    <3> QED
      BY <3>1
  <2> QED
    BY <2>1, CountsAgree DEF CountsAre
<1>4. Idle(U, e)
  <2>1. ASSUME NEW u \in Threads \ {Main}
        PROVE  (\A i \in DOMAIN c : c[i].thread # u) /\ U[u] = T[u]
    BY <1>a
  <2> QED
    BY <2>1 DEF Good, Idle
<1>5. CiFits(U)
  <2>1. \A u \in Threads : u = Main \/ U[u] = T[u]
    OBVIOUS
  <2> QED
    BY <2>1 DEF Good, CiFits, Sound
<1> QED
  BY <1>b, <1>1, <1>2, <1>3, <1>4, <1>5 DEF Good, e


-----------------------------------------------------------------------------
(* The operations, on states as values.                                    *)

St(T, c, told_, raised_) == [threads |-> T, cstack |-> c, told |-> told_, raised |-> raised_]
One(T, c, told_, raised_) == [threads : {T}, cstack : {c}, told : {told_}, raised : {raised_}]
Put(T, t, l) == [T EXCEPT ![t] = l]
Popped(l) == [l EXCEPT !.ci = Front(@)]
Jumping(l, j) == [l EXCEPT !.errorJmp = j]

LEMMA Only ==
  ASSUME NEW T, NEW c, NEW told_, NEW raised_, NEW s \in One(T, c, told_, raised_)
  PROVE  s = St(T, c, told_, raised_)
BY DEF St, One

Limited(T, S) == \A t \in S : T[t].status # "error" => T[t].nCcalls < MaxCCalls + ExtraCCalls
Ready(T, c, v) == Good(T, c, v) /\ c # <<>> /\ Loose(T, c, v)

(* Between two steps: a Lua function runs, or an error is on its way.      *)
Fine(s) ==
  \E v : /\ Good(s.threads, s.cstack, v) /\ Limited(s.threads, Threads)
         /\ s.cstack # <<>> => Loose(s.threads, s.cstack, v)
         /\ s.cstack # <<>> /\ s.raised = "none" => Steady(s.threads, s.cstack, v)
         /\ s.raised # "none" => s.cstack # <<>>

LEMMA FrontPart ==
  ASSUME NEW S, NEW q \in Seq(S), q # <<>>
  PROVE  /\ Len(q) \in Nat \ {0} /\ Front(q) = Lower(q, Len(q) - 1) /\ Len(q) - 1 \in 0..Len(q)
         /\ Front(q) \in Seq(S) /\ Len(Front(q)) = Len(q) - 1
         /\ \A i \in 1..Len(q) - 1 : Front(q)[i] = q[i]
<1>1. Len(q) \in Nat \ {0}
  BY LenProperties, EmptySeq
<1>2. Front(q) = Lower(q, Len(q) - 1)
  BY DEF Front, Lower
<1>3. Len(q) - 1 \in 0..Len(q)
  BY <1>1
<1> DEFINE m == Len(q) - 1
<1>4. m \in 0..Len(q)
  BY <1>3
<1> HIDE DEF m
<1>5. /\ Lower(q, m) \in Seq(S) /\ Len(Lower(q, m)) = m
      /\ \A i \in 1..m : Lower(q, m)[i] = q[i]
  BY <1>4, LowerPart
<1> QED
  BY <1>1, <1>2, <1>3, <1>5 DEF m

(* luaD_pcall, after an error.                                             *)
LEMMA CaughtIs ==
  ASSUME NEW l \in LuaState, NEW r, r.ci \in 1..Len(l.ci), r.nCcalls \in 0..MaxCCalls + ExtraCCalls,
         r.allowhook \in BOOLEAN, r.errfunc \in BOOLEAN,
         Len(l.ci) <= l.size_ci, l.size_ci \in 2..2 * MaxCalls
  PROVE  LET k == Caught(l, r)
         IN /\ k \in LuaState /\ k.ci = Lower(l.ci, r.ci)
            /\ k.nCcalls = r.nCcalls /\ k.allowhook = r.allowhook /\ k.errfunc = r.errfunc
            /\ k.errorJmp = l.errorJmp /\ k.status = l.status /\ k.top = l.top
            /\ Len(k.ci) <= k.size_ci /\ k.size_ci \in 2..2 * MaxCalls
<1>1. l.ci \in Seq(CiKinds) /\ Len(l.ci) \in Nat
  BY LenProperties DEF LuaState
<1>2. r.ci \in 0..Len(l.ci) /\ r.ci \in Nat
  BY <1>1
<1>3. Lower(l.ci, r.ci) \in Seq(CiKinds) /\ Len(Lower(l.ci, r.ci)) = r.ci
  BY <1>1, <1>2, LowerPart
<1> DEFINE h == [l EXCEPT !.ci = SubSeq(@, 1, r.ci), !.nCcalls = r.nCcalls,
                          !.allowhook = r.allowhook, !.errfunc = r.errfunc]
<1>4. /\ h \in LuaState /\ h.ci = Lower(l.ci, r.ci)
      /\ h.nCcalls = r.nCcalls /\ h.allowhook = r.allowhook /\ h.errfunc = r.errfunc
      /\ h.errorJmp = l.errorJmp /\ h.status = l.status /\ h.top = l.top /\ h.size_ci = l.size_ci
  BY <1>3 DEF LuaState, Lower
<1>5. MaxCalls \in Nat /\ MaxCalls >= 2
  BY LimitsAssumption
<1> HIDE DEF h
<1>6. CASE h.size_ci > MaxCalls /\ Len(h.ci) < MaxCalls
  <2>1. Caught(l, r) = [h EXCEPT !.size_ci = MaxCalls]
    BY <1>6 DEF Caught, RestoreStackLimit, h
  <2>2. MaxCalls \in 2..2 * MaxCalls /\ Len(h.ci) <= MaxCalls
    BY <1>3, <1>4, <1>5, <1>6
  <2> QED
    BY <1>4, <1>5, <2>1, <2>2 DEF LuaState
<1>7. CASE ~(h.size_ci > MaxCalls /\ Len(h.ci) < MaxCalls)
  <2>1. Caught(l, r) = h
    BY <1>7 DEF Caught, RestoreStackLimit, h
  <2>2. Len(h.ci) <= h.size_ci
    BY <1>1, <1>3, <1>4
  <2> QED
    BY <1>4, <2>1, <2>2
<1> QED
  BY <1>6, <1>7

LEMMA Changed ==
  ASSUME NEW S, NEW T \in [Threads -> S], NEW t \in Threads, NEW l \in S
  PROVE  /\ Put(T, t, l) \in [Threads -> S] /\ Put(T, t, l)[t] = l
         /\ \A u \in Threads \ {t} : Put(T, t, l)[u] = T[u]
         /\ \A k : Put(Put(T, t, l), t, k) = Put(T, t, k)
BY DEF Put

(* The thread that runs, and what Good says of it.                         *)
LEMMA Runner ==
  ASSUME NEW T, NEW c, NEW v, Ready(T, c, v)
  PROVE  LET t == Last(c).thread
             n == Len(c)
             l == T[t]
         IN /\ T \in [Threads -> LuaState] /\ c \in Seq(Record) /\ Nested(c)
            /\ t \in Threads /\ n \in Nat \ {0} /\ n \in DOMAIN c /\ DOMAIN c = 1..n /\ Last(c) = c[n]
            /\ c[n] \in Record /\ c[n].k \in {"resume", "pcall", "execute", "call", "hook", "errormsg"}
            /\ l \in LuaState /\ l.ci \in Seq(CiKinds) /\ l.ci # <<>> /\ Sound(l)
            /\ Len(l.ci) \in Nat \ {0}
            /\ CountsAre(c, t, n, l)
            /\ v[n] \in Nat \ {0} /\ v[n] <= Len(l.ci) /\ Level(l.ci, c, v, n)
            /\ Len(l.ci) \in {v[n], v[n] + 1}
<1> DEFINE t == Last(c).thread
           n == Len(c)
           l == T[t]
<1>1. T \in [Threads -> LuaState] /\ c \in Seq(Record) /\ Nested(c) /\ c # <<>>
  BY DEF Ready, Good
<1>2. /\ n \in Nat \ {0} /\ DOMAIN c = 1..n /\ Last(c) = c[n]
      /\ \A i \in 1..n : c[i] \in Record /\ c[i].thread \in Threads
                         /\ c[i].k \in {"resume", "pcall", "execute", "call", "hook", "errormsg"}
  BY <1>1, RecordsOfStack
<1>3. n \in 1..n
  BY <1>2
<1>4. t \in Threads /\ l \in LuaState
  BY <1>1, <1>2, <1>3
<1>5. l.ci \in Seq(CiKinds) /\ l.status = "ok" /\ Sound(l)
  BY <1>2, <1>3, <1>4 DEF Ready, Good, Alive, CiFits, Sound, LuaState
<1>6. l.ci # <<>> /\ Len(l.ci) \in Nat \ {0}
  BY <1>5, LenProperties, EmptySeq DEF Sound
<1>7. CountsAre(c, t, n, l)
  BY <1>4, <1>5 DEF Ready, Good, Counted, CountsAre
<1>8. v[n] \in Nat \ {0} /\ v[n] <= Len(l.ci) /\ Level(l.ci, c, v, n)
  BY <1>2, <1>3 DEF Ready, Good, Levels
<1>9. Len(l.ci) \in {v[n], v[n] + 1}
  BY DEF Ready, Loose, Height
<1> QED
  BY <1>1, <1>2, <1>3, <1>4, <1>5, <1>6, <1>7, <1>8, <1>9


LEMMA ReadyIsFine ==
  ASSUME NEW T, NEW c, NEW v, Ready(T, c, v), Limited(T, Threads), NEW told_, NEW raised_,
         raised_ = "none" => Steady(T, c, v)
  PROVE  Fine(St(T, c, told_, raised_))
BY DEF Ready, Fine, St

(* The thread goes on, perhaps with records of its own taken away.         *)
LEMMA GoesOn ==
  ASSUME NEW T, NEW c, NEW v, Ready(T, c, v), NEW m \in 1..Len(c),
         \A i \in m..Len(c) : c[i].thread = Last(c).thread,
         NEW l \in LuaState, Sound(l), CountsAre(c, Last(c).thread, m, l),
         Len(l.ci) \in {v[m], v[m] + 1},
         \A j \in 1..v[m] : l.ci[j] = T[Last(c).thread].ci[j]
  PROVE  LET U == Put(T, Last(c).thread, l)
             d == Lower(c, m)
             w == Under(v, m)
         IN /\ Ready(U, d, w) /\ Len(d) = m /\ Last(d) = c[m] /\ Last(d).thread = Last(c).thread
            /\ Height(U, d) = Len(l.ci) /\ w[Len(d)] = v[m]
<1> DEFINE t == Last(c).thread
           U == Put(T, t, l)
           d == Lower(c, m)
           w == Under(v, m)
<1>1. Good(T, c, v) /\ T \in [Threads -> LuaState] /\ c \in Seq(Record) /\ t \in Threads
      /\ Len(c) \in Nat /\ DOMAIN c = 1..Len(c)
  BY Runner DEF Ready
<1>2. m \in DOMAIN c /\ m \in 0..Len(c) /\ m \in 1..m /\ m # 0
  <2>1. \A n \in Nat : \A i \in 1..n : i \in 0..n /\ i \in 1..i /\ i # 0
    OBVIOUS
  <2> QED
    BY <1>1, <2>1
<1>3. v[m] \in Nat
  BY <1>1, <1>2 DEF Good, Levels
<1>4. U \in [Threads -> LuaState] /\ U[t] = l /\ \A u \in Threads \ {t} : U[u] = T[u]
  BY <1>1 DEF Put
<1>5. v[m] <= Len(l.ci)
  BY <1>3
<1>6. c[m].thread = t
  <2>1. m \in m..Len(c)
    BY <1>1
  <2> QED
    BY <2>1
<1> HIDE DEF t, U, d, w
<1>7. Good(U, d, w) /\ Last(d) = c[m]
  <2>1. /\ \A i \in m..Len(c) : c[i].thread = t
        /\ \A j \in 1..v[m] : U[t].ci[j] = T[t].ci[j]
        /\ Sound(U[t]) /\ CountsAre(c, t, m, U[t]) /\ v[m] <= Len(U[t].ci)
    BY <1>4, <1>5 DEF t
  <2> QED
    BY <1>1, <1>4, <2>1, SameRuns, SMTT(60) DEF d, w
<1>8. Len(d) = m /\ d # <<>> /\ w[m] = v[m]
  <2>1. Len(d) = m /\ d # <<>>
    BY <1>1, <1>2, LowerPart DEF d
  <2> QED
    BY <1>2, <2>1 DEF w, Under
<1> QED
  BY <1>4, <1>6, <1>7, <1>8 DEF Ready, Loose, Height, t, U, d, w

(* What luaD_throw makes of a state: s.                                    *)
ThrownTo(T, c, told_, msg, s) ==
  LET t == Last(c).thread
      j == T[t].errorJmp
      l == Jumping(T[t], c[j].previous)
      d == Lower(c, j - 1)
      u == Last(d).thread
      U == Put(T, t, Dead(l))
  IN /\ c[j].k = "pcall" /\ d = <<>> =>
          s = St(Put(T, t, Caught(l, c[j])), d, <<"false", msg>>, "none")
     /\ c[j].k = "pcall" /\ d # <<>> /\ u = t =>
          s = St(Put(T, t, Popped(Caught(l, c[j]))), d, <<"false", msg>>, "none")
     /\ c[j].k = "resume" /\ c[j].how = "resume" =>
          s = St(Put(U, u, Popped(U[u])), d, <<"false", msg>>, "none")
     /\ c[j].k = "resume" /\ c[j].how # "resume" => s = St(U, d, told_, msg)

LEMMA ThrowIs ==
  ASSUME NEW T \in [Threads -> LuaState], NEW c, Last(c).thread \in Threads, NEW told_, NEW msg
  PROVE  ThrownTo(T, c, told_, msg, Throw(St(T, c, told_, "none"), msg))
<1> DEFINE t == Last(c).thread
           j == T[t].errorJmp
           l == Jumping(T[t], c[j].previous)
           d == Lower(c, j - 1)
           u == Last(d).thread
           s == St(T, c, told_, "none")
           tt == L(s)
           r == s.cstack[State(s).errorJmp]
           cut == [s EXCEPT !.cstack = SubSeq(@, 1, State(s).errorJmp - 1),
                            !.threads[tt].errorJmp = r.previous]
           caught == [cut EXCEPT !.threads[tt] = Caught(@, r)]
           dead == [cut EXCEPT !.threads[tt] = Dead(@)]
<1>1. tt = t /\ State(s) = T[t] /\ r = c[j]
  BY DEF St, L, State
<1>5. Throw(s, msg) =
        CASE r.k = "pcall" -> Tell(IF cut.cstack = <<>> THEN caught ELSE PopCi(caught), "false", msg)
          [] r.k = "resume" /\ r.how = "resume" -> Tell(PopCi(dead), "false", msg)
          [] OTHER -> Raise(dead, msg)
  BY DEF Throw
<1> HIDE DEF tt, r
<1>2. cut = St(Put(T, t, l), d, told_, "none")
  <2>1. cut \in One(Put(T, t, l), d, told_, "none")
    BY <1>1 DEF St, Lower, One, Put, Jumping
  <2> QED
    BY <2>1, Only
<1>a. \A k : Put(Put(T, t, l), t, k) = Put(T, t, k)
  BY DEF Put
<1>b. Put(T, t, l)[t] = l
  BY DEF Put
<1> HIDE DEF cut, l
<1>3. caught = St(Put(T, t, Caught(l, c[j])), d, told_, "none")
  <2>1. caught \in One(Put(Put(T, t, l), t, Caught(l, c[j])), d, told_, "none")
    BY <1>1, <1>2, <1>b DEF St, One, Put
  <2> QED
    BY <1>a, <2>1, Only
<1>4. dead = St(Put(T, t, Dead(l)), d, told_, "none")
  <2>1. dead \in One(Put(Put(T, t, l), t, Dead(l)), d, told_, "none")
    BY <1>1, <1>2, <1>b DEF St, One, Put
  <2> QED
    BY <1>a, <2>1, Only
<1>6. cut.cstack = d
  BY <1>2 DEF St
<1> HIDE DEF s, caught, dead, d
<1>7. ASSUME c[j].k = "pcall", d = <<>>
      PROVE  Throw(s, msg) = St(Put(T, t, Caught(l, c[j])), d, <<"false", msg>>, "none")
  <2>1. Throw(s, msg) = Tell(caught, "false", msg)
    BY <1>1, <1>5, <1>6, <1>7
  <2>2. Tell(caught, "false", msg) \in One(Put(T, t, Caught(l, c[j])), d, <<"false", msg>>, "none")
    BY <1>3 DEF Tell, St, One
  <2> QED
    BY <2>1, <2>2, Only
<1>8. ASSUME c[j].k = "pcall", d # <<>>, u = t
      PROVE  Throw(s, msg) = St(Put(T, t, Popped(Caught(l, c[j]))), d, <<"false", msg>>, "none")
  <2>1. Throw(s, msg) = Tell(PopCi(caught), "false", msg)
    BY <1>1, <1>5, <1>6, <1>8
  <2>2. L(caught) = t
    BY <1>3, <1>8 DEF St, L
  <2> DEFINE k == Caught(l, c[j])
             e == Popped(k)
  <2>3. Put(T, t, k)[t] = k /\ \A y : Put(Put(T, t, k), t, y) = Put(T, t, y)
    BY DEF Put
  <2> HIDE DEF k
  <2>4. PopCi(caught) \in One(Put(Put(T, t, k), t, e), d, told_, "none")
    BY <1>3, <2>2, <2>3 DEF PopCi, St, One, Put, k, Popped
  <2> DEFINE q == PopCi(caught)
  <2> HIDE DEF e, q
  <2>5. q = St(Put(T, t, e), d, told_, "none")
    BY <2>3, <2>4, Only DEF q
  <2>6. Tell(q, "false", msg) \in One(Put(T, t, e), d, <<"false", msg>>, "none")
    BY <2>5 DEF Tell, St, One
  <2> QED
    BY <2>1, <2>6, Only DEF k, e, q
<1> DEFINE U == Put(T, t, Dead(l))
<1>9. ASSUME c[j].k = "resume", c[j].how = "resume"
      PROVE  Throw(s, msg) = St(Put(U, u, Popped(U[u])), d, <<"false", msg>>, "none")
  <2>1. Throw(s, msg) = Tell(PopCi(dead), "false", msg)
    BY <1>1, <1>5, <1>9
  <2>2. L(dead) = u
    BY <1>4 DEF St, L
  <2> DEFINE e == Popped(U[u])
  <2> HIDE DEF U, u
  <2>4. PopCi(dead) \in One(Put(U, u, e), d, told_, "none")
    BY <1>4, <2>2 DEF PopCi, St, One, Put, U, Popped
  <2> DEFINE q == PopCi(dead)
  <2> HIDE DEF e, q
  <2>5. q = St(Put(U, u, e), d, told_, "none")
    BY <2>4, Only DEF q
  <2>6. Tell(q, "false", msg) \in One(Put(U, u, e), d, <<"false", msg>>, "none")
    BY <2>5 DEF Tell, St, One
  <2>7. Throw(s, msg) = St(Put(U, u, e), d, <<"false", msg>>, "none")
    BY <2>1, <2>6, Only DEF q
  <2> QED
    BY <2>7 DEF U, u, e
<1>10. ASSUME c[j].k = "resume", c[j].how # "resume"
       PROVE  Throw(s, msg) = St(U, d, told_, msg)
  <2>1. Throw(s, msg) = Raise(dead, msg)
    BY <1>1, <1>5, <1>10
  <2>2. Raise(dead, msg) \in One(Put(T, t, Dead(l)), d, told_, msg)
    BY <1>4 DEF Raise, St, One
  <2> QED
    BY <2>1, <2>2, Only
<1> QED
  BY <1>7, <1>8, <1>9, <1>10 DEF l, d, s, ThrownTo


LEMMA LowerAll ==
  ASSUME NEW S, NEW c \in Seq(S)
  PROVE  Lower(c, Len(c)) = c
<1>1. Len(c) \in Nat
  BY LenProperties
<1>2. Len(c) \in 0..Len(c)
  BY <1>1
<1>3. /\ Lower(c, Len(c)) \in Seq(S) /\ Len(Lower(c, Len(c))) = Len(c)
      /\ \A i \in 1..Len(c) : Lower(c, Len(c))[i] = c[i]
  BY <1>2, LowerPart
<1> QED
  BY <1>3, SeqEqual

(* A C function that has no record returns.                                *)
LEMMA ReturnsFromC ==
  ASSUME NEW T, NEW c, NEW v, Ready(T, c, v), Limited(T, Threads), NEW told_,
         Last(c).k = "execute", Height(T, c) = v[Len(c)] + 1
  PROVE  LET t == Last(c).thread
         IN Fine(St(Put(T, t, Popped(T[t])), c, told_, "none"))
<1> DEFINE t == Last(c).thread
           n == Len(c)
           l == Popped(T[t])
<1>1. /\ T \in [Threads -> LuaState] /\ c \in Seq(Record)
      /\ t \in Threads /\ n \in Nat \ {0} /\ Last(c) = c[n]
      /\ T[t] \in LuaState /\ T[t].ci \in Seq(CiKinds) /\ T[t].ci # <<>> /\ Sound(T[t])
      /\ CountsAre(c, t, n, T[t]) /\ v[n] \in Nat \ {0}
  BY Runner
<1>2. /\ Front(T[t].ci) \in Seq(CiKinds) /\ Len(Front(T[t].ci)) = v[n]
      /\ \A i \in 1..v[n] : Front(T[t].ci)[i] = T[t].ci[i]
  <2>1. Len(T[t].ci) - 1 = v[n]
    BY <1>1 DEF Height
  <2> QED
    BY <1>1, <2>1, FrontPart
<1>3. /\ l \in LuaState /\ l.ci = Front(T[t].ci) /\ l.status = T[t].status /\ l.size_ci = T[t].size_ci
      /\ l.nCcalls = T[t].nCcalls /\ l.allowhook = T[t].allowhook
      /\ l.errfunc = T[t].errfunc /\ l.errorJmp = T[t].errorJmp
  BY <1>1, <1>2 DEF LuaState, Popped
<1>4. Len(T[t].ci) = v[n] + 1
  BY DEF Height
<1> HIDE DEF l
<1>5. Sound(l)
  <2>1. l.ci[1] = "base" /\ l.ci # <<>>
    <3>1. 1 \in 1..v[n] /\ Len(l.ci) # 0
      BY <1>1, <1>2, <1>3, SMTT(60)
    <3> QED
      BY <1>1, <1>2, <1>3, <3>1, EmptySeq DEF Sound
  <2>2. Len(l.ci) <= l.size_ci
    BY <1>1, <1>2, <1>3, <1>4, SMTT(60) DEF Sound
  <2> QED
    BY <1>1, <1>3, <2>1, <2>2, SMTT(60) DEF Sound
<1>6. CountsAre(c, t, n, l)
  BY <1>1, <1>3 DEF CountsAre
<1>7. n \in 1..n /\ \A i \in n..n : i = n
  BY <1>1
<1> DEFINE U == Put(T, t, l)
           d == Lower(c, n)
           w == Under(v, n)
<1>8. Ready(U, d, w) /\ Len(d) = n /\ Last(d) = c[n] /\ Height(U, d) = v[n] /\ w[n] = v[n]
  <2>1. /\ \A i \in n..Len(c) : c[i].thread = t
        /\ Len(l.ci) \in {v[n], v[n] + 1} /\ \A i \in 1..v[n] : l.ci[i] = T[t].ci[i]
    BY <1>1, <1>2, <1>3, <1>7
  <2>3. n \in 1..Len(c) /\ l \in LuaState /\ CountsAre(c, Last(c).thread, n, l)
    BY <1>3, <1>6, <1>7
  <2> HIDE DEF n, d, w
  <2>2. /\ Ready(U, d, w) /\ Len(d) = n /\ Last(d) = c[n]
        /\ Height(U, d) = Len(l.ci) /\ w[Len(d)] = v[n]
    BY <1>5, <2>1, <2>3, GoesOn DEF d, w
  <2> QED
    BY <1>2, <1>3, <2>2, SMTT(60)
<1>9. d = c
  BY <1>1, LowerAll
<1>10. Limited(U, Threads)
  BY <1>1, <1>3 DEF Limited, Put
<1>11. Steady(U, d, w)
  BY <1>1, <1>8 DEF Steady
<1> HIDE DEF U, d, w
<1>12. Fine(St(U, d, told_, "none"))
  BY <1>8, <1>10, <1>11, ReadyIsFine
<1> QED
  BY <1>9, <1>12 DEF U, l


(* A record of the thread that runs, as the stack holds it.                *)
LEMMA RecordOf ==
  ASSUME NEW T, NEW c, NEW v, Ready(T, c, v), NEW j \in 1..Len(c), c[j].thread = Last(c).thread
  PROVE  LET t == Last(c).thread
         IN /\ j \in Nat \ {0} /\ j \in DOMAIN c /\ c[j] \in Record /\ j - 1 \in 0..Len(c)
            /\ v[j] \in Nat \ {0} /\ v[j] <= Len(T[t].ci) /\ Level(T[t].ci, c, v, j)
            /\ c[j].k # "resume" /\ j # 1 =>
                 j - 1 \in 1..Len(c) /\ c[j - 1].thread = t /\ v[j - 1] \in Nat \ {0}
            /\ j = 1 => t = Main /\ c[j].k = "pcall"
            /\ c[j].k = "pcall" =>
                 /\ c[j].ci = v[j] /\ c[j].previous \in Nat /\ c[j].nCcalls \in Nat
                 /\ c[j].nCcalls < MaxCCalls + ExtraCCalls
                 /\ c[j].allowhook \in BOOLEAN /\ c[j].errfunc \in BOOLEAN /\ c[j].ef \in BOOLEAN
                 /\ Counts(c, t, j - 1, c[j].previous, c[j].nCcalls, c[j].allowhook, c[j].errfunc)
            /\ c[j].k = "resume" => c[j].previous = 0 /\ j > 1 /\ t # Main
            /\ c[j].k = "hook" => Hookable(c, t, j - 1)
<1> DEFINE t == Last(c).thread
<1>1. /\ c \in Seq(Record) /\ Nested(c) /\ Saved(c) /\ Levels(T, c, v)
      /\ Len(c) \in Nat /\ DOMAIN c = 1..Len(c) /\ c # <<>>
  BY Runner DEF Ready, Good
<1>2. j \in Nat \ {0} /\ j \in DOMAIN c /\ j - 1 \in 0..Len(c)
  <2>1. \A n \in Nat : \A i \in 1..n : i \in Nat \ {0} /\ i - 1 \in 0..n
    OBVIOUS
  <2> QED
    BY <1>1, <2>1
<1>3. c[j] \in Record
  BY <1>1, RecordsOfStack
<1>4. v[j] \in Nat \ {0} /\ v[j] <= Len(T[t].ci) /\ Level(T[t].ci, c, v, j)
  BY <1>2 DEF Ready, Good, Levels
<1>5. c[j].k # "resume" /\ j # 1 =>
        j - 1 \in 1..Len(c) /\ c[j - 1].thread = t /\ v[j - 1] \in Nat \ {0}
  <2> SUFFICES ASSUME c[j].k # "resume", j # 1
               PROVE  j - 1 \in 1..Len(c) /\ c[j - 1].thread = t /\ v[j - 1] \in Nat \ {0}
    OBVIOUS
  <2>1. j - 1 \in 1..Len(c) /\ c[j - 1].thread = t
    BY <1>1, LiesOnItsOwn
  <2> QED
    BY <1>1, <2>1 DEF Levels
<1>6. j = 1 => t = Main /\ c[j].k = "pcall"
  BY <1>1 DEF Nested, Is
<1>7. c[j].k = "pcall" =>
        /\ c[j].previous \in Nat /\ c[j].nCcalls \in Nat
        /\ c[j].allowhook \in BOOLEAN /\ c[j].errfunc \in BOOLEAN /\ c[j].ef \in BOOLEAN
  BY <1>3 DEF Record
<1>8. /\ c[j].k = "pcall" =>
           /\ Counts(c, t, j - 1, c[j].previous, c[j].nCcalls, c[j].allowhook, c[j].errfunc)
           /\ c[j].nCcalls < MaxCCalls + ExtraCCalls
      /\ c[j].k = "resume" => c[j].previous = 0
      /\ c[j].k = "hook" => Hookable(c, t, j - 1)
  BY <1>1, <1>2 DEF Saved
<1>9. c[j].k = "pcall" => c[j].ci = v[j]
  BY <1>4 DEF Level
<1>10. c[j].k = "resume" => j > 1 /\ t # Main
  <2>1. j # 1 \/ c[j].k = "pcall"
    BY <1>6
  <2>2. c[j].k = "resume" => c[j].thread \in Threads \ {Main}
    BY <1>3 DEF Record
  <2> QED
    BY <1>2, <2>1, <2>2
<1> QED
  BY <1>2, <1>3, <1>4, <1>5, <1>6, <1>7, <1>8, <1>9, <1>10


(* luaD_throw.                                                             *)
LEMMA ThrowFine ==
  ASSUME NEW T, NEW c, NEW v, Ready(T, c, v), Limited(T, Threads \ {Last(c).thread}),
         NEW told_, NEW msg, msg # "none"
  PROVE  Fine(Throw(St(T, c, told_, "none"), msg))
<1> DEFINE t == Last(c).thread
           n == Len(c)
           j == T[t].errorJmp
           r == c[j]
           d == Lower(c, j - 1)
           l == Jumping(T[t], r.previous)
           s == Throw(St(T, c, told_, "none"), msg)
<1>1. /\ T \in [Threads -> LuaState] /\ c \in Seq(Record) /\ Nested(c) /\ Good(T, c, v) /\ c # <<>>
      /\ t \in Threads /\ n \in Nat \ {0} /\ Last(c) = c[n]
      /\ T[t] \in LuaState /\ T[t].ci \in Seq(CiKinds) /\ T[t].ci # <<>> /\ Sound(T[t])
      /\ Len(T[t].ci) \in Nat \ {0}
      /\ CountsAre(c, t, n, T[t]) /\ v[n] \in Nat \ {0}
  BY Runner DEF Ready
<1>2. j \in 1..n /\ Jump(c, j, t) /\ \A i \in j..n : c[i].thread = t
  BY <1>1, JumpsOverItsOwn DEF CountsAre, Counts
<1>3. r.thread = t /\ r.k \in {"pcall", "resume"}
  BY <1>2 DEF Jump
<1>9. LET u == Last(d).thread
      IN /\ r.k = "pcall" /\ d = <<>> =>
              s = St(Put(T, t, Caught(l, r)), d, <<"false", msg>>, "none")
         /\ r.k = "pcall" /\ d # <<>> /\ u = t =>
              s = St(Put(T, t, Popped(Caught(l, r))), d, <<"false", msg>>, "none")
         /\ r.k = "resume" /\ r.how = "resume" =>
              LET U == Put(T, t, Dead(l))
              IN s = St(Put(U, u, Popped(U[u])), d, <<"false", msg>>, "none")
         /\ r.k = "resume" /\ r.how # "resume" =>
              s = St(Put(T, t, Dead(l)), d, told_, msg)
  <2>1. T \in [Threads -> LuaState] /\ Last(c).thread \in Threads
    BY <1>1
  <2>2. ThrownTo(T, c, told_, msg, s)
    BY <2>1, ThrowIs
  <2> QED
    BY <2>2 DEF ThrownTo
<1> SUFFICES Fine(s)
  OBVIOUS
<1> HIDE DEF j, s
<1>4. /\ j \in Nat \ {0} /\ j - 1 \in 0..n /\ r \in Record
      /\ v[j] \in Nat \ {0} /\ v[j] <= Len(T[t].ci) /\ Level(T[t].ci, c, v, j)
      /\ r.k # "resume" /\ j # 1 => j - 1 \in 1..n /\ c[j - 1].thread = t /\ v[j - 1] \in Nat \ {0}
      /\ j = 1 => t = Main
      /\ r.k = "pcall" =>
           /\ r.ci = v[j] /\ r.previous \in Nat /\ r.nCcalls \in Nat
           /\ r.nCcalls < MaxCCalls + ExtraCCalls
           /\ r.allowhook \in BOOLEAN /\ r.errfunc \in BOOLEAN /\ r.ef \in BOOLEAN
           /\ Counts(c, t, j - 1, r.previous, r.nCcalls, r.allowhook, r.errfunc)
      /\ r.k = "resume" => r.previous = 0 /\ j > 1 /\ t # Main
  BY <1>2, <1>3, RecordOf
<1>6. d \in Seq(Record) /\ Len(d) = j - 1 /\ (d = <<>> <=> j = 1)
  BY <1>1, <1>4, LowerPart
<1> HIDE DEF n, r, d
<1>a. r.previous \in Nat
  BY <1>3, <1>4
<1>5. l \in LuaState /\ l.ci = T[t].ci /\ l.size_ci = T[t].size_ci /\ l.errorJmp = r.previous
      /\ l.status = T[t].status
  BY <1>1, <1>a DEF LuaState, Jumping
<1> HIDE DEF l
<1>7. CASE r.k = "pcall"
  <2> DEFINE k == Caught(l, r)
  <2>1. /\ k \in LuaState /\ k.ci = Lower(T[t].ci, v[j])
        /\ k.nCcalls = r.nCcalls /\ k.allowhook = r.allowhook /\ k.errfunc = r.errfunc
        /\ k.errorJmp = r.previous /\ k.status = "ok"
        /\ Len(k.ci) <= k.size_ci /\ k.size_ci \in 2..2 * MaxCalls
    <3>1. r.ci \in 1..Len(l.ci) /\ r.nCcalls \in 0..MaxCCalls + ExtraCCalls
      <4>1. MaxCCalls + ExtraCCalls \in Nat
        BY LimitsAssumption
      <4> QED
        BY <1>1, <1>4, <1>5, <1>7, <4>1
    <3>2. Len(l.ci) <= l.size_ci /\ l.size_ci \in 2..2 * MaxCalls /\ l.status = "ok"
      BY <1>1, <1>5 DEF Sound
    <3> QED
      BY <1>4, <1>5, <1>7, <3>1, <3>2, CaughtIs, SMTT(60)
  <2> HIDE DEF k
  <2>2. /\ k.ci \in Seq(CiKinds) /\ Len(k.ci) = v[j] /\ \A i \in 1..v[j] : k.ci[i] = T[t].ci[i]
    <3> DEFINE q == T[t].ci
    <3>1. v[j] \in 0..Len(q) /\ q \in Seq(CiKinds) /\ k.ci = Lower(q, v[j])
      BY <1>1, <1>4, <2>1
    <3> HIDE DEF q
    <3>2. /\ k.ci \in Seq(CiKinds) /\ Len(k.ci) = v[j] /\ \A i \in 1..v[j] : k.ci[i] = q[i]
      BY <3>1, LowerPart
    <3> QED
      BY <3>2 DEF q
  <2>3. k.ci # <<>> /\ k.ci[1] = "base"
    <3>1. 1 \in 1..v[j] /\ Len(k.ci) # 0
      BY <1>4, <2>2
    <3> QED
      BY <1>1, <2>2, <3>1, EmptySeq DEF Sound
  <2>4. CASE j = 1
    <3>1. t = Main /\ d = <<>>
      BY <1>4, <1>6, <2>4
    <3>2. s = St(Put(T, t, k), d, <<"false", msg>>, "none")
      BY <1>7, <1>9, <3>1 DEF k
    <3>3. Good(Put(T, t, k), <<>>, Under(v, 0))
      <4>1. Sound(k) /\ CountsAre(c, Main, 0, k)
        BY <1>4, <1>7, <2>1, <2>3, <2>4, <3>1 DEF Sound, CountsAre
      <4>2. /\ Put(T, t, k) \in [Threads -> LuaState] /\ Put(T, t, k)[t] = k
            /\ \A u \in Threads \ {t} : Put(T, t, k)[u] = T[u]
        BY <1>1, <2>1 DEF Put
      <4>3. \A i \in 1..Len(c) : c[i].thread = Main
        BY <1>2, <2>4, <3>1 DEF n
      <4> QED
        BY <1>1, <3>1, <4>1, <4>2, <4>3, Ended
    <3>4. Limited(Put(T, t, k), Threads)
      BY <1>1, <1>4, <1>7, <2>1 DEF Limited, Put
    <3> QED
      BY <3>1, <3>2, <3>3, <3>4 DEF Fine, St
  <2>5. CASE j # 1
    <3> DEFINE m == j - 1
               e == Popped(k)
    <3>1. m \in 1..n /\ c[m].thread = t /\ v[m] \in Nat \ {0} /\ m + 1 = j
      BY <1>4, <1>7, <2>5
    <3>2. c[m].k = "execute" /\ v[j] = v[m] + 1
      <4>1. c[m].k \in {"resume", "pcall", "execute", "call", "hook", "errormsg"}
        BY <1>1, <3>1, RecordsOfStack DEF n
      <4>2. Level(T[t].ci, c, v, j) /\ c[j].k = "pcall"
        BY <1>4, <1>7 DEF r
      <4> QED
        BY <2>5, <4>1, <4>2 DEF Level
    <3> HIDE DEF m
    <3>3. /\ Front(k.ci) \in Seq(CiKinds) /\ Len(Front(k.ci)) = v[m]
          /\ \A i \in 1..v[m] : Front(k.ci)[i] = T[t].ci[i]
      <4>1. Len(k.ci) - 1 = v[m] /\ \A i \in 1..v[m] : i \in 1..v[j]
        BY <2>2, <3>1, <3>2
      <4> QED
        BY <2>2, <2>3, <4>1, FrontPart
    <3>4. /\ e \in LuaState /\ e.ci = Front(k.ci) /\ e.size_ci = k.size_ci /\ e.status = "ok"
          /\ e.nCcalls = k.nCcalls /\ e.allowhook = k.allowhook /\ e.errfunc = k.errfunc
          /\ e.errorJmp = k.errorJmp
      BY <2>1, <3>3 DEF LuaState, Popped
    <3> HIDE DEF e
    <3>5. Sound(e)
      <4>1. 1 \in 1..v[m] /\ Len(e.ci) # 0
        BY <3>1, <3>3, <3>4
      <4>2. e.ci # <<>> /\ e.ci[1] = "base"
        BY <1>1, <3>3, <3>4, <4>1, EmptySeq DEF Sound
      <4>3. Len(e.ci) <= e.size_ci
        BY <2>1, <2>2, <3>1, <3>2, <3>3, <3>4
      <4> QED
        BY <2>1, <3>4, <4>2, <4>3 DEF Sound
    <3>6. CountsAre(c, t, m, e)
      BY <1>4, <1>7, <2>1, <3>4 DEF CountsAre, m
    <3> DEFINE U == Put(T, t, e)
               w == Under(v, m)
               b == Lower(c, m)
    <3>7. /\ Ready(U, b, w) /\ Len(b) = m /\ Last(b) = c[m] /\ Last(b).thread = t
          /\ Height(U, b) = Len(e.ci) /\ w[Len(b)] = v[m]
      <4>1. ASSUME NEW i \in m..Len(c) PROVE c[i].thread = t
        <5>1. i = m \/ i \in j..n
          BY <1>1, <1>4, <3>1 DEF n
        <5> QED
          BY <1>2, <3>1, <5>1
      <4>2. Len(e.ci) \in {v[m], v[m] + 1} /\ \A i \in 1..v[m] : e.ci[i] = T[t].ci[i]
        BY <3>3, <3>4
      <4>3. m \in 1..Len(c) /\ e \in LuaState
        BY <3>1, <3>4 DEF n
      <4> HIDE DEF w, b
      <4> QED
        BY <3>5, <3>6, <4>1, <4>2, <4>3, GoesOn DEF w, b
    <3>8. d # <<>> /\ Last(d).thread = t /\ d = Lower(c, m)
      BY <1>6, <2>5, <3>7 DEF d, m
    <3>9. s = St(Put(T, t, e), d, <<"false", msg>>, "none")
      BY <1>7, <1>9, <3>8 DEF e, k
    <3>10. Limited(Put(T, t, e), Threads)
      BY <1>1, <1>4, <1>7, <2>1, <3>4 DEF Limited, Put
    <3>11. Steady(U, b, w)
      BY <3>2, <3>3, <3>4, <3>7 DEF Steady
    <3> HIDE DEF U, w, b
    <3>12. Fine(St(U, b, <<"false", msg>>, "none"))
      BY <3>7, <3>10, <3>11, ReadyIsFine DEF U
    <3> QED
      BY <3>8, <3>9, <3>12 DEF U, b
  <2> QED
    BY <2>4, <2>5
<1>8. CASE r.k = "resume"
  <2> DEFINE k == Dead(l)
             m == j - 1
             w == Under(v, m)
             U == Put(T, t, k)
             u == c[m].thread
  <2>1. k \in LuaState /\ k.ci = T[t].ci /\ k.size_ci = T[t].size_ci /\ k.status = "error"
    BY <1>5 DEF Dead, LuaState
  <2>2. Rests(k)
    BY <1>1, <2>1 DEF Rests, Sound
  <2> HIDE DEF k
  <2>3. U \in [Threads -> LuaState] /\ U[t] = k /\ \A y \in Threads \ {t} : U[y] = T[y]
    BY <1>1, <2>1 DEF Put
  <2>4. /\ m \in 1..n /\ Good(U, d, w) /\ Last(d) = c[m] /\ c[m].k = "execute" /\ u # t
        /\ Len(U[u].ci) = v[m] + 1
    <3>1. /\ j \in 1..Len(c) /\ Is(c, j, t, "resume") /\ \A i \in j..Len(c) : c[i].thread = t
          /\ Rests(U[t]) /\ t \in Threads
      BY <1>1, <1>2, <1>3, <1>8, <2>2, <2>3 DEF Is, n, r
    <3>3. Good(T, c, v)
      BY <1>1
    <3> HIDE DEF t, U, w
    <3>2. /\ j - 1 \in 1..Len(c) /\ Good(U, Lower(c, j - 1), Under(v, j - 1))
          /\ Last(Lower(c, j - 1)) = c[j - 1] /\ c[j - 1].k = "execute" /\ c[j - 1].thread # t
          /\ Len(U[c[j - 1].thread].ci) = v[j - 1] + 1
      BY <2>3, <3>1, <3>3, Left
    <3> QED
      BY <3>2 DEF n, d, w
  <2>5. Len(d) = m /\ d # <<>> /\ m \in 1..m
    BY <1>1, <1>6, <2>4, <1>4
  <2>6. w[m] = v[m]
    BY <2>5 DEF Under
  <2> HIDE DEF U, w, m
  <2>7. Ready(U, d, w) /\ Height(U, d) = w[Len(d)] + 1
    BY <2>4, <2>5, <2>6 DEF Ready, Loose, Height
  <2>8. Limited(U, Threads)
    BY <1>1, <2>1, <2>3 DEF Limited
  <2>9. CASE r.how = "resume"
    <3>1. s = St(Put(U, Last(d).thread, Popped(U[Last(d).thread])), d, <<"false", msg>>, "none")
      BY <1>8, <1>9, <2>9 DEF U, k
    <3>2. Last(d).k = "execute"
      BY <2>4
    <3> QED
      BY <2>7, <2>8, <3>1, <3>2, ReturnsFromC
  <2>10. CASE r.how # "resume"
    <3>1. s = St(U, d, told_, msg)
      BY <1>8, <1>9, <2>10 DEF U, k
    <3> QED
      BY <2>7, <2>8, <3>1, ReadyIsFine
  <2> QED
    BY <2>9, <2>10
<1> QED
  BY <1>3, <1>7, <1>8


(* The thread that runs is changed, and the stack is not.                  *)
LEMMA Alters ==
  ASSUME NEW T, NEW c, NEW v, Ready(T, c, v),
         NEW l \in LuaState, Sound(l), CountsAre(c, Last(c).thread, Len(c), l),
         Len(l.ci) \in {v[Len(c)], v[Len(c)] + 1},
         \A j \in 1..v[Len(c)] : l.ci[j] = T[Last(c).thread].ci[j]
  PROVE  LET U == Put(T, Last(c).thread, l)
         IN Ready(U, c, v) /\ U[Last(c).thread] = l /\ Height(U, c) = Len(l.ci)
<1> DEFINE t == Last(c).thread
           n == Len(c)
           U == Put(T, t, l)
           d == Lower(c, n)
           w == Under(v, n)
<1>1. T \in [Threads -> LuaState] /\ c \in Seq(Record) /\ t \in Threads /\ n \in Nat \ {0} /\ Last(c) = c[n]
      /\ DOMAIN c = 1..n
  BY Runner
<1>2. n \in 1..Len(c) /\ \A i \in n..Len(c) : c[i].thread = t
  BY <1>1
<1> HIDE DEF d, w
<1>3. Ready(U, d, w) /\ Last(d).thread = t /\ Height(U, d) = Len(l.ci)
  BY <1>2, GoesOn DEF d, w
<1>4. d = c
  BY <1>1, LowerAll DEF d
<1>5. w = v
  <2>1. v \in [1..n -> Nat \ {0}]
    BY <1>1 DEF Ready, Good, Levels
  <2> QED
    BY <2>1 DEF w, Under
<1>6. U[t] = l
  BY <1>1 DEF Put
<1> QED
  BY <1>3, <1>4, <1>5, <1>6

LEMMA LimitedStill ==
  ASSUME NEW T \in [Threads -> LuaState], NEW t \in Threads, Limited(T, Threads \ {t}), NEW l,
         l.status # "error" => l.nCcalls < MaxCCalls + ExtraCCalls
  PROVE  Limited(Put(T, t, l), Threads)
BY DEF Limited, Put

(* inc_ci, as a change of the thread.                                      *)
Widened(l) == IF Len(l.ci) = l.size_ci THEN [l EXCEPT !.size_ci = 2 * @] ELSE l
CalledAs(l, f) == [Widened(l) EXCEPT !.ci = Append(@, f)]
HasRoom(l) == Len(l.ci) = l.size_ci => 2 * l.size_ci <= MaxCalls

LEMMA WidenedIs ==
  ASSUME NEW l \in LuaState, Sound(l), l.size_ci <= MaxCalls
  PROVE  LET k == Widened(l)
         IN /\ k \in LuaState /\ Sound(k) /\ k.ci = l.ci /\ Len(k.ci) < k.size_ci
            /\ k.nCcalls = l.nCcalls /\ k.allowhook = l.allowhook
            /\ k.errfunc = l.errfunc /\ k.errorJmp = l.errorJmp /\ k.status = l.status /\ k.top = l.top
<1>1. l.ci \in Seq(CiKinds) /\ Len(l.ci) \in Nat /\ MaxCalls \in Nat /\ l.size_ci \in Nat
  BY LenProperties, LimitsAssumption DEF LuaState
<1>2. Len(l.ci) <= l.size_ci /\ l.size_ci \in 2..2 * MaxCalls
  BY DEF Sound
<1>3. CASE Len(l.ci) = l.size_ci
  <2>1. 2 * l.size_ci \in 2..2 * MaxCalls /\ 2 * l.size_ci \in Nat /\ l.size_ci < 2 * l.size_ci
    BY <1>1, <1>2
  <2>2. Widened(l) = [l EXCEPT !.size_ci = 2 * @]
    BY <1>3 DEF Widened
  <2> QED
    BY <1>1, <1>3, <2>1, <2>2, SMTT(60) DEF LuaState, Sound
<1>4. CASE Len(l.ci) # l.size_ci
  BY <1>1, <1>2, <1>4 DEF Widened
<1> QED
  BY <1>3, <1>4

LEMMA CalledIs ==
  ASSUME NEW l \in LuaState, Sound(l), HasRoom(l), NEW f \in CiKinds
  PROVE  LET k == CalledAs(l, f)
             n == Len(l.ci)
         IN /\ k \in LuaState /\ Sound(k) /\ Len(k.ci) = n + 1 /\ n \in Nat
            /\ k.ci[n + 1] = f /\ \A i \in 1..n : k.ci[i] = l.ci[i]
            /\ k.nCcalls = l.nCcalls /\ k.allowhook = l.allowhook
            /\ k.errfunc = l.errfunc /\ k.errorJmp = l.errorJmp /\ k.status = l.status /\ k.top = l.top
<1> DEFINE w == Widened(l)
           n == Len(l.ci)
           k == CalledAs(l, f)
<1>1. l.ci \in Seq(CiKinds) /\ n \in Nat /\ MaxCalls \in Nat /\ l.size_ci \in Nat
  BY LenProperties, LimitsAssumption DEF LuaState
<1>2. n <= l.size_ci /\ l.size_ci \in 2..2 * MaxCalls /\ n # 0 /\ l.ci[1] = "base" /\ l.status = "ok"
  BY <1>1, EmptySeq DEF Sound
<1>3. /\ w \in LuaState /\ w.ci = l.ci /\ n < w.size_ci /\ w.size_ci \in 2..2 * MaxCalls
      /\ w.nCcalls = l.nCcalls /\ w.allowhook = l.allowhook
      /\ w.errfunc = l.errfunc /\ w.errorJmp = l.errorJmp /\ w.status = l.status /\ w.top = l.top
  <2>1. CASE n = l.size_ci
    <3>1. l.size_ci <= MaxCalls
      BY <1>1, <2>1 DEF HasRoom
    <3> QED
      BY <3>1, WidenedIs DEF Sound
  <2>2. CASE n # l.size_ci
    BY <1>1, <1>2, <2>2 DEF Widened
  <2> QED
    BY <2>1, <2>2
<1>4. /\ Append(l.ci, f) \in Seq(CiKinds) /\ Len(Append(l.ci, f)) = n + 1
      /\ Append(l.ci, f)[n + 1] = f /\ Append(l.ci, f) # <<>>
      /\ \A i \in 1..n : Append(l.ci, f)[i] = l.ci[i]
  BY <1>1, OnTop
<1> HIDE DEF w
<1>5. /\ k \in LuaState /\ k.ci = Append(l.ci, f) /\ k.size_ci = w.size_ci
      /\ k.nCcalls = l.nCcalls /\ k.allowhook = l.allowhook
      /\ k.errfunc = l.errfunc /\ k.errorJmp = l.errorJmp /\ k.status = l.status /\ k.top = l.top
  <2>1. k = [w EXCEPT !.ci = Append(@, f)]
    BY DEF CalledAs, w
  <2> QED
    BY <1>3, <1>4, <2>1, ZenonT(60) DEF LuaState
<1> HIDE DEF k
<1>6. Sound(k)
  <2>1. 1 \in 1..n
    BY <1>1, <1>2
  <2>2. k.ci[1] = "base" /\ k.ci # <<>>
    BY <1>2, <1>4, <1>5, <2>1
  <2>3. Len(k.ci) <= k.size_ci
    BY <1>1, <1>3, <1>4, <1>5
  <2> QED
    BY <1>2, <1>3, <1>5, <2>2, <2>3 DEF Sound
<1> QED
  BY <1>1, <1>4, <1>5, <1>6 DEF k

LEMMA GrownIs ==
  ASSUME NEW T \in [Threads -> LuaState], NEW c, Last(c).thread \in Threads,
         NEW told_, NEW raised_
  PROVE  LET t == Last(c).thread
             s == St(T, c, told_, raised_)
         IN /\ L(s) = t /\ State(s) = T[t]
            /\ Fits(s) => HasRoom(T[t])
            /\ ~Fits(s) => Len(T[t].ci) = T[t].size_ci
            /\ Grown(s) = St(Put(T, t, Widened(T[t])), c, told_, raised_)
<1> DEFINE t == Last(c).thread
           s == St(T, c, told_, raised_)
           W == Put(T, t, Widened(T[t]))
<1>1. L(s) = t /\ State(s) = T[t]
  BY DEF St, L, State
<1>a. Put(T, t, T[t]) = T
  BY DEF Put
<1>b. W[t] = Widened(T[t]) /\ \A k : Put(W, t, k) = Put(T, t, k)
  BY DEF Put
<1> HIDE DEF s, t, W
<1>2. (Fits(s) => HasRoom(T[t])) /\ (~Fits(s) => Len(T[t].ci) = T[t].size_ci)
  BY <1>1 DEF Fits, HasRoom, Full
<1>c. Grown(s) = St(W, c, told_, raised_)
  <2>1. CASE Full(s)
    <3>1. Grown(s) = [s EXCEPT !.threads[t].size_ci = 2 * @] /\ Len(T[t].ci) = T[t].size_ci
      BY <1>1, <2>1 DEF Grown, Full
    <3>2. Widened(T[t]) = [T[t] EXCEPT !.size_ci = 2 * @]
      BY <3>1 DEF Widened
    <3>3. [s EXCEPT !.threads[t].size_ci = 2 * @] \in One(Put(T, t, [T[t] EXCEPT !.size_ci = 2 * @]), c, told_, raised_)
      BY DEF s, St, One, Put
    <3> QED
      BY <3>1, <3>2, <3>3, Only DEF W
  <2>2. CASE ~Full(s)
    <3>1. Grown(s) = s /\ Widened(T[t]) = T[t]
      BY <1>1, <2>2 DEF Grown, Full, Widened
    <3> QED
      BY <1>a, <3>1 DEF s, W
  <2> QED
    BY <2>1, <2>2
<1> QED
  BY <1>1, <1>2, <1>c DEF s, t, W

LEMMA IncCiIs ==
  ASSUME NEW T \in [Threads -> LuaState], NEW c, Last(c).thread \in Threads,
         NEW told_, NEW raised_, NEW f
  PROVE  LET t == Last(c).thread
         IN IncCi(St(T, c, told_, raised_), f) = St(Put(T, t, CalledAs(T[t], f)), c, told_, raised_)
<1> DEFINE t == Last(c).thread
           s == St(T, c, told_, raised_)
           W == Put(T, t, Widened(T[t]))
           g == Grown(s)
           k == Widened(T[t])
           e == CalledAs(T[t], f)
<1>1. L(s) = t /\ g = St(W, c, told_, raised_)
  BY GrownIs
<1>2. W[t] = Widened(T[t]) /\ \A x : Put(W, t, x) = Put(T, t, x)
  BY DEF Put
<1> HIDE DEF s, t, W
<1>3. IncCi(s, f) = [g EXCEPT !.threads[t].ci = Append(@, f)]
  BY <1>1 DEF IncCi
<1>4. e = [k EXCEPT !.ci = Append(@, f)]
  BY DEF CalledAs
<1>5. W[t] = k
  BY <1>2
<1> HIDE DEF g, k, e
<1>6. [g EXCEPT !.threads[t].ci = Append(@, f)] \in One(Put(W, t, e), c, told_, raised_)
  BY <1>1, <1>4, <1>5 DEF St, One, Put
<1>7. IncCi(s, f) = St(Put(T, t, e), c, told_, raised_)
  BY <1>2, <1>3, <1>6, Only
<1> QED
  BY <1>7 DEF e, s, t

(* luaD_throw, if the CallInfo has been extended once already.             *)
LEMMA OverflowFine ==
  ASSUME NEW T, NEW c, NEW v, Ready(T, c, v), Limited(T, Threads), NEW told_,
         ~Fits(St(T, c, told_, "none"))
  PROVE  Fine(Overflow(St(T, c, told_, "none")))
<1> DEFINE t == Last(c).thread
           s == St(T, c, told_, "none")
           l == T[t]
           k == Widened(l)
           U == Put(T, t, k)
<1>1. /\ T \in [Threads -> LuaState] /\ t \in Threads /\ l \in LuaState /\ Sound(l)
      /\ CountsAre(c, t, Len(c), l) /\ Len(l.ci) \in {v[Len(c)], v[Len(c)] + 1}
  BY Runner
<1>2. State(s) = l /\ Grown(s) = St(U, c, told_, "none")
  BY <1>1, GrownIs
<1>3. CASE l.size_ci > MaxCalls
  <2>1. Overflow(s) = Throw(s, "handling")
    BY <1>2, <1>3 DEF Overflow
  <2>2. Limited(T, Threads \ {t})
    BY DEF Limited
  <2>3. Fine(Throw(s, "handling"))
    BY <2>2, ThrowFine
  <2> QED
    BY <2>1, <2>3
<1>4. CASE ~(l.size_ci > MaxCalls)
  <2> DEFINE g == Grown(s)
  <2>1. Overflow(s) = Raise(g, "stack overflow")
    BY <1>2, <1>4 DEF Overflow
  <2>2. g = St(U, c, told_, "none")
    BY <1>2
  <2> HIDE DEF g
  <2>3. Raise(g, "stack overflow") \in One(U, c, told_, "stack overflow")
    BY <2>2 DEF Raise, St, One
  <2>4. /\ k \in LuaState /\ Sound(k) /\ k.ci = l.ci
        /\ k.nCcalls = l.nCcalls /\ k.allowhook = l.allowhook
        /\ k.errfunc = l.errfunc /\ k.errorJmp = l.errorJmp /\ k.status = l.status
    <3>1. l.size_ci \in Nat /\ MaxCalls \in Nat
      BY <1>1, LimitsAssumption DEF LuaState
    <3>2. l.size_ci <= MaxCalls
      BY <1>4, <3>1
    <3> QED
      BY <1>1, <3>2, WidenedIs
  <2> HIDE DEF k
  <2>5. CountsAre(c, t, Len(c), k)
    BY <1>1, <2>4 DEF CountsAre
  <2>6. Ready(U, c, v)
    BY <1>1, <2>4, <2>5, Alters
  <2>7. Limited(U, Threads)
    BY <1>1, <2>4 DEF Limited, Put
  <2>8. Fine(St(U, c, told_, "stack overflow"))
    BY <2>6, <2>7, ReadyIsFine
  <2> QED
    BY <2>1, <2>3, <2>8, Only
<1> QED
  BY <1>3, <1>4

(* What Level asks of a record r put above one of kind k.                  *)
FitsOn(ci, k, under, r, x) ==
  CASE r.k = "resume" -> x = 1 /\ k = "execute"
    [] r.k = "pcall" -> x = under + 1 /\ r.ci = x /\ k = "execute"
    [] r.k = "execute" -> /\ k \in {"call", "resume"}
                          /\ r.nexeccalls \in Nat \ {0} /\ x = under + r.nexeccalls
                          /\ \A j \in under + 1..x : ci[j] = "lua"
    [] r.k = "call" -> \/ x = under /\ k \in {"pcall", "hook", "errormsg", "execute"}
                       \/ x = under + 1 /\ k = "execute" /\ ci[x] # "lua"
    [] r.k = "hook" -> x = under /\ k = "execute"
    [] r.k = "errormsg" -> x \in {under, under + 1}

LEMMA LevelOfTop ==
  ASSUME NEW c \in Seq(Record), c # <<>>, NEW r \in Record, NEW v, NEW x, NEW ci,
         FitsOn(ci, c[Len(c)].k, v[Len(c)], r, x)
  PROVE  Level(ci, Append(c, r), Above(v, Len(c), x), Len(c) + 1)
<1> DEFINE n == Len(c)
           d == Append(c, r)
           w == Above(v, n, x)
           i == n + 1
<1>1. n \in Nat \ {0} /\ d[n] = c[n] /\ d[n + 1] = r
  <2>1. n \in Nat \ {0}
    BY RecordsOfStack
  <2>2. n \in 1..n
    BY <2>1
  <2> QED
    BY <2>1, <2>2, OnTop
<1> HIDE DEF n, d
<1>2. i # 1 /\ i - 1 = n /\ d[i] = r /\ d[i - 1] = c[n]
  BY <1>1
<1>3. w[n] = v[n] /\ w[i] = x
  BY <1>1 DEF Above
<1>4. r.k \in {"resume", "pcall", "execute", "call", "hook", "errormsg"}
  BY DEF Record
<1> HIDE DEF w, i
<1> DEFINE k == c[n].k
           under == v[n]
<1>5. FitsOn(ci, k, under, r, x)
  BY DEF n
<1> HIDE DEF k, under
<1>6. (IF i = 1 THEN 0 ELSE w[i - 1]) = under /\ (IF i = 1 THEN "none" ELSE d[i - 1].k) = k
  BY <1>2, <1>3 DEF k, under
<1>7. Level(ci, d, w, i)
  BY <1>2, <1>3, <1>4, <1>5, <1>6 DEF FitsOn, Level
<1> QED
  BY <1>7 DEF d, w, i, n

(* A record of the thread that runs is put on the stack.                   *)
LEMMA Pushes ==
  ASSUME NEW T, NEW c, NEW v, Ready(T, c, v), NEW r \in Record,
         r.k # "resume", r.thread = Last(c).thread, NEW l \in LuaState, Sound(l),
         l.ci = T[r.thread].ci, CountsAre(Append(c, r), r.thread, Len(c) + 1, l),
         SavedAt(c, Len(c), r), NEW x \in Nat, v[Len(c)] <= x, Len(l.ci) \in {x, x + 1},
         FitsOn(l.ci, Last(c).k, v[Len(c)], r, x)
  PROVE  LET U == Put(T, r.thread, l)
             d == Append(c, r)
             w == Above(v, Len(c), x)
         IN /\ Ready(U, d, w) /\ Last(d) = r /\ Len(d) = Len(c) + 1 /\ w[Len(d)] = x
            /\ U[r.thread] = l /\ Height(U, d) = Len(l.ci)
<1> DEFINE t == r.thread
           n == Len(c)
           U == Put(T, t, l)
           d == Append(c, r)
           w == Above(v, n, x)
<1>1. /\ T \in [Threads -> LuaState] /\ c \in Seq(Record) /\ t \in Threads /\ n \in Nat \ {0}
      /\ Last(c) = c[n] /\ c # <<>> /\ Good(T, c, v) /\ v[n] \in Nat \ {0} /\ Len(T[t].ci) \in Nat
  BY Runner DEF Ready
<1>2. U \in [Threads -> LuaState] /\ U[t] = l /\ \A u \in Threads \ {t} : U[u] = T[u]
  BY <1>1 DEF Put
<1>3. Len(d) = n + 1 /\ Last(d) = r /\ d # <<>>
  BY <1>1, OnTop
<1>4. w[n + 1] = x
  BY <1>1 DEF Above
<1>5. Level(l.ci, d, w, n + 1)
  BY <1>1, LevelOfTop
<1>6. x \in Nat \ {0} /\ x <= Len(l.ci)
  BY <1>1, SMTT(60)
<1> HIDE DEF t, U
<1>7. Good(U, d, w)
  <2>1. /\ Sound(U[r.thread]) /\ CountsAre(Append(c, r), r.thread, Len(c) + 1, U[r.thread])
        /\ x <= Len(U[r.thread].ci) /\ U[r.thread].ci = T[r.thread].ci
        /\ Level(U[r.thread].ci, Append(c, r), Above(v, Len(c), x), Len(c) + 1)
        /\ \A u \in Threads \ {r.thread} : U[u] = T[u]
    BY <1>2, <1>5, <1>6 DEF t
  <2> QED
    BY <1>1, <1>2, <1>6, <2>1, Pushed
<1> QED
  BY <1>2, <1>3, <1>4, <1>7 DEF Ready, Loose, Height, U, t

(* luaV_execute: of a function that has just got its CallInfo.             *)
LEMMA EnteredFine ==
  ASSUME NEW T, NEW c, NEW v, Ready(T, c, v), Limited(T, Threads), NEW told_,
         Last(c).k \in {"call", "resume"}, Height(T, c) = v[Len(c)] + 1,
         T[Last(c).thread].ci[v[Len(c)] + 1] = "lua", NEW what, NEW msg
  PROVE  Fine(Entered(St(T, c, told_, "none"), 1, what, msg))
<1> DEFINE t == Last(c).thread
           n == Len(c)
           l == T[t]
           r == [k |-> "execute", thread |-> t, nexeccalls |-> 1]
           s == St(T, c, told_, "none")
           d == Append(c, r)
           x == v[n] + 1
           w == Above(v, n, x)
<1>1. /\ T \in [Threads -> LuaState] /\ c \in Seq(Record) /\ t \in Threads /\ n \in Nat \ {0}
      /\ l \in LuaState /\ Sound(l) /\ CountsAre(c, t, n, l) /\ v[n] \in Nat \ {0}
  BY Runner
<1>2. r \in Record /\ r.k = "execute" /\ r.thread = t /\ r.nexeccalls = 1
  BY <1>1 DEF Record
<1> HIDE DEF r
<1>3. CountsAre(d, t, n + 1, l)
  <2>1. n \in Nat /\ d[n + 1] = r /\ \A i \in 1..n : c[i] = d[i]
    BY <1>1, <1>2, OnTop
  <2> HIDE DEF d, t
  <2>2. CountsAre(d, t, n, l)
    BY <1>1, <2>1, CountsAgree DEF CountsAre
  <2> QED
    BY <1>1, <1>2, <2>1, <2>2, CountsOfFrame DEF CountsAre
<1>4. Put(T, t, l) = T
  BY <1>1 DEF Put
<1>5. Ready(T, d, w) /\ Last(d) = r /\ Len(d) = n + 1 /\ w[Len(d)] = x /\ Height(T, d) = x
  <2>1. SavedAt(c, n, r) /\ x \in Nat /\ v[n] <= x /\ Len(l.ci) = x
    BY <1>1, <1>2 DEF SavedAt, Height
  <2>2. FitsOn(l.ci, Last(c).k, v[n], r, x)
    BY <1>1, <1>2 DEF FitsOn
  <2> HIDE DEF d, w, x, l
  <2> QED
    BY <1>1, <1>2, <1>3, <1>4, <2>1, <2>2, Pushes DEF d, w, l
<1>6. L(s) = t
  BY DEF L, St
<1>7. Entered(s, 1, what, msg) = Tell([s EXCEPT !.cstack = Append(@, r)], what, msg)
  BY <1>6 DEF Entered, r
<1>8. Tell([s EXCEPT !.cstack = Append(@, r)], what, msg) \in One(T, d, <<what, msg>>, "none")
  BY DEF Tell, St, One
<1>9. Steady(T, d, w)
  BY <1>2, <1>5 DEF Steady
<1> HIDE DEF d, w, s
<1>10. Fine(St(T, d, <<what, msg>>, "none"))
  BY <1>5, <1>9, ReadyIsFine
<1> QED
  BY <1>7, <1>8, <1>10, Only DEF s

(* The CallInfo of a function that is called.                              *)
LEMMA IncCiReady ==
  ASSUME NEW T, NEW c, NEW v, Ready(T, c, v), Limited(T, Threads), Height(T, c) = v[Len(c)],
         NEW told_, NEW f \in CiKinds, Fits(St(T, c, told_, "none"))
  PROVE  \E U : /\ IncCi(St(T, c, told_, "none"), f) = St(U, c, told_, "none")
                /\ Ready(U, c, v) /\ Limited(U, Threads) /\ Height(U, c) = v[Len(c)] + 1
                /\ U[Last(c).thread].ci[v[Len(c)] + 1] = f
<1> DEFINE t == Last(c).thread
           n == Len(c)
           l == T[t]
           k == CalledAs(l, f)
           U == Put(T, t, k)
           s == St(T, c, told_, "none")
<1>1. /\ T \in [Threads -> LuaState] /\ t \in Threads /\ l \in LuaState /\ Sound(l)
      /\ CountsAre(c, t, n, l) /\ v[n] \in Nat \ {0}
  BY Runner
<1>2. HasRoom(l) /\ IncCi(s, f) = St(U, c, told_, "none")
  BY <1>1, GrownIs, IncCiIs
<1>3. Len(l.ci) = v[n]
  BY DEF Height
<1>4. /\ k \in LuaState /\ Sound(k) /\ Len(k.ci) = v[n] + 1
      /\ k.ci[v[n] + 1] = f /\ \A i \in 1..v[n] : k.ci[i] = l.ci[i]
      /\ k.nCcalls = l.nCcalls /\ k.allowhook = l.allowhook
      /\ k.errfunc = l.errfunc /\ k.errorJmp = l.errorJmp /\ k.status = l.status
  BY <1>1, <1>2, <1>3, CalledIs, SMTT(60)
<1> HIDE DEF k
<1>5. CountsAre(c, t, n, k)
  BY <1>1, <1>4 DEF CountsAre
<1>6. Ready(U, c, v) /\ U[t] = k /\ Height(U, c) = Len(k.ci)
  BY <1>4, <1>5, Alters
<1>7. Limited(U, Threads)
  BY <1>1, <1>4 DEF Limited, Put
<1> QED
  BY <1>2, <1>4, <1>6, <1>7 DEF k

(* luaD_call of a Lua function.                                            *)
LEMMA DCallFine ==
  ASSUME NEW T, NEW c, NEW v, Ready(T, c, v), Limited(T, Threads),
         \/ Last(c).k \in {"pcall", "hook", "errormsg"} /\ Height(T, c) = v[Len(c)]
         \/ Last(c).k = "execute" /\ Height(T, c) = v[Len(c)]
         \/ /\ Last(c).k = "execute" /\ Height(T, c) = v[Len(c)] + 1
            /\ T[Last(c).thread].ci[v[Len(c)] + 1] # "lua",
         NEW told_, NEW what, NEW msg
  PROVE  Fine(DCall(St(T, c, told_, "none"), what, msg))
<1> DEFINE t == Last(c).thread
           n == Len(c)
           s == St(T, c, told_, "none")
           r == [k |-> "call", thread |-> t]
           l == [T[t] EXCEPT !.nCcalls = @ + 1]
           h == Height(T, c)
           U == Put(T, t, l)
           d == Append(c, r)
           w == Above(v, n, h)
           in == [s EXCEPT !.cstack = Append(@, [k |-> "call", thread |-> L(s)]),
                           !.threads[L(s)].nCcalls = @ + 1]
<1>1. /\ T \in [Threads -> LuaState] /\ c \in Seq(Record) /\ t \in Threads /\ n \in Nat \ {0}
      /\ T[t] \in LuaState /\ Sound(T[t]) /\ CountsAre(c, t, n, T[t]) /\ v[n] \in Nat \ {0}
      /\ h = Len(T[t].ci) /\ h \in {v[n], v[n] + 1} /\ h \in Nat
  BY Runner DEF Height
<1>2. T[t].nCcalls \in Nat /\ T[t].nCcalls < MaxCCalls + ExtraCCalls
      /\ MaxCCalls \in Nat \ {0} /\ ExtraCCalls \in Nat \ {0}
  <2>1. MaxCCalls \in Nat \ {0} /\ ExtraCCalls \in Nat \ {0}
    BY LimitsAssumption
  <2>2. T[t].nCcalls \in 0..MaxCCalls + ExtraCCalls /\ T[t].status = "ok"
    BY <1>1 DEF LuaState, Sound
  <2>3. T[t].nCcalls < MaxCCalls + ExtraCCalls
    BY <1>1, <2>2 DEF Limited
  <2> QED
    BY <2>1, <2>2, <2>3
<1>3. /\ l \in LuaState /\ l.nCcalls = T[t].nCcalls + 1 /\ l.ci = T[t].ci /\ l.size_ci = T[t].size_ci
      /\ l.allowhook = T[t].allowhook /\ l.errfunc = T[t].errfunc /\ l.errorJmp = T[t].errorJmp
      /\ l.status = T[t].status
  <2>1. T[t].nCcalls + 1 \in 0..MaxCCalls + ExtraCCalls
    BY <1>2
  <2> QED
    BY <1>1, <2>1 DEF LuaState
<1>4. r \in Record /\ r.k = "call" /\ r.thread = t
  BY <1>1 DEF Record
<1>5. L(s) = t /\ in = St(U, d, told_, "none")
  <2>1. L(s) = t
    BY DEF L, St
  <2>2. in \in One(U, d, told_, "none")
    BY <2>1 DEF St, One, Put
  <2> QED
    BY <2>1, <2>2, Only
<1>6. DCall(s, what, msg) =
        CASE State(in).nCcalls = MaxCCalls -> Raise(in, "C stack overflow")
          [] State(in).nCcalls >= MaxCCalls + ExtraCCalls -> Throw(in, "handling")
          [] OTHER -> IF Fits(in) THEN Entered(IncCi(in, "lua"), 1, what, msg) ELSE Overflow(in)
  BY DEF DCall
<1> HIDE DEF r, l, in, h
<1>7. CountsAre(d, t, n + 1, l)
  <2>1. n \in Nat /\ d[n + 1] = r /\ \A i \in 1..n : c[i] = d[i]
    BY <1>1, <1>4, OnTop
  <2> HIDE DEF d, t
  <2>2. CountsAre(d, t, n, T[t])
    BY <1>1, <2>1, CountsAgree DEF CountsAre
  <2>3. Is(d, n + 1, t, "call") /\ T[t].nCcalls \in Int
    BY <1>2, <1>4, <2>1 DEF Is
  <2>4. Counts(d, t, n + 1, T[t].errorJmp, T[t].nCcalls + 1, T[t].allowhook, T[t].errfunc)
    BY <2>1, <2>2, <2>3, CountsOfCall DEF CountsAre
  <2> QED
    BY <1>3, <2>4 DEF CountsAre
<1>8. /\ Ready(U, d, w) /\ Last(d) = r /\ Len(d) = n + 1 /\ w[Len(d)] = h
      /\ U[t] = l /\ Height(U, d) = h
  <2>1. SavedAt(c, n, r) /\ v[n] <= h /\ Len(l.ci) = h /\ Sound(l) /\ l.ci = T[t].ci
    BY <1>1, <1>3, <1>4 DEF SavedAt, Sound
  <2>2. FitsOn(l.ci, Last(c).k, v[n], r, h)
    BY <1>1, <1>3, <1>4 DEF FitsOn, h
  <2> HIDE DEF d, w
  <2> QED
    BY <1>1, <1>3, <1>4, <1>7, <2>1, <2>2, Pushes DEF d, w
<1>9. State(in) = l
  BY <1>4, <1>5, <1>8 DEF State, L, St
<1>10. Limited(U, Threads \ {t})
  BY DEF Limited, Put
<1> HIDE DEF s, U, d, w
<1> DEFINE a == Raise(in, "C stack overflow")
           b == Throw(in, "handling")
           e == IF Fits(in) THEN Entered(IncCi(in, "lua"), 1, what, msg) ELSE Overflow(in)
           D == DCall(s, what, msg)
<1>a. D = CASE l.nCcalls = MaxCCalls -> a [] l.nCcalls >= MaxCCalls + ExtraCCalls -> b [] OTHER -> e
  BY <1>6, <1>9
<1>b. l.nCcalls \in Nat
  BY <1>2, <1>3
<1> HIDE DEF a, b, e, D
<1>c. /\ l.nCcalls = MaxCCalls => D = a
      /\ l.nCcalls # MaxCCalls /\ l.nCcalls >= MaxCCalls + ExtraCCalls => D = b
      /\ l.nCcalls # MaxCCalls /\ ~(l.nCcalls >= MaxCCalls + ExtraCCalls) => D = e
  <2>1. l.nCcalls = MaxCCalls => ~(l.nCcalls >= MaxCCalls + ExtraCCalls)
    BY <1>2, <1>b
  <2> QED
    BY <1>a, <2>1
<1>11. CASE l.nCcalls = MaxCCalls
  <2>1. DCall(s, what, msg) = Raise(in, "C stack overflow")
    BY <1>11, <1>c DEF D, a
  <2>2. Raise(in, "C stack overflow") \in One(U, d, told_, "C stack overflow")
    BY <1>5 DEF Raise, St, One
  <2>3. Limited(U, Threads)
    BY <1>2, <1>8, <1>10, <1>11 DEF Limited
  <2>4. Fine(St(U, d, told_, "C stack overflow"))
    BY <1>8, <2>3, ReadyIsFine
  <2> QED
    BY <2>1, <2>2, <2>4, Only DEF s
<1>12. CASE l.nCcalls # MaxCCalls /\ l.nCcalls >= MaxCCalls + ExtraCCalls
  <2>1. DCall(s, what, msg) = Throw(in, "handling")
    BY <1>12, <1>c DEF D, b
  <2>2. Limited(U, Threads \ {Last(d).thread})
    BY <1>4, <1>8, <1>10
  <2>3. Fine(Throw(St(U, d, told_, "none"), "handling"))
    BY <1>8, <2>2, ThrowFine
  <2> QED
    BY <1>5, <2>1, <2>3 DEF s
<1>13. CASE l.nCcalls # MaxCCalls /\ ~(l.nCcalls >= MaxCCalls + ExtraCCalls)
  <2>1. DCall(s, what, msg) = IF Fits(in) THEN Entered(IncCi(in, "lua"), 1, what, msg) ELSE Overflow(in)
    BY <1>13, <1>c DEF D, e
  <2>2. Limited(U, Threads)
    BY <1>2, <1>3, <1>8, <1>10, <1>13 DEF Limited
  <2>3. CASE Fits(in)
    <3>1. "lua" \in CiKinds /\ Height(U, d) = w[Len(d)] /\ Fits(St(U, d, told_, "none"))
      BY <1>5, <1>8, <2>3 DEF CiKinds
    <3>2. PICK W : /\ IncCi(St(U, d, told_, "none"), "lua") = St(W, d, told_, "none")
                   /\ Ready(W, d, w) /\ Limited(W, Threads) /\ Height(W, d) = w[Len(d)] + 1
                   /\ W[Last(d).thread].ci[w[Len(d)] + 1] = "lua"
      BY <1>8, <2>2, <3>1, IncCiReady, SMTT(60)
    <3>3. Fine(Entered(St(W, d, told_, "none"), 1, what, msg))
      BY <1>4, <1>8, <3>2, EnteredFine
    <3> QED
      BY <1>5, <2>1, <2>3, <3>2, <3>3 DEF s
  <2>4. CASE ~Fits(in)
    <3>1. Fine(Overflow(in))
      BY <1>5, <1>8, <2>2, <2>4, OverflowFine
    <3> QED
      BY <2>1, <2>4, <3>1 DEF s
  <2> QED
    BY <2>3, <2>4
<1> QED
  BY <1>11, <1>12, <1>13 DEF s


LEMMA RaiseFine ==
  ASSUME NEW T, NEW c, NEW v, Ready(T, c, v), Limited(T, Threads), NEW told_, NEW msg, msg # "none"
  PROVE  Fine(Raise(St(T, c, told_, "none"), msg))
<1>1. Raise(St(T, c, told_, "none"), msg) \in One(T, c, told_, msg)
  BY DEF Raise, St, One
<1>2. Fine(St(T, c, told_, msg))
  BY ReadyIsFine
<1> QED
  BY <1>1, <1>2, Only

(* The innermost luaV_execute runs one Lua function more, or one less.     *)
Recount(c, e) ==
  Append(Lower(c, Len(c) - 1), [k |-> "execute", thread |-> Last(c).thread, nexeccalls |-> e])

LEMMA Recounts ==
  ASSUME NEW T, NEW c, NEW v, Ready(T, c, v), Last(c).k = "execute", NEW e \in Nat \ {0},
         NEW l \in LuaState, Sound(l), CountsAre(c, Last(c).thread, Len(c), l),
         Len(l.ci) = v[Len(c) - 1] + e,
         \A j \in 1..v[Len(c) - 1] : l.ci[j] = T[Last(c).thread].ci[j],
         \A j \in v[Len(c) - 1] + 1..Len(l.ci) : l.ci[j] = "lua"
  PROVE  LET U == Put(T, Last(c).thread, l)
         IN \E w : Ready(U, Recount(c, e), w) /\ Steady(U, Recount(c, e), w)
<1> DEFINE t == Last(c).thread
           n == Len(c)
           m == n - 1
           r == [k |-> "execute", thread |-> t, nexeccalls |-> e]
           q == Lower(c, m)
           p == Under(v, m)
           x == Len(l.ci)
           d == Append(q, r)
           w == Above(p, m, x)
           U == Put(T, t, l)
<1>1. /\ T \in [Threads -> LuaState] /\ c \in Seq(Record) /\ t \in Threads /\ n \in Nat \ {0}
      /\ Last(c) = c[n] /\ n \in 1..Len(c) /\ Level(T[t].ci, c, v, n) /\ Good(T, c, v) /\ c # <<>>
  BY Runner DEF Ready
<1>2. n # 1 /\ m \in 1..Len(c) /\ c[m].thread = t /\ v[m] \in Nat \ {0} /\ c[m].k \in {"call", "resume"}
  <2>1. n = 1 => c[n].k = "pcall"
    BY <1>1, RecordOf
  <2>2. n # 1 => n - 1 \in 1..Len(c) /\ c[n - 1].thread = t /\ v[n - 1] \in Nat \ {0}
    BY <1>1, RecordOf
  <2>3. n # 1
    BY <1>1, <2>1
  <2> QED
    BY <1>1, <2>2, <2>3 DEF Level
<1>3. CountsAre(c, t, m, l)
  <2>1. c[m + 1].thread = t /\ c[m + 1].k = "execute" /\ m \in Nat /\ m + 1 = n
    BY <1>1, <1>2
  <2> HIDE DEF m, n, t
  <2>2. CountsAre(c, t, m + 1, l)
    BY <2>1 DEF n, t
  <2> QED
    BY <2>1, <2>2, CountsOfFrame DEF CountsAre
<1>4. U \in [Threads -> LuaState] /\ U[t] = l /\ \A u \in Threads \ {t} : U[u] = T[u]
  BY <1>1 DEF Put
<1>5. v[m] <= x /\ x = v[m] + e /\ x \in Nat \ {0}
  BY <1>2
<1> HIDE DEF U, p
<1>6. Good(U, q, p) /\ Last(q) = c[m]
  <2>1. \A i \in m..Len(c) : c[i].thread = t
    BY <1>1, <1>2
  <2>2. /\ Sound(U[t]) /\ CountsAre(c, t, m, U[t]) /\ v[m] <= Len(U[t].ci)
        /\ \A j \in 1..v[m] : U[t].ci[j] = T[t].ci[j]
    BY <1>3, <1>4, <1>5
  <2> HIDE DEF m, t
  <2> QED
    BY <1>1, <1>2, <1>4, <2>1, <2>2, SameRuns, SMTT(60) DEF p
<1>7. Len(q) = m /\ q \in Seq(Record) /\ q # <<>> /\ p[m] = v[m] /\ \A i \in 1..m : q[i] = c[i]
  <2>1. m \in 0..Len(c) /\ m # 0
    BY <1>1, <1>2
  <2> HIDE DEF m
  <2> QED
    BY <1>1, <1>2, <2>1, LowerPart DEF p, Under
<1> HIDE DEF q
<1>8. r \in Record /\ r.k = "execute" /\ r.thread = t /\ r.nexeccalls = e
  BY <1>1 DEF Record
<1> HIDE DEF r
<1>9. CountsAre(d, t, m + 1, l)
  <2>1. m \in Nat /\ d[m + 1] = r /\ \A i \in 1..m : c[i] = d[i]
    <3>1. d[m + 1] = r /\ \A i \in 1..m : q[i] = d[i]
      BY <1>7, <1>8, OnTop
    <3> QED
      BY <1>1, <1>2, <1>7, <3>1
  <2> HIDE DEF d, m
  <2>2. CountsAre(d, t, m, l)
    BY <1>3, <2>1, CountsAgree DEF CountsAre
  <2> QED
    BY <1>8, <2>1, <2>2, CountsOfFrame DEF CountsAre
<1>10. Level(l.ci, d, w, m + 1)
  <2>1. FitsOn(l.ci, q[Len(q)].k, p[Len(q)], r, x)
    BY <1>2, <1>5, <1>6, <1>7, <1>8, RecordsOfStack DEF FitsOn
  <2> HIDE DEF x, m
  <2> QED
    BY <1>7, <1>8, <2>1, LevelOfTop
<1>11. Good(U, d, w)
  <2>1. /\ Sound(U[r.thread]) /\ CountsAre(Append(q, r), r.thread, Len(q) + 1, U[r.thread])
        /\ SavedAt(q, Len(q), r)
        /\ x <= Len(U[r.thread].ci) /\ Level(U[r.thread].ci, Append(q, r), Above(p, Len(q), x), Len(q) + 1)
        /\ \A u \in Threads \ {r.thread} : U[u] = U[u]
        /\ r.k # "resume" /\ r.thread = Last(q).thread
        /\ p[Len(q)] <= x /\ U[r.thread].ci = U[r.thread].ci
    BY <1>2, <1>4, <1>5, <1>6, <1>7, <1>8, <1>9, <1>10 DEF SavedAt
  <2> HIDE DEF x, m
  <2>2. x \in Nat \ {0} /\ r \in Record /\ U \in [Threads -> LuaState] /\ Good(U, q, p) /\ q # <<>>
    BY <1>4, <1>5, <1>6, <1>7, <1>8
  <2>3. Good(U, Append(q, r), Above(p, Len(q), x))
    BY <2>1, <2>2, Pushed
  <2> QED
    BY <1>7, <2>3 DEF d, w
<1>12. Len(d) = n /\ Last(d) = r /\ d # <<>> /\ w[n] = x
  <2>1. Len(d) = m + 1 /\ Last(d) = r /\ d # <<>>
    BY <1>7, <1>8, OnTop
  <2>2. w[m + 1] = x
    BY <1>1, <1>2 DEF Above
  <2> QED
    BY <1>1, <2>1, <2>2
<1>13. Ready(U, d, w) /\ Steady(U, d, w)
  BY <1>4, <1>8, <1>11, <1>12 DEF Ready, Loose, Steady, Height
<1>14. Recount(c, e) = d
  BY DEF Recount, q, r
<1> QED
  BY <1>13, <1>14 DEF U

LEMMA Recounted ==
  ASSUME NEW c \in Seq(Record), c # <<>>, Last(c).k = "execute", NEW e \in Nat
  PROVE  [c EXCEPT ![Len(c)].nexeccalls = e] = Recount(c, e)
<1> DEFINE n == Len(c)
           r == [k |-> "execute", thread |-> Last(c).thread, nexeccalls |-> e]
           d == [c EXCEPT ![n].nexeccalls = e]
           q == Lower(c, n - 1)
           a == Append(q, r)
<1>1. n \in Nat \ {0} /\ DOMAIN c = 1..n /\ Last(c) = c[n] /\ c[n] \in Record
  BY RecordsOfStack
<1>2. n - 1 \in 0..Len(c)
  BY <1>1
<1>3. q \in Seq(Record) /\ Len(q) = n - 1 /\ \A i \in 1..n - 1 : q[i] = c[i]
  BY <1>2, LowerPart
<1>4. c[n] \in [k : {"execute"}, thread : Threads, nexeccalls : Nat]
  BY <1>1 DEF Record
<1>5. r \in Record /\ [c[n] EXCEPT !.nexeccalls = e] = r
  BY <1>1, <1>4 DEF Record
<1> HIDE DEF q, r
<1>6. a \in Seq(Record) /\ Len(a) = n /\ a[n] = r /\ \A i \in 1..n - 1 : a[i] = c[i]
  <2>1. /\ Append(q, r) \in Seq(Record) /\ Len(Append(q, r)) = Len(q) + 1
        /\ \A i \in 1..Len(q) : Append(q, r)[i] = q[i] /\ Append(q, r)[Len(q) + 1] = r
    BY <1>3, <1>5, OnTop
  <2> QED
    BY <1>1, <1>3, <2>1
<1> HIDE DEF a
<1>7. DOMAIN d = 1..n /\ d[n] = r /\ \A i \in 1..n - 1 : d[i] = c[i]
  BY <1>1, <1>5
<1>8. d = [i \in 1..n |-> d[i]]
  BY <1>7
<1>9. a = [i \in 1..n |-> a[i]]
  BY <1>6, LenProperties
<1> HIDE DEF d, n
<1>10. \A i \in 1..n : d[i] = a[i]
  <2>1. \A i \in 1..n : i = n \/ i \in 1..n - 1
    BY <1>1
  <2> QED
    BY <1>6, <1>7, <2>1
<1>11. d = a
  BY <1>8, <1>9, <1>10
<1> QED
  BY <1>11 DEF Recount, a, d, n, q, r

(* OP_CALL of a Lua function.                                              *)
LEMMA CallFine ==
  ASSUME NEW T, NEW c, NEW v, Ready(T, c, v), Limited(T, Threads), Steady(T, c, v), NEW told_,
         Fits(St(T, c, told_, "none")), NEW what, NEW msg
  PROVE  Fine(Tell([IncCi(St(T, c, told_, "none"), "lua")
                      EXCEPT !.cstack[Len(c)].nexeccalls = @ + 1], what, msg))
<1> DEFINE t == Last(c).thread
           n == Len(c)
           l == T[t]
           k == CalledAs(l, "lua")
           U == Put(T, t, k)
           e == c[n].nexeccalls + 1
           d == Recount(c, e)
           g == IncCi(St(T, c, told_, "none"), "lua")
<1>1. /\ T \in [Threads -> LuaState] /\ c \in Seq(Record) /\ t \in Threads /\ n \in Nat \ {0}
      /\ Last(c) = c[n] /\ c # <<>> /\ l \in LuaState /\ Sound(l) /\ CountsAre(c, t, n, l)
      /\ Level(l.ci, c, v, n) /\ n \in DOMAIN c /\ v[n] \in Nat \ {0} /\ n \in 1..Len(c)
  BY Runner DEF Ready
<1>2. Len(l.ci) = v[n] /\ c[n].k = "execute" /\ "lua" \in CiKinds
  BY <1>1 DEF Steady, Height, CiKinds
<1>3. HasRoom(l) /\ g = St(U, c, told_, "none")
  BY <1>1, GrownIs, IncCiIs
<1>4. /\ k \in LuaState /\ Sound(k) /\ Len(k.ci) = v[n] + 1
      /\ k.ci[v[n] + 1] = "lua" /\ \A i \in 1..v[n] : k.ci[i] = l.ci[i]
      /\ k.nCcalls = l.nCcalls /\ k.allowhook = l.allowhook
      /\ k.errfunc = l.errfunc /\ k.errorJmp = l.errorJmp /\ k.status = l.status
  BY <1>1, <1>2, <1>3, CalledIs, SMTT(60)
<1> HIDE DEF k
<1>5. /\ n # 1 /\ v[n - 1] \in Nat \ {0} /\ c[n].nexeccalls \in Nat \ {0}
      /\ v[n] = v[n - 1] + c[n].nexeccalls /\ \A j \in v[n - 1] + 1..v[n] : l.ci[j] = "lua"
  <2>1. n = 1 => c[n].k = "pcall"
    BY <1>1, RecordOf
  <2>2. c[n].k # "resume" /\ n # 1 => v[n - 1] \in Nat \ {0}
    BY <1>1, RecordOf
  <2> QED
    BY <1>1, <1>2, <2>1, <2>2 DEF Level
<1>6. CountsAre(c, t, n, k)
  BY <1>1, <1>4 DEF CountsAre
<1> DEFINE y == v[n - 1]
           z == v[n]
           f == c[n].nexeccalls
<1>a. /\ y \in Nat \ {0} /\ f \in Nat \ {0} /\ z = y + f /\ z \in Nat /\ e = f + 1
      /\ Len(k.ci) = z + 1 /\ k.ci[z + 1] = "lua" /\ \A i \in 1..z : k.ci[i] = l.ci[i]
      /\ \A j \in y + 1..z : l.ci[j] = "lua"
  BY <1>1, <1>4, <1>5
<1> HIDE DEF y, z, f, e, l
<1>7. e \in Nat \ {0} /\ Len(k.ci) = y + e
  BY <1>a
<1>8. \A j \in 1..y : k.ci[j] = l.ci[j]
  BY <1>a
<1>9. \A j \in y + 1..Len(k.ci) : k.ci[j] = "lua"
  <2>1. y \in Nat /\ z \in Nat
    BY <1>a
  <2>2. \A j \in y + 1..z + 1 : j = z + 1 \/ (j \in y + 1..z /\ j \in 1..z)
    BY <2>1
  <2> QED
    BY <1>a, <2>2
<1>10. PICK w : Ready(U, d, w) /\ Steady(U, d, w)
  <2>1. /\ Last(c).k = "execute" /\ CountsAre(c, Last(c).thread, Len(c), k)
        /\ Len(k.ci) = v[Len(c) - 1] + e
        /\ \A j \in 1..v[Len(c) - 1] : k.ci[j] = T[Last(c).thread].ci[j]
        /\ \A j \in v[Len(c) - 1] + 1..Len(k.ci) : k.ci[j] = "lua"
    BY <1>1, <1>2, <1>6, <1>7, <1>8, <1>9 DEF y, l
  <2> QED
    BY <1>4, <1>7, <2>1, Recounts
<1>11. Limited(U, Threads)
  BY <1>1, <1>4 DEF Limited, Put, l
<1>12. [c EXCEPT ![n].nexeccalls = e] = d
  BY <1>1, <1>2, <1>7, Recounted
<1>13. [c EXCEPT ![n].nexeccalls = @ + 1] = [c EXCEPT ![n].nexeccalls = e]
  BY DEF e, f
<1> HIDE DEF g, U, d
<1>14. Tell([g EXCEPT !.cstack[n].nexeccalls = @ + 1], what, msg) \in One(U, d, <<what, msg>>, "none")
  <2>1. [g EXCEPT !.cstack[n].nexeccalls = @ + 1] \in One(U, d, told_, "none")
    BY <1>3, <1>12, <1>13 DEF St, One
  <2> QED
    BY <2>1 DEF Tell, One
<1>15. Fine(St(U, d, <<what, msg>>, "none"))
  BY <1>10, <1>11, ReadyIsFine
<1> QED
  BY <1>14, <1>15, Only DEF g

LEMMA PoppedIs ==
  ASSUME NEW l \in LuaState, Sound(l), Len(l.ci) > 1
  PROVE  LET k == Popped(l)
             n == Len(l.ci) - 1
         IN /\ k \in LuaState /\ Sound(k) /\ n \in Nat \ {0} /\ Len(k.ci) = n
            /\ \A i \in 1..n : k.ci[i] = l.ci[i]
            /\ k.nCcalls = l.nCcalls /\ k.allowhook = l.allowhook
            /\ k.errfunc = l.errfunc /\ k.errorJmp = l.errorJmp /\ k.status = l.status /\ k.top = l.top
<1> DEFINE k == Popped(l)
           n == Len(l.ci) - 1
<1>1. /\ l.ci \in Seq(CiKinds) /\ l.ci # <<>> /\ l.ci[1] = "base" /\ Len(l.ci) \in Nat
      /\ l.size_ci \in Nat /\ Len(l.ci) <= l.size_ci
  BY LenProperties DEF LuaState, Sound
<1>2. Front(l.ci) \in Seq(CiKinds) /\ Len(Front(l.ci)) = n /\ \A i \in 1..n : Front(l.ci)[i] = l.ci[i]
  BY <1>1, FrontPart
<1>3. n \in Nat \ {0} /\ n <= l.size_ci /\ 1 \in 1..n
  <2>1. \A a, b \in Nat : a > 1 /\ a <= b => a - 1 \in Nat \ {0} /\ a - 1 <= b /\ 1 \in 1..a - 1
    OBVIOUS
  <2> QED
    BY <1>1, <2>1
<1>4. /\ k \in LuaState /\ k.ci = Front(l.ci) /\ k.status = l.status /\ k.size_ci = l.size_ci
      /\ k.nCcalls = l.nCcalls /\ k.allowhook = l.allowhook
      /\ k.errfunc = l.errfunc /\ k.errorJmp = l.errorJmp /\ k.top = l.top
  BY <1>2 DEF LuaState, Popped
<1> HIDE DEF k, n
<1>5. k.ci # <<>> /\ k.ci[1] = "base"
  BY <1>1, <1>2, <1>3, <1>4, EmptySeq
<1>6. Sound(k)
  BY <1>2, <1>3, <1>4, <1>5 DEF Sound
<1> QED
  BY <1>2, <1>3, <1>4, <1>6 DEF k, n

LEMMA PopCiIs ==
  ASSUME NEW T \in [Threads -> LuaState], NEW c, Last(c).thread \in Threads, NEW told_, NEW raised_
  PROVE  LET t == Last(c).thread
         IN PopCi(St(T, c, told_, raised_)) = St(Put(T, t, Popped(T[t])), c, told_, raised_)
<1> DEFINE t == Last(c).thread
           s == St(T, c, told_, raised_)
           k == Popped(T[t])
           U == Put(T, t, k)
<1>1. L(s) = t
  BY DEF L, St
<1>2. PopCi(s) = [s EXCEPT !.threads[t].ci = Front(@)]
  BY <1>1 DEF PopCi
<1>3. k = [T[t] EXCEPT !.ci = Front(@)]
  BY DEF Popped
<1>4. [s EXCEPT !.threads[t].ci = Front(@)] \in One(U, c, told_, raised_)
  BY <1>3 DEF St, One, Put
<1> QED
  BY <1>2, <1>4, Only

(* OP_RETURN to a Lua function that luaV_execute runs too.                 *)
LEMMA ReturnInFine ==
  ASSUME NEW T, NEW c, NEW v, Ready(T, c, v), Limited(T, Threads), Steady(T, c, v), NEW told_,
         Last(c).nexeccalls # 1, NEW what, NEW msg
  PROVE  Fine(Tell([PopCi(St(T, c, told_, "none"))
                      EXCEPT !.cstack[Len(c)].nexeccalls = @ - 1], what, msg))
<1> DEFINE t == Last(c).thread
           n == Len(c)
           l == T[t]
           k == Popped(l)
           U == Put(T, t, k)
           e == c[n].nexeccalls - 1
           d == Recount(c, e)
           g == PopCi(St(T, c, told_, "none"))
<1>1. /\ T \in [Threads -> LuaState] /\ c \in Seq(Record) /\ t \in Threads /\ n \in Nat \ {0}
      /\ Last(c) = c[n] /\ c # <<>> /\ l \in LuaState /\ Sound(l) /\ CountsAre(c, t, n, l)
      /\ Level(l.ci, c, v, n) /\ n \in DOMAIN c /\ v[n] \in Nat \ {0} /\ n \in 1..Len(c)
  BY Runner DEF Ready
<1>2. Len(l.ci) = v[n] /\ c[n].k = "execute"
  BY <1>1 DEF Steady, Height
<1>3. g = St(U, c, told_, "none")
  BY <1>1, PopCiIs
<1>4. /\ n # 1 /\ v[n - 1] \in Nat \ {0} /\ c[n].nexeccalls \in Nat \ {0}
      /\ v[n] = v[n - 1] + c[n].nexeccalls /\ \A j \in v[n - 1] + 1..v[n] : l.ci[j] = "lua"
  <2>1. n = 1 => c[n].k = "pcall"
    BY <1>1, RecordOf
  <2>2. c[n].k # "resume" /\ n # 1 => v[n - 1] \in Nat \ {0}
    BY <1>1, RecordOf
  <2> QED
    BY <1>1, <1>2, <2>1, <2>2 DEF Level
<1> DEFINE y == v[n - 1]
           z == v[n]
           f == c[n].nexeccalls
<1>5. /\ y \in Nat \ {0} /\ f \in Nat \ {0, 1} /\ z = y + f /\ z \in Nat /\ e = f - 1
      /\ Len(l.ci) = z /\ \A j \in y + 1..z : l.ci[j] = "lua"
  BY <1>1, <1>2, <1>4
<1>6. Len(l.ci) > 1 /\ z - 1 \in Nat
  <2> HIDE DEF y, z, f, e, l
  <2> QED
    BY <1>5
<1>7. /\ k \in LuaState /\ Sound(k) /\ Len(k.ci) = z - 1 /\ \A i \in 1..z - 1 : k.ci[i] = l.ci[i]
      /\ k.nCcalls = l.nCcalls /\ k.allowhook = l.allowhook
      /\ k.errfunc = l.errfunc /\ k.errorJmp = l.errorJmp /\ k.status = l.status
  BY <1>1, <1>5, <1>6, PoppedIs
<1> HIDE DEF k, y, z, f, e, l
<1>8. CountsAre(c, t, n, k)
  BY <1>1, <1>7 DEF CountsAre
<1>9. e \in Nat \ {0} /\ Len(k.ci) = y + e
  BY <1>5, <1>7
<1>10. \A j \in 1..y : k.ci[j] = l.ci[j]
  BY <1>5, <1>7
<1>11. \A j \in y + 1..Len(k.ci) : k.ci[j] = "lua"
  <2>1. y \in Nat /\ z \in Nat
    BY <1>5
  <2>2. \A j \in y + 1..z - 1 : j \in 1..z - 1 /\ j \in y + 1..z
    BY <2>1
  <2> QED
    BY <1>5, <1>7, <2>2
<1>12. PICK w : Ready(U, d, w) /\ Steady(U, d, w)
  <2>1. /\ Last(c).k = "execute" /\ CountsAre(c, Last(c).thread, Len(c), k)
        /\ Len(k.ci) = v[Len(c) - 1] + e
        /\ \A j \in 1..v[Len(c) - 1] : k.ci[j] = T[Last(c).thread].ci[j]
        /\ \A j \in v[Len(c) - 1] + 1..Len(k.ci) : k.ci[j] = "lua"
    BY <1>1, <1>2, <1>8, <1>9, <1>10, <1>11 DEF y, l
  <2> QED
    BY <1>7, <1>9, <2>1, Recounts
<1>13. Limited(U, Threads)
  BY <1>1, <1>7 DEF Limited, Put, l
<1>14. [c EXCEPT ![n].nexeccalls = e] = d
  BY <1>1, <1>2, <1>9, Recounted
<1>15. [c EXCEPT ![n].nexeccalls = @ - 1] = [c EXCEPT ![n].nexeccalls = e]
  BY DEF e, f
<1> HIDE DEF g, U, d
<1>16. Tell([g EXCEPT !.cstack[n].nexeccalls = @ - 1], what, msg) \in One(U, d, <<what, msg>>, "none")
  <2>1. [g EXCEPT !.cstack[n].nexeccalls = @ - 1] \in One(U, d, told_, "none")
    BY <1>3, <1>14, <1>15 DEF St, One
  <2> QED
    BY <2>1 DEF Tell, One
<1>17. Fine(St(U, d, <<what, msg>>, "none"))
  BY <1>12, <1>13, ReadyIsFine
<1> QED
  BY <1>16, <1>17, Only DEF g


(* The innermost record is taken away when what it stands for has returned.*)
LEMMA PopCIs ==
  ASSUME NEW T \in [Threads -> LuaState], NEW c \in Seq(Record), c # <<>>, NEW told_, NEW raised_
  PROVE  PopC(St(T, c, told_, raised_)) = St(T, Lower(c, Len(c) - 1), told_, raised_)
<1>1. Front(c) = Lower(c, Len(c) - 1)
  BY FrontPart
<1>2. PopC(St(T, c, told_, raised_)) \in One(T, Front(c), told_, raised_)
  BY DEF PopC, St, One
<1> QED
  BY <1>1, <1>2, Only

LEMMA TellIs ==
  ASSUME NEW T, NEW c, NEW told_, NEW raised_, NEW what, NEW msg
  PROVE  Tell(St(T, c, told_, raised_), what, msg) = St(T, c, <<what, msg>>, raised_)
<1>1. Tell(St(T, c, told_, raised_), what, msg) \in One(T, c, <<what, msg>>, raised_)
  BY DEF Tell, St, One
<1> QED
  BY <1>1, Only

LEMMA PopsRecord ==
  ASSUME NEW T, NEW c, NEW v, Ready(T, c, v), Last(c).k \notin {"resume", "pcall"},
         NEW k \in LuaState, Sound(k), k.ci = T[Last(c).thread].ci,
         CountsAre(c, Last(c).thread, Len(c) - 1, k),
         Height(T, c) \in {v[Len(c) - 1], v[Len(c) - 1] + 1}
  PROVE  LET U == Put(T, Last(c).thread, k)
             m == Len(c) - 1
             d == Lower(c, m)
             w == Under(v, m)
         IN /\ m \in 1..Len(c) /\ Ready(U, d, w) /\ Len(d) = m
            /\ Last(d) = c[m] /\ Last(d).thread = Last(c).thread
            /\ Height(U, d) = Height(T, c) /\ w[Len(d)] = v[m] /\ U[Last(c).thread] = k
<1> DEFINE t == Last(c).thread
           n == Len(c)
           m == n - 1
           U == Put(T, t, k)
<1>1. /\ T \in [Threads -> LuaState] /\ c \in Seq(Record) /\ t \in Threads /\ n \in Nat \ {0}
      /\ Last(c) = c[n] /\ n \in 1..Len(c)
  BY Runner
<1>2. m \in 1..Len(c) /\ c[m].thread = t /\ m + 1 = n
  <2>1. n = 1 => c[n].k = "pcall"
    BY <1>1, RecordOf
  <2>2. c[n].k # "resume" /\ n # 1 => n - 1 \in 1..Len(c) /\ c[n - 1].thread = t
    BY <1>1, RecordOf
  <2> QED
    BY <1>1, <2>1, <2>2
<1>3. /\ \A i \in m..Len(c) : c[i].thread = t
      /\ Len(k.ci) \in {v[m], v[m] + 1} /\ \A j \in 1..v[m] : k.ci[j] = T[t].ci[j]
      /\ Len(k.ci) = Height(T, c)
  BY <1>1, <1>2 DEF Height
<1>4. U[t] = k
  BY <1>1 DEF Put
<1> HIDE DEF m, n, t, U
<1>5. /\ CountsAre(c, Last(c).thread, m, k) /\ \A i \in m..Len(c) : c[i].thread = Last(c).thread
      /\ \A j \in 1..v[m] : k.ci[j] = T[Last(c).thread].ci[j]
  BY <1>3 DEF t, m, n
<1>6. LET W == Put(T, Last(c).thread, k)
          d == Lower(c, m)
          w == Under(v, m)
      IN /\ Ready(W, d, w) /\ Len(d) = m /\ Last(d) = c[m] /\ Last(d).thread = Last(c).thread
         /\ Height(W, d) = Len(k.ci) /\ w[Len(d)] = v[m]
  BY <1>2, <1>3, <1>5, GoesOn, SMTT(60)
<1> QED
  BY <1>2, <1>3, <1>4, <1>6 DEF U, t, m, n

(* luaD_callhook, after the hook.                                          *)
LEMMA HookEnds ==
  ASSUME NEW T, NEW c, NEW v, Ready(T, c, v), Limited(T, Threads), Last(c).k = "hook",
         Height(T, c) = v[Len(c)], NEW told_, NEW what, NEW msg
  PROVE  LET s == St(T, c, told_, "none")
         IN Fine(Tell([PopC(s) EXCEPT !.threads[Last(c).thread].allowhook = TRUE], what, msg))
<1> DEFINE t == Last(c).thread
           n == Len(c)
           m == n - 1
           l == T[t]
           k == [l EXCEPT !.allowhook = TRUE]
           U == Put(T, t, k)
           d == Lower(c, m)
           w == Under(v, m)
           s == St(T, c, told_, "none")
           g == PopC(s)
<1>1. /\ T \in [Threads -> LuaState] /\ c \in Seq(Record) /\ t \in Threads /\ n \in Nat \ {0}
      /\ Last(c) = c[n] /\ c # <<>> /\ l \in LuaState /\ Sound(l) /\ CountsAre(c, t, n, l)
      /\ Level(l.ci, c, v, n) /\ n \in 1..Len(c)
  BY Runner DEF Ready
<1>2. /\ m + 1 = n /\ m \in Nat /\ n # 1 /\ Hookable(c, t, m)
  <2>1. n = 1 => c[n].k = "pcall"
    BY <1>1, RecordOf
  <2>2. c[n].k = "hook" => Hookable(c, t, n - 1)
    BY <1>1, RecordOf
  <2> QED
    BY <1>1, <2>1, <2>2
<1>3. v[n] = v[m] /\ c[m].k = "execute"
  BY <1>1, <1>2 DEF Level
<1>4. /\ k \in LuaState /\ Sound(k) /\ k.ci = l.ci /\ k.nCcalls = l.nCcalls /\ k.allowhook = TRUE
      /\ k.errfunc = l.errfunc /\ k.errorJmp = l.errorJmp /\ k.status = l.status
  BY <1>1 DEF LuaState, Sound
<1>5. CountsAre(c, t, m, k)
  <2>1. Is(c, m + 1, t, "hook") /\ CountsAre(c, t, m + 1, l)
    BY <1>1, <1>2 DEF Is
  <2> HIDE DEF m, t, l, k
  <2>2. Counts(c, t, m + 1, l.errorJmp, l.nCcalls, l.allowhook, l.errfunc)
    BY <2>1 DEF CountsAre
  <2>3. Counts(c, t, m, l.errorJmp, l.nCcalls, TRUE, l.errfunc)
    BY <1>2, <2>1, <2>2, CountsOfHook
  <2> QED
    BY <1>4, <2>3 DEF CountsAre
<1>6. g = St(T, d, told_, "none")
  BY <1>1, PopCIs
<1>7. Limited(U, Threads)
  BY <1>1, <1>4 DEF Limited, Put
<1> HIDE DEF g, k, d, w
<1>8. [g EXCEPT !.threads[t].allowhook = TRUE] \in One(U, d, told_, "none")
  BY <1>6 DEF St, One, Put, k
<1>9. Tell([g EXCEPT !.threads[t].allowhook = TRUE], what, msg) = St(U, d, <<what, msg>>, "none")
  BY <1>8, Only, TellIs
<1>10. Ready(U, d, w) /\ Steady(U, d, w)
  <2>1. /\ Last(c).k \notin {"resume", "pcall"} /\ k.ci = T[Last(c).thread].ci
        /\ CountsAre(c, Last(c).thread, Len(c) - 1, k)
        /\ Height(T, c) \in {v[Len(c) - 1], v[Len(c) - 1] + 1}
    BY <1>3, <1>4, <1>5
  <2>2. /\ Ready(U, d, w) /\ Last(d) = c[m] /\ Height(U, d) = Height(T, c) /\ w[Len(d)] = v[m]
    BY <1>4, <2>1, PopsRecord DEF d, w
  <2> QED
    BY <1>3, <2>2 DEF Steady
<1>11. Fine(St(U, d, <<what, msg>>, "none"))
  BY <1>7, <1>10, ReadyIsFine
<1> QED
  BY <1>9, <1>11 DEF g

(* luaG_errormsg, after the error handler.                                 *)
LEMMA HandlerEnds ==
  ASSUME NEW T, NEW c, NEW v, Ready(T, c, v), Limited(T, Threads), Last(c).k = "errormsg",
         Height(T, c) = v[Len(c)], NEW told_, NEW msg, msg # "none"
  PROVE  Fine(Throw(PopC(St(T, c, told_, "none")), msg))
<1> DEFINE t == Last(c).thread
           n == Len(c)
           m == n - 1
           k == T[t]
           U == Put(T, t, k)
           d == Lower(c, m)
           w == Under(v, m)
           s == St(T, c, told_, "none")
<1>1. /\ T \in [Threads -> LuaState] /\ c \in Seq(Record) /\ t \in Threads /\ n \in Nat \ {0}
      /\ Last(c) = c[n] /\ c # <<>> /\ k \in LuaState /\ Sound(k) /\ CountsAre(c, t, n, k)
      /\ Level(k.ci, c, v, n) /\ n \in 1..Len(c)
  BY Runner DEF Ready
<1>2. /\ m + 1 = n /\ m \in Nat /\ n # 1
  <2>1. n = 1 => c[n].k = "pcall"
    BY <1>1, RecordOf
  <2> QED
    BY <1>1, <2>1
<1>3. v[n] \in {v[m], v[m] + 1}
  BY <1>1, <1>2 DEF Level
<1>5. CountsAre(c, t, m, k)
  <2>1. c[m + 1].thread = t /\ c[m + 1].k = "errormsg" /\ CountsAre(c, t, m + 1, k)
    BY <1>1, <1>2
  <2> HIDE DEF m, t, k
  <2> QED
    BY <1>2, <2>1, CountsOfFrame DEF CountsAre
<1>6. PopC(s) = St(T, d, told_, "none")
  BY <1>1, PopCIs
<1>7. U = T
  BY <1>1 DEF Put
<1>8. Limited(T, Threads \ {Last(d).thread})
  BY DEF Limited
<1> HIDE DEF d, w
<1>10. Ready(U, d, w)
  <2>1. /\ Last(c).k \notin {"resume", "pcall"} /\ k.ci = T[Last(c).thread].ci
        /\ CountsAre(c, Last(c).thread, Len(c) - 1, k)
        /\ Height(T, c) \in {v[Len(c) - 1], v[Len(c) - 1] + 1}
        /\ k \in LuaState /\ Sound(k)
    BY <1>1, <1>3, <1>5
  <2> HIDE DEF k
  <2> QED
    BY <2>1, PopsRecord DEF d, w
<1>11. Fine(Throw(St(T, d, told_, "none"), msg))
  BY <1>7, <1>8, <1>10, ThrowFine
<1> QED
  BY <1>6, <1>11

(* luaD_pcall, after a call without an error.                              *)
LEMMA PcallEnds ==
  ASSUME NEW T, NEW c, NEW v, Ready(T, c, v), Limited(T, Threads), Last(c).k = "pcall",
         Height(T, c) = v[Len(c)], NEW told_, NEW what, NEW msg
  PROVE  LET back == PcallReturns(St(T, c, told_, "none"), Last(c))
         IN Fine(Tell(IF back.cstack = <<>> THEN back ELSE PopCi(back), what, msg))
<1> DEFINE t == Last(c).thread
           n == Len(c)
           m == n - 1
           r == c[n]
           l == T[t]
           k == [l EXCEPT !.errfunc = r.errfunc, !.errorJmp = r.previous]
           U == Put(T, t, k)
           d == Lower(c, m)
           w == Under(v, m)
           s == St(T, c, told_, "none")
           g == PopC(s)
           back == PcallReturns(s, Last(c))
           end == Tell(IF back.cstack = <<>> THEN back ELSE PopCi(back), what, msg)
<1>1. /\ T \in [Threads -> LuaState] /\ c \in Seq(Record) /\ t \in Threads /\ n \in Nat \ {0}
      /\ Last(c) = r /\ c # <<>> /\ l \in LuaState /\ Sound(l) /\ CountsAre(c, t, n, l)
      /\ Level(l.ci, c, v, n) /\ n \in 1..Len(c) /\ Good(T, c, v)
      /\ m + 1 = n /\ m \in Nat
  BY Runner DEF Ready
<1>2. /\ r.previous \in Nat /\ r.errfunc \in BOOLEAN /\ r.ef \in BOOLEAN
      /\ Counts(c, t, m, r.previous, r.nCcalls, r.allowhook, r.errfunc)
      /\ n = 1 => t = Main
      /\ n # 1 => c[m].thread = t /\ v[m] \in Nat \ {0} /\ m \in 1..Len(c)
  BY <1>1, RecordOf, SMTT(60)
<1>3. n # 1 => v[n] = v[m] + 1 /\ c[m].k = "execute"
  <2>1. c[n].k = "pcall"
    BY <1>1
  <2>2. ASSUME n # 1 PROVE v[n] = v[n - 1] + 1 /\ c[n - 1].k = "execute"
    <3>1. c[m].k # "none"
      BY <1>1, <1>2, <2>2, RecordsOfStack
    <3> QED
      BY <1>1, <2>1, <2>2, <3>1 DEF Level
  <2> QED
    BY <2>2
<1>4. /\ k \in LuaState /\ Sound(k) /\ k.ci = l.ci /\ k.nCcalls = l.nCcalls /\ k.allowhook = l.allowhook
      /\ k.errfunc = r.errfunc /\ k.errorJmp = r.previous /\ k.status = l.status
  BY <1>1, <1>2 DEF LuaState, Sound
<1>5. CountsAre(c, t, m, k)
  <2>1. Is(c, m + 1, t, "pcall") /\ c[m + 1].ef \in BOOLEAN
    BY <1>1, <1>2 DEF Is
  <2>2. Counts(c, t, m + 1, l.errorJmp, l.nCcalls, l.allowhook, l.errfunc)
    BY <1>1 DEF CountsAre
  <2> HIDE DEF m, t, l, k, r
  <2>3. Counts(c, t, m, r.previous, l.nCcalls, l.allowhook, r.errfunc)
    BY <1>1, <1>2, <2>1, <2>2, CountsOfPcall
  <2> QED
    BY <1>4, <2>3 DEF CountsAre
<1>6. g = St(T, d, told_, "none")
  BY <1>1, PopCIs
<1>7. Limited(U, Threads)
  BY <1>1, <1>4 DEF Limited, Put
<1>8. U \in [Threads -> LuaState] /\ U[t] = k /\ \A u \in Threads \ {t} : U[u] = T[u]
  BY <1>1, <1>4 DEF Put
<1>9. d \in Seq(Record) /\ Len(d) = m /\ (d = <<>> <=> n = 1)
  <2>1. m \in 0..Len(c) /\ (m = 0 <=> n = 1)
    BY <1>1
  <2>2. c \in Seq(Record)
    BY <1>1
  <2> HIDE DEF m, n
  <2> QED
    BY <2>1, <2>2, LowerPart
<1>a. back = [g EXCEPT !.threads[r.thread].errfunc = r.errfunc, !.threads[r.thread].errorJmp = r.previous]
  BY <1>1 DEF PcallReturns
<1>b. r.thread = t
  BY <1>1
<1> SUFFICES Fine(end)
  OBVIOUS
<1> HIDE DEF g, d, w, back, end
<1>10. back = St(U, d, told_, "none")
  <2>1. [g EXCEPT !.threads[t].errfunc = r.errfunc, !.threads[t].errorJmp = r.previous]
          \in One(U, d, told_, "none")
    BY <1>6 DEF St, One, Put
  <2> QED
    BY <1>a, <1>b, <2>1, Only
<1> HIDE DEF k, U
<1>11. CASE n = 1
  <2>1. end = St(U, d, <<what, msg>>, "none") /\ d = <<>>
    <3>1. back.cstack = <<>>
      BY <1>9, <1>10, <1>11 DEF St
    <3> QED
      BY <1>9, <1>10, <1>11, <3>1, TellIs DEF end
  <2>2. Good(U, <<>>, Under(v, 0))
    <3>1. \A i \in 1..Len(c) : c[i].thread = Main
      BY <1>1, <1>2, <1>11
    <3>2. Sound(U[Main]) /\ CountsAre(c, Main, 0, U[Main]) /\ \A u \in Threads \ {Main} : U[u] = T[u]
      BY <1>2, <1>4, <1>5, <1>8, <1>11
    <3> HIDE DEF n, t
    <3> QED
      BY <1>1, <1>8, <3>1, <3>2, Ended
  <2>3. Good(St(U, d, <<what, msg>>, "none").threads, St(U, d, <<what, msg>>, "none").cstack, Under(v, 0))
    BY <2>1, <2>2 DEF St
  <2> QED
    BY <1>7, <2>1, <2>3 DEF Fine, St
<1>12. CASE n # 1
  <2>1. Ready(U, d, w) /\ Last(d) = c[m] /\ Last(d).thread = t /\ Height(U, d) = v[m] + 1 /\ w[Len(d)] = v[m]
    <3>1. /\ m \in 1..Len(c) /\ \A i \in m..Len(c) : c[i].thread = Last(c).thread
          /\ CountsAre(c, Last(c).thread, m, k)
          /\ Len(k.ci) = v[m] + 1 /\ Len(k.ci) \in {v[m], v[m] + 1}
          /\ \A j \in 1..v[m] : k.ci[j] = T[Last(c).thread].ci[j]
      BY <1>1, <1>2, <1>3, <1>4, <1>5, <1>12, SMTT(60) DEF Height
    <3> HIDE DEF m, n
    <3>2. LET W == Put(T, Last(c).thread, k)
              e == Lower(c, m)
              x == Under(v, m)
          IN /\ Ready(W, e, x) /\ Len(e) = m /\ Last(e) = c[m] /\ Last(e).thread = Last(c).thread
             /\ Height(W, e) = Len(k.ci) /\ x[Len(e)] = v[m]
      BY <1>4, <3>1, GoesOn, SMTT(60)
    <3> QED
      BY <3>1, <3>2 DEF U, d, w
  <2>2. Fine(St(Put(U, t, Popped(U[t])), d, <<what, msg>>, "none"))
    <3>1. Last(d).k = "execute" /\ Height(U, d) = w[Len(d)] + 1
      BY <1>3, <1>12, <2>1
    <3> HIDE DEF t, m, n
    <3> QED
      BY <1>7, <2>1, <3>1, ReturnsFromC
  <2>3. end = Tell(PopCi(back), what, msg)
    <3>1. back.cstack # <<>>
      BY <1>9, <1>10, <1>12 DEF St
    <3> QED
      BY <3>1 DEF end
  <2>4. PopCi(back) = St(Put(U, t, Popped(U[t])), d, told_, "none")
    BY <1>1, <1>8, <1>10, <2>1, PopCiIs
  <2> QED
    BY <2>2, <2>3, <2>4, TellIs
<1> QED
  BY <1>11, <1>12

(* luaD_call, after its function, and what C does then.                    *)
LEMMA CallReturnsFine ==
  ASSUME NEW T, NEW c, NEW v, Ready(T, c, v), Limited(T, Threads), Last(c).k = "call",
         Height(T, c) = v[Len(c)], NEW told_
  PROVE  Fine(CallReturns(St(T, c, told_, "none")))
<1> DEFINE t == Last(c).thread
           n == Len(c)
           m == n - 1
           l == T[t]
           k == [l EXCEPT !.nCcalls = @ - 1]
           U == Put(T, t, k)
           d == Lower(c, m)
           w == Under(v, m)
           s == St(T, c, told_, "none")
           q == [s EXCEPT !.threads[L(s)].nCcalls = @ - 1]
           g == PopC(q)
           r == Last(d)
           all == CallReturns(s)
<1>1. /\ T \in [Threads -> LuaState] /\ c \in Seq(Record) /\ t \in Threads /\ n \in Nat \ {0}
      /\ Last(c) = c[n] /\ c # <<>> /\ l \in LuaState /\ Sound(l) /\ CountsAre(c, t, n, l)
      /\ Level(l.ci, c, v, n) /\ n \in 1..Len(c) /\ Len(l.ci) = v[n]
      /\ m + 1 = n /\ m \in Nat
  BY Runner DEF Ready, Height
<1>2. n # 1 /\ c[m].thread = t /\ v[m] \in Nat \ {0} /\ m \in 1..Len(c)
  <2>1. n = 1 => c[n].k = "pcall"
    BY <1>1, RecordOf
  <2>2. c[n].k # "resume" /\ n # 1 => c[n - 1].thread = t /\ v[n - 1] \in Nat \ {0} /\ n - 1 \in 1..Len(c)
    BY <1>1, RecordOf
  <2> QED
    BY <1>1, <2>1, <2>2
<1>3. \/ v[n] = v[m] /\ c[m].k \in {"pcall", "hook", "errormsg", "execute"}
      \/ v[n] = v[m] + 1 /\ c[m].k = "execute" /\ l.ci[v[n]] # "lua"
  BY <1>1, <1>2 DEF Level
<1>4. l.nCcalls \in 0..MaxCCalls + ExtraCCalls /\ MaxCCalls + ExtraCCalls \in Nat
  BY <1>1, LimitsAssumption, SMTT(60) DEF LuaState
<1>5. Counts(c, t, m, l.errorJmp, l.nCcalls - 1, l.allowhook, l.errfunc)
  <2>1. Is(c, m + 1, t, "call") /\ Counts(c, t, m + 1, l.errorJmp, l.nCcalls, l.allowhook, l.errfunc)
    BY <1>1 DEF Is, CountsAre
  <2>2. l.nCcalls - 1 \in Int /\ (l.nCcalls - 1) + 1 = l.nCcalls
    BY <1>4
  <2> HIDE DEF m, t, l
  <2> QED
    BY <1>1, <2>1, <2>2, CountsOfCall
<1>6. l.nCcalls - 1 \in 0..MaxCCalls + ExtraCCalls
  <2>1. l.nCcalls - 1 \in Nat
    BY <1>1, <1>5, CallsAreFinite DEF Counts
  <2> QED
    BY <1>4, <2>1
<1>7. /\ k \in LuaState /\ Sound(k) /\ k.ci = l.ci /\ k.nCcalls = l.nCcalls - 1 /\ k.allowhook = l.allowhook
      /\ k.errfunc = l.errfunc /\ k.errorJmp = l.errorJmp /\ k.status = l.status
  BY <1>1, <1>6 DEF LuaState, Sound
<1>8. CountsAre(c, t, m, k)
  BY <1>5, <1>7 DEF CountsAre
<1>9. U \in [Threads -> LuaState] /\ U[t] = k /\ \A u \in Threads \ {t} : U[u] = T[u]
  BY <1>1, <1>7 DEF Put
<1>10. Limited(U, Threads)
  BY <1>1, <1>4, <1>6, <1>7 DEF Limited, Put
<1>11. q = St(U, c, told_, "none")
  <2>1. L(s) = t
    BY DEF L, St
  <2>2. q \in One(U, c, told_, "none")
    BY <2>1 DEF St, One, Put
  <2> QED
    BY <2>2, Only
<1>a. all = LET s_ == PopC(q)
                r_ == Last(s_.cstack)
                back_ == PcallReturns(s_, r_)
            IN CASE r_.k = "pcall" -> Tell(IF back_.cstack = <<>> THEN back_ ELSE PopCi(back_), "true", "none")
                 [] r_.k = "hook" -> Tell([PopC(s_) EXCEPT !.threads[r_.thread].allowhook = TRUE], "returned", "none")
                 [] r_.k = "errormsg" -> Throw(PopC(s_), "handled")
                 [] OTHER -> Tell(IF Last(State(s_).ci) = "lua" THEN s_ ELSE PopCi(s_), "returned", "none")
  BY DEF CallReturns
<1> SUFFICES Fine(all)
  OBVIOUS
<1> HIDE DEF all, q, k
<1>12. g = St(U, d, told_, "none")
  BY <1>1, <1>9, <1>11, PopCIs
<1>13. /\ Ready(U, d, w) /\ Len(d) = m /\ r = c[m] /\ r.thread = t
       /\ Height(U, d) = v[n] /\ w[Len(d)] = v[m]
  <2>1. /\ Last(c).k \notin {"resume", "pcall"} /\ k.ci = T[Last(c).thread].ci
        /\ CountsAre(c, Last(c).thread, Len(c) - 1, k)
        /\ Height(T, c) \in {v[Len(c) - 1], v[Len(c) - 1] + 1}
    BY <1>1, <1>3, <1>7, <1>8
  <2> QED
    BY <1>7, <2>1, PopsRecord
<1> HIDE DEF g, U, d, w
<1> DEFINE back == PcallReturns(g, r)
           a == Tell(IF back.cstack = <<>> THEN back ELSE PopCi(back), "true", "none")
           b == Tell([PopC(g) EXCEPT !.threads[r.thread].allowhook = TRUE], "returned", "none")
           h == Throw(PopC(g), "handled")
           e == Tell(IF Last(State(g).ci) = "lua" THEN g ELSE PopCi(g), "returned", "none")
<1>b. g.cstack = d /\ State(g) = k
  BY <1>9, <1>12, <1>13 DEF State, L, St
<1>14. all = CASE r.k = "pcall" -> a [] r.k = "hook" -> b [] r.k = "errormsg" -> h [] OTHER -> e
  <2> HIDE DEF a, b, h, e
  <2> QED
    BY <1>a, <1>b DEF g, a, b, h, e
<1> HIDE DEF back, a, b, h, e, r
<1>15. CASE r.k = "pcall"
  <2>1. Height(U, d) = w[Len(d)]
    BY <1>3, <1>13, <1>15
  <2>2. Fine(a)
    BY <1>10, <1>12, <1>13, <1>15, <2>1, PcallEnds DEF a, back, r
  <2> QED
    BY <1>14, <1>15, <2>2
<1>16. CASE r.k = "hook"
  <2>1. Height(U, d) = w[Len(d)]
    BY <1>3, <1>13, <1>16
  <2>2. Fine(b)
    BY <1>10, <1>12, <1>13, <1>16, <2>1, HookEnds DEF b, r
  <2> QED
    BY <1>14, <1>16, <2>2
<1>17. CASE r.k = "errormsg"
  <2>1. Height(U, d) = w[Len(d)]
    BY <1>3, <1>13, <1>17
  <2>2. Fine(h)
    BY <1>10, <1>12, <1>13, <1>17, <2>1, HandlerEnds DEF h, r
  <2> QED
    BY <1>14, <1>17, <2>2
<1>18. CASE r.k = "execute"
  <2>1. all = e
    BY <1>14, <1>18
  <2>2. Last(k.ci) = l.ci[v[n]]
    BY <1>1, <1>7, RecordsOfStack DEF Last
  <2>3. CASE l.ci[v[n]] = "lua"
    <3>1. Height(U, d) = w[Len(d)]
      BY <1>3, <1>13, <2>3
    <3>2. e = St(U, d, <<"returned", "none">>, "none")
      BY <1>b, <1>12, <2>2, <2>3, TellIs DEF e
    <3>3. Steady(U, d, w)
      BY <1>18, <3>1 DEF Steady, r
    <3> QED
      BY <1>10, <1>13, <2>1, <3>2, <3>3, ReadyIsFine
  <2>4. CASE l.ci[v[n]] # "lua"
    <3>1. Height(U, d) = w[Len(d)] + 1
      <4>1. v[n] # v[m]
        <5>1. \A j \in 1..0 : TRUE
          OBVIOUS
        <5>2. Level(T[t].ci, c, v, m)
          BY <1>1, <1>2, <1>13, RecordOf
        <5>3. c[m].k = "execute" /\ m # 1
          <6>1. m = 1 => c[m].k = "pcall"
            BY <1>1, <1>2, RecordOf, SMTT(60)
          <6> QED
            BY <1>13, <1>18, <6>1
        <5>4. m - 1 \in 1..Len(c) /\ v[m - 1] \in Nat \ {0}
          BY <1>1, <1>2, <5>3, RecordOf, SMTT(60)
        <5>5. c[m].nexeccalls \in Nat \ {0} /\ v[m] = v[m - 1] + c[m].nexeccalls
              /\ \A j \in v[m - 1] + 1..v[m] : l.ci[j] = "lua"
          BY <5>2, <5>3 DEF Level
        <5>6. l.ci[v[m]] = "lua"
          BY <1>2, <5>4, <5>5, SMTT(60)
        <5> QED
          BY <2>4, <5>6
      <4> QED
        BY <1>3, <1>13, <4>1
    <3>2. PopCi(g) = St(Put(U, t, Popped(U[t])), d, told_, "none")
      BY <1>1, <1>9, <1>12, <1>13, PopCiIs DEF r
    <3>3. e = St(Put(U, t, Popped(U[t])), d, <<"returned", "none">>, "none")
      BY <1>b, <2>2, <2>4, <3>2, TellIs DEF e
    <3>4. Fine(St(Put(U, t, Popped(U[t])), d, <<"returned", "none">>, "none"))
      BY <1>10, <1>13, <1>18, <3>1, ReturnsFromC DEF r
    <3> QED
      BY <2>1, <3>3, <3>4
  <2> QED
    BY <2>3, <2>4
<1> QED
  BY <1>3, <1>13, <1>15, <1>16, <1>17, <1>18

LEMMA LowerTwice ==
  ASSUME NEW S, NEW c \in Seq(S), NEW n \in 0..Len(c), NEW m \in 0..n
  PROVE  Lower(Lower(c, n), m) = Lower(c, m)
<1> DEFINE d == Lower(c, n)
<1>1. d \in Seq(S) /\ Len(d) = n /\ \A i \in 1..n : d[i] = c[i]
  BY LowerPart
<1>2. m \in 0..Len(c) /\ \A i \in 1..m : i \in 1..n
  <2>1. Len(c) \in Nat
    BY LenProperties
  <2> QED
    BY <2>1
<1> HIDE DEF d
<1>3. Lower(d, m) \in Seq(S) /\ Len(Lower(d, m)) = m /\ \A i \in 1..m : Lower(d, m)[i] = d[i]
  BY <1>1, LowerPart
<1>4. Lower(c, m) \in Seq(S) /\ Len(Lower(c, m)) = m /\ \A i \in 1..m : Lower(c, m)[i] = c[i]
  BY <1>2, LowerPart
<1>5. \A i \in 1..m : Lower(d, m)[i] = Lower(c, m)[i]
  BY <1>1, <1>2, <1>3, <1>4
<1>6. Lower(d, m) = Lower(c, m)
  BY <1>3, <1>4, <1>5, SeqEqual
<1> QED
  BY <1>6 DEF d

(* A coroutine gives its values to the function that resumed it.           *)
LEMMA Leaves ==
  ASSUME NEW T, NEW c, NEW v, Ready(T, c, v), Limited(T, Threads), NEW j \in 1..Len(c),
         c[j].k = "resume", \A i \in j..Len(c) : c[i].thread = Last(c).thread,
         NEW k \in LuaState, Rests(Jumping(k, 0)), k.status # "error", NEW told_, NEW msg
  PROVE  Fine(ResumeReturns(St(Put(T, Last(c).thread, k), Lower(c, j), told_, "none"), msg))
<1> DEFINE t == Last(c).thread
           e == Lower(c, j)
           d == Lower(c, j - 1)
           w == Under(v, j - 1)
           q == [Jumping(k, 0) EXCEPT !.top = 0]
           S == Put(T, t, k)
           U == Put(T, t, q)
           s == St(S, e, told_, "none")
           g == PopC(s)
           r == Last(e)
           back == [g EXCEPT !.threads[r.thread].errorJmp = r.previous, !.threads[r.thread].top = 0]
           what == IF r.how = "resume" THEN "true" ELSE "returned"
<1>1. /\ T \in [Threads -> LuaState] /\ c \in Seq(Record) /\ t \in Threads /\ Good(T, c, v)
  BY Runner DEF Ready
<1>2. c[j].thread = t /\ c[j].previous = 0 /\ j > 1 /\ j - 1 \in 0..j /\ j \in 0..Len(c) /\ j \in Nat \ {0}
  <2>1. c[j].thread = t
    <3>1. j \in j..Len(c)
      BY <1>1, LenProperties
    <3> QED
      BY <3>1
  <2>2. c[j].previous = 0 /\ j > 1
    BY <2>1, RecordOf
  <2>3. Len(c) \in Nat
    BY <1>1, LenProperties
  <2> QED
    BY <2>1, <2>2, <2>3
<1>3. e \in Seq(Record) /\ Len(e) = j /\ e # <<>> /\ r = c[j]
  <2>1. e \in Seq(Record) /\ Len(e) = j /\ \A i \in 1..j : e[i] = c[i]
    BY <1>1, <1>2, LowerPart
  <2> HIDE DEF e
  <2>2. e # <<>> /\ Last(e) = e[j] /\ j \in 1..j
    BY <1>2, <2>1, RecordsOfStack
  <2> QED
    BY <2>1, <2>2
<1>4. S \in [Threads -> LuaState] /\ S[t] = k
  BY <1>1 DEF Put
<1>5. g = St(S, d, told_, "none")
  <2>1. g = St(S, Lower(e, j - 1), told_, "none")
    <3> HIDE DEF e, S
    <3> QED
      BY <1>3, <1>4, PopCIs
  <2>2. Lower(e, j - 1) = d
    BY <1>1, <1>2, LowerTwice
  <2> QED
    BY <2>1, <2>2
<1>6. /\ q \in LuaState /\ Rests(q) /\ q.status = k.status /\ q.nCcalls = 0
  <2>1. q.status # "error" /\ q.ci = k.ci /\ q.size_ci = k.size_ci
    BY DEF LuaState, Jumping
  <2> QED
    BY <2>1 DEF LuaState, Jumping, Rests
<1>7. back = St(U, d, told_, "none")
  <2>1. r.thread = t /\ r.previous = 0
    BY <1>2, <1>3
  <2> HIDE DEF g, d, r
  <2>2. [g EXCEPT !.threads[t].errorJmp = 0, !.threads[t].top = 0] \in One(U, d, told_, "none")
    BY <1>5 DEF St, One, Put, Jumping
  <2> QED
    BY <2>1, <2>2, Only
<1>8. U \in [Threads -> LuaState] /\ U[t] = q /\ \A u \in Threads \ {t} : U[u] = T[u]
  BY <1>1, <1>6 DEF Put
<1>9. ResumeReturns(s, msg) = Tell(PopCi(back), what, msg)
  <2>1. s.cstack = e
    BY DEF St
  <2> QED
    BY <2>1 DEF ResumeReturns
<1>10. Limited(U, Threads)
  <2>1. 0 < MaxCCalls + ExtraCCalls
    BY LimitsAssumption
  <2> QED
    BY <1>1, <1>6, <1>8, <2>1 DEF Limited
<1> SUFFICES Fine(Tell(PopCi(back), what, msg))
  BY <1>9
<1> HIDE DEF s, g, back, U, q, d, w, what
<1>11. /\ j - 1 \in 1..Len(c) /\ Good(U, d, w) /\ Last(d) = c[j - 1] /\ c[j - 1].k = "execute"
       /\ Len(U[c[j - 1].thread].ci) = v[j - 1] + 1
  <2>1. Is(c, j, t, "resume") /\ Rests(U[t])
    BY <1>2, <1>6, <1>8 DEF Is
  <2> HIDE DEF t
  <2>2. \A i \in j..Len(c) : c[i].thread = t
    BY DEF t
  <2> QED
    BY <1>1, <1>8, <2>1, <2>2, Left DEF d, w
<1>12. Len(d) = j - 1 /\ d # <<>>
  <2>1. j - 1 \in 0..Len(c) /\ j - 1 # 0
    BY <1>2
  <2> QED
    BY <1>1, <2>1, LowerPart DEF d
<1>13. w[Len(d)] = v[j - 1] /\ Height(U, d) = w[Len(d)] + 1
  <2>1. j - 1 \in 1..j - 1
    BY <1>2
  <2> QED
    BY <1>11, <1>12, <2>1 DEF w, Under, Height
<1>14. Ready(U, d, w)
  BY <1>11, <1>12, <1>13 DEF Ready, Loose
<1>15. Fine(St(Put(U, Last(d).thread, Popped(U[Last(d).thread])), d, <<what, msg>>, "none"))
  BY <1>10, <1>11, <1>13, <1>14, ReturnsFromC
<1>16. Last(d).thread \in Threads
  BY <1>14, Runner
<1>17. PopCi(back) = St(Put(U, Last(d).thread, Popped(U[Last(d).thread])), d, told_, "none")
  BY <1>7, <1>8, <1>16, PopCiIs
<1> QED
  BY <1>15, <1>17, TellIs

(* luaV_execute has run the function that it was called for.               *)
LEMMA ExecuteReturnsFine ==
  ASSUME NEW T, NEW c, NEW v, Ready(T, c, v), Limited(T, Threads), Steady(T, c, v), NEW told_,
         Last(c).nexeccalls = 1
  PROVE  Fine(ExecuteReturns(PopCi(St(T, c, told_, "none"))))
<1> DEFINE t == Last(c).thread
           n == Len(c)
           m == n - 1
           l == T[t]
           k == Popped(l)
           U == Put(T, t, k)
           d == Lower(c, m)
           w == Under(v, m)
           g == PopCi(St(T, c, told_, "none"))
           b == PopC(g)
<1>1. /\ T \in [Threads -> LuaState] /\ c \in Seq(Record) /\ t \in Threads /\ n \in Nat \ {0}
      /\ Last(c) = c[n] /\ c # <<>> /\ l \in LuaState /\ Sound(l) /\ CountsAre(c, t, n, l)
      /\ Level(l.ci, c, v, n) /\ n \in 1..Len(c) /\ v[n] \in Nat \ {0}
      /\ m + 1 = n /\ m \in Nat /\ Good(T, c, v)
  BY Runner DEF Ready
<1>2. Len(l.ci) = v[n] /\ c[n].k = "execute"
  BY <1>1 DEF Steady, Height
<1>3. n # 1 /\ c[m].thread = t /\ v[m] \in Nat \ {0} /\ m \in 1..Len(c)
  <2>1. n = 1 => c[n].k = "pcall"
    BY <1>1, RecordOf
  <2>2. c[n].k # "resume" /\ n # 1 => c[n - 1].thread = t /\ v[n - 1] \in Nat \ {0} /\ n - 1 \in 1..Len(c)
    BY <1>1, RecordOf
  <2> QED
    BY <1>1, <1>2, <2>1, <2>2
<1>4. v[n] = v[m] + 1 /\ c[m].k \in {"call", "resume"}
  BY <1>1, <1>2, <1>3 DEF Level
<1>5. Len(l.ci) > 1 /\ Len(l.ci) - 1 = v[m]
  <2> HIDE DEF l, m, n
  <2> QED
    BY <1>2, <1>3, <1>4
<1>6. /\ k \in LuaState /\ Sound(k) /\ Len(k.ci) = v[m] /\ \A i \in 1..v[m] : k.ci[i] = l.ci[i]
      /\ k.nCcalls = l.nCcalls /\ k.allowhook = l.allowhook
      /\ k.errfunc = l.errfunc /\ k.errorJmp = l.errorJmp /\ k.status = l.status
  BY <1>1, <1>5, PoppedIs
<1> HIDE DEF k
<1>7. CountsAre(c, t, m, k)
  <2>1. c[m + 1].thread = t /\ c[m + 1].k = "execute" /\ CountsAre(c, t, m + 1, k)
    BY <1>1, <1>2, <1>6 DEF CountsAre
  <2> HIDE DEF m, t
  <2> QED
    BY <1>1, <2>1, CountsOfFrame DEF CountsAre
<1>8. b = St(U, d, told_, "none")
  <2>1. g = St(U, c, told_, "none")
    BY <1>1, PopCiIs DEF k
  <2>2. U \in [Threads -> LuaState]
    BY <1>1, <1>6 DEF Put
  <2> HIDE DEF U, g
  <2> QED
    BY <1>1, <2>1, <2>2, PopCIs
<1>9. Limited(U, Threads)
  BY <1>1, <1>6 DEF Limited, Put
<1>10. /\ \A i \in m..Len(c) : c[i].thread = t
       /\ d \in Seq(Record) /\ Len(d) = m /\ d # <<>> /\ Last(d) = c[m]
  <2>1. \A i \in m..Len(c) : c[i].thread = t
    BY <1>1, <1>3
  <2>2. m \in 0..Len(c) /\ m # 0 /\ m \in 1..m
    BY <1>3
  <2> HIDE DEF m
  <2>3. d \in Seq(Record) /\ Len(d) = m /\ d # <<>> /\ d[m] = c[m]
    BY <1>1, <2>2, LowerPart
  <2> QED
    BY <2>1, <2>3, RecordsOfStack
<1>11. ExecuteReturns(g) = IF Last(b.cstack).k = "resume" THEN ResumeReturns(b, "none") ELSE CallReturns(b)
  BY DEF ExecuteReturns
<1>12. b.cstack = d
  BY <1>8 DEF St
<1> SUFFICES Fine(ExecuteReturns(g))
  OBVIOUS
<1> HIDE DEF b, g, d, w, U
<1>13. CASE c[m].k = "resume"
  <2>1. ExecuteReturns(g) = ResumeReturns(St(U, d, told_, "none"), "none")
    BY <1>8, <1>10, <1>11, <1>12, <1>13
  <2>2. Rests(Jumping(k, 0)) /\ k.status # "error"
    <3>1. v[m] = 1
      <4>1. Level(T[t].ci, c, v, m)
        BY <1>1, <1>3, RecordOf
      <4> QED
        BY <1>13, <4>1 DEF Level
    <3>2. k.nCcalls = 0 /\ k.allowhook = TRUE /\ k.errfunc = FALSE
      <4> DEFINE p == m - 1
      <4>1. p \in Nat /\ p + 1 = m
        BY <1>3
      <4>2. Is(c, p + 1, t, "resume") /\ \A i \in 1..p : c[i].thread # t
        <5>1. c[m].thread = t /\ m \in DOMAIN c /\ \A i \in 1..m - 1 : c[i].thread # c[m].thread
          BY <1>1, <1>3, <1>13, RecordsOfStack DEF Good, Nested
        <5> QED
          BY <1>13, <4>1, <5>1 DEF Is
      <4>3. Counts(c, t, p + 1, k.errorJmp, k.nCcalls, k.allowhook, k.errfunc)
        BY <1>7, <4>1 DEF CountsAre
      <4> HIDE DEF p, t
      <4> DEFINE jmp == k.errorJmp
                 calls == k.nCcalls
                 hook == k.allowhook
                 handler == k.errfunc
      <4>4. Counts(c, t, p + 1, jmp, calls, hook, handler)
        BY <4>3
      <4>5. p \in Nat
        BY <4>1
      <4> HIDE DEF jmp, calls, hook, handler
      <4>6. calls = 0
        BY <4>2, <4>4, <4>5, CountsOfResume
      <4>7. hook = TRUE
        BY <4>2, <4>4, <4>5, CountsOfResume
      <4>8. handler = FALSE
        BY <4>2, <4>4, <4>5, CountsOfResume
      <4> QED
        BY <4>6, <4>7, <4>8 DEF calls, hook, handler
    <3>3. Jumping(k, 0) = [k EXCEPT !.errorJmp = 0]
      BY DEF Jumping
    <3> QED
      BY <1>6, <3>1, <3>2, <3>3, ZenonT(60) DEF Rests, Sound, LuaState
  <2>3. Fine(ResumeReturns(St(U, d, told_, "none"), "none"))
    <3> HIDE DEF m
    <3> QED
      BY <1>3, <1>6, <1>10, <1>13, <2>2, Leaves DEF U, d
  <2> QED
    BY <2>1, <2>3
<1>14. CASE c[m].k = "call"
  <2>1. ExecuteReturns(g) = CallReturns(St(U, d, told_, "none"))
    BY <1>8, <1>10, <1>11, <1>12, <1>14
  <2>2. Ready(U, d, w) /\ Height(U, d) = v[m] /\ w[Len(d)] = v[m]
    <3>1. /\ \A i \in m..Len(c) : c[i].thread = Last(c).thread
          /\ CountsAre(c, Last(c).thread, m, k)
          /\ Len(k.ci) \in {v[m], v[m] + 1}
          /\ \A j \in 1..v[m] : k.ci[j] = T[Last(c).thread].ci[j]
      BY <1>6, <1>7, <1>10
    <3> HIDE DEF m, n
    <3>2. LET W == Put(T, Last(c).thread, k)
              e == Lower(c, m)
              x == Under(v, m)
          IN /\ Ready(W, e, x) /\ Len(e) = m /\ Last(e) = c[m] /\ Last(e).thread = Last(c).thread
             /\ Height(W, e) = Len(k.ci) /\ x[Len(e)] = v[m]
      BY <1>3, <1>6, <3>1, GoesOn, SMTT(60)
    <3> QED
      BY <1>6, <3>2 DEF U, d, w
  <2>3. Fine(CallReturns(St(U, d, told_, "none")))
    BY <1>9, <1>10, <1>14, <2>2, CallReturnsFine
  <2> QED
    BY <2>1, <2>3
<1> QED
  BY <1>4, <1>13, <1>14

(* luaD_pcall.                                                             *)
LEMMA DPcallFine ==
  ASSUME NEW T, NEW c, NEW v, Ready(T, c, v), Limited(T, Threads), Last(c).k = "execute",
         Height(T, c) = v[Len(c)] + 1, NEW told_, NEW ef \in BOOLEAN
  PROVE  Fine(DPcall(St(T, c, told_, "none"), ef))
<1> DEFINE t == Last(c).thread
           n == Len(c)
           h == T[t]
           r == [k |-> "pcall", thread |-> t, ci |-> Len(h.ci), nCcalls |-> h.nCcalls,
                 allowhook |-> h.allowhook, errfunc |-> h.errfunc, ef |-> ef, previous |-> h.errorJmp]
           l == [h EXCEPT !.errorJmp = n + 1, !.errfunc = ef]
           U == Put(T, t, l)
           d == Append(c, r)
           x == v[n] + 1
           w == Above(v, n, x)
           s == St(T, c, told_, "none")
           p == RunProtected(s, t, PcallRecord(s, ef))
           q == [p EXCEPT !.threads[t].errfunc = ef]
<1>1. /\ T \in [Threads -> LuaState] /\ c \in Seq(Record) /\ t \in Threads /\ n \in Nat \ {0}
      /\ Last(c) = c[n] /\ c # <<>> /\ h \in LuaState /\ Sound(h) /\ CountsAre(c, t, n, h)
      /\ v[n] \in Nat \ {0} /\ Len(h.ci) = x
  BY Runner DEF Ready, Height
<1>2. x \in Nat /\ v[n] <= x
  BY <1>1
<1>3. /\ h.errorJmp \in Nat /\ h.nCcalls \in 0..MaxCCalls + ExtraCCalls /\ h.nCcalls \in Nat
      /\ h.allowhook \in BOOLEAN /\ h.errfunc \in BOOLEAN /\ h.nCcalls < MaxCCalls + ExtraCCalls
  <2>1. h.nCcalls \in 0..MaxCCalls + ExtraCCalls /\ MaxCCalls + ExtraCCalls \in Nat
    BY <1>1, LimitsAssumption, SMTT(60) DEF LuaState
  <2>2. h.status # "error"
    BY <1>1 DEF Sound
  <2>3. h.nCcalls < MaxCCalls + ExtraCCalls
    BY <1>1, <2>2 DEF Limited
  <2> QED
    BY <1>1, <2>1, <2>3 DEF LuaState
<1>4. /\ l \in LuaState /\ Sound(l) /\ l.ci = h.ci /\ l.nCcalls = h.nCcalls /\ l.allowhook = h.allowhook
      /\ l.errfunc = ef /\ l.errorJmp = n + 1 /\ l.status = h.status
  <2>1. n + 1 \in Nat
    BY <1>1
  <2> HIDE DEF n, h
  <2> QED
    BY <1>1, <2>1 DEF LuaState, Sound
<1>5. /\ r \in Record /\ r.k = "pcall" /\ r.thread = t /\ r.ci = x /\ r.nCcalls = h.nCcalls /\ r.ef = ef
      /\ r.allowhook = h.allowhook /\ r.errfunc = h.errfunc /\ r.previous = h.errorJmp
  BY <1>1, <1>2, <1>3 DEF Record
<1>6. L(s) = t /\ State(s) = h
  BY DEF L, St, State
<1>7. q = St(U, d, told_, "none")
  <2> DEFINE e == [k |-> "pcall", thread |-> L(s), ci |-> Len(State(s).ci), nCcalls |-> State(s).nCcalls,
                   allowhook |-> State(s).allowhook, errfunc |-> State(s).errfunc, ef |-> ef, previous |-> 0]
  <2>1. PcallRecord(s, ef) = e
    BY DEF PcallRecord
  <2>2. [e EXCEPT !.previous = h.errorJmp] = r
    BY <1>6
  <2>3. s.threads[t].errorJmp = h.errorJmp /\ Len(s.cstack) = n
    BY DEF St
  <2>4. p = [s EXCEPT !.cstack = Append(@, r), !.threads[t].errorJmp = n + 1]
    BY <2>1, <2>2, <2>3 DEF RunProtected
  <2> HIDE DEF p, r, n
  <2>5. q \in One(U, d, told_, "none")
    BY <2>4 DEF St, One, Put
  <2> QED
    BY <2>5, Only
<1>8. DPcall(s, ef) = DCall(q, "entered", "none")
  BY <1>6 DEF DPcall
<1> SUFFICES Fine(DCall(q, "entered", "none"))
  BY <1>8
<1> HIDE DEF q, r, l, x
<1>9. CountsAre(d, t, n + 1, l)
  <2>1. n \in Nat /\ d[n + 1] = r /\ \A i \in 1..n : c[i] = d[i]
    BY <1>1, <1>5, OnTop
  <2> HIDE DEF d, t, n, h
  <2>2. Counts(d, t, n, h.errorJmp, h.nCcalls, h.allowhook, h.errfunc)
    BY <1>1, <2>1, CountsAgree DEF CountsAre
  <2>3. Is(d, n + 1, t, "pcall") /\ d[n + 1].ef \in BOOLEAN /\ d[n + 1].ef = ef
    BY <1>5, <2>1 DEF Is
  <2>4. Counts(d, t, n + 1, n + 1, h.nCcalls, h.allowhook, d[n + 1].ef)
    BY <2>1, <2>2, <2>3, CountsOfPcall
  <2> QED
    BY <1>4, <2>3, <2>4 DEF CountsAre
<1>10. SavedAt(c, n, r)
  <2> HIDE DEF t, n, h
  <2> QED
    BY <1>1, <1>3, <1>5 DEF SavedAt, CountsAre
<1>11. /\ Ready(U, d, w) /\ Last(d) = r /\ w[Len(d)] = x /\ Height(U, d) = x
  <2>1. FitsOn(l.ci, Last(c).k, v[n], r, x)
    BY <1>5 DEF FitsOn, x
  <2>2. Len(l.ci) = x /\ Len(l.ci) \in {x, x + 1} /\ l.ci = T[r.thread].ci /\ r.k # "resume" /\ r.thread = Last(c).thread
    BY <1>1, <1>4, <1>5
  <2> HIDE DEF d, w, h
  <2> QED
    BY <1>2, <1>4, <1>5, <1>9, <1>10, <2>1, <2>2, Pushes DEF d, w
<1>12. Limited(U, Threads)
  BY <1>1, <1>4 DEF Limited, Put
<1>13. Fine(DCall(St(U, d, told_, "none"), "entered", "none"))
  <2> HIDE DEF U, d, w
  <2> QED
    BY <1>5, <1>11, <1>12, DCallFine
<1> QED
  BY <1>7, <1>13

(* luaD_callhook.                                                          *)
LEMMA CallHookFine ==
  ASSUME NEW T, NEW c, NEW v, Ready(T, c, v), Limited(T, Threads), Steady(T, c, v), NEW told_,
         T[Last(c).thread].allowhook
  PROVE  LET s == St(T, c, told_, "none")
         IN Fine(DCall([s EXCEPT !.cstack = Append(@, [k |-> "hook", thread |-> L(s)]),
                                 !.threads[L(s)].allowhook = FALSE], "entered", "none"))
<1> DEFINE t == Last(c).thread
           n == Len(c)
           h == T[t]
           r == [k |-> "hook", thread |-> t]
           l == [h EXCEPT !.allowhook = FALSE]
           U == Put(T, t, l)
           d == Append(c, r)
           x == v[n]
           w == Above(v, n, x)
           s == St(T, c, told_, "none")
           q == [s EXCEPT !.cstack = Append(@, [k |-> "hook", thread |-> L(s)]),
                          !.threads[L(s)].allowhook = FALSE]
<1>1. /\ T \in [Threads -> LuaState] /\ c \in Seq(Record) /\ t \in Threads /\ n \in Nat \ {0}
      /\ Last(c) = c[n] /\ c # <<>> /\ h \in LuaState /\ Sound(h) /\ CountsAre(c, t, n, h)
      /\ x \in Nat \ {0} /\ Len(h.ci) = x /\ Last(c).k = "execute"
  BY Runner DEF Ready, Height, Steady
<1>2. /\ l \in LuaState /\ Sound(l) /\ l.ci = h.ci /\ l.nCcalls = h.nCcalls /\ l.allowhook = FALSE
      /\ l.errfunc = h.errfunc /\ l.errorJmp = h.errorJmp /\ l.status = h.status
  BY <1>1 DEF LuaState, Sound
<1>3. r \in Record /\ r.k = "hook" /\ r.thread = t
  BY <1>1 DEF Record
<1>4. L(s) = t
  BY DEF L, St
<1>5. q = St(U, d, told_, "none")
  <2>1. q \in One(U, d, told_, "none")
    BY <1>4 DEF St, One, Put
  <2> QED
    BY <2>1, Only
<1> SUFFICES Fine(DCall(q, "entered", "none"))
  OBVIOUS
<1> HIDE DEF q, r, l, x
<1>6. CountsAre(d, t, n + 1, l)
  <2>1. n \in Nat /\ d[n + 1] = r /\ \A i \in 1..n : c[i] = d[i]
    BY <1>1, <1>3, OnTop
  <2> HIDE DEF d, t, n, h
  <2>2. Counts(d, t, n, h.errorJmp, h.nCcalls, h.allowhook, h.errfunc)
    BY <1>1, <2>1, CountsAgree DEF CountsAre
  <2>3. Is(d, n + 1, t, "hook")
    BY <1>3, <2>1 DEF Is
  <2>4. Counts(d, t, n + 1, h.errorJmp, h.nCcalls, FALSE, h.errfunc)
    BY <2>1, <2>2, <2>3, CountsOfHook
  <2> QED
    BY <1>2, <2>4 DEF CountsAre
<1>7. SavedAt(c, n, r)
  <2>1. Hookable(c, t, n)
    BY <1>1 DEF CountsAre, Counts
  <2> QED
    BY <1>3, <2>1 DEF SavedAt
<1>8. /\ Ready(U, d, w) /\ Last(d) = r /\ w[Len(d)] = x /\ Height(U, d) = x
  <2>1. FitsOn(l.ci, Last(c).k, v[n], r, x)
    BY <1>1, <1>3 DEF FitsOn, x
  <2>2. /\ Len(l.ci) = x /\ Len(l.ci) \in {x, x + 1} /\ l.ci = T[r.thread].ci /\ r.k # "resume"
        /\ r.thread = Last(c).thread /\ x \in Nat /\ v[Len(c)] <= x
    BY <1>1, <1>2, <1>3 DEF x
  <2> HIDE DEF d, w, h
  <2> QED
    BY <1>2, <1>3, <1>6, <1>7, <2>1, <2>2, Pushes DEF d, w
<1>9. Limited(U, Threads)
  BY <1>1, <1>2 DEF Limited, Put
<1>10. Fine(DCall(St(U, d, told_, "none"), "entered", "none"))
  <2> HIDE DEF U, d, w
  <2> QED
    BY <1>3, <1>8, <1>9, DCallFine
<1> QED
  BY <1>5, <1>10

(* luaG_errormsg.                                                          *)
LEMMA ErrorMsgFine ==
  ASSUME NEW T, NEW c, NEW v, Ready(T, c, v), Limited(T, Threads), NEW told_, NEW msg, msg # "none"
  PROVE  LET s == St(T, c, told_, "none")
         IN /\ Fine(Throw(s, msg))
            /\ Fine(DCall([s EXCEPT !.cstack = Append(@, [k |-> "errormsg", thread |-> L(s)])],
                          "handles", msg))
<1> DEFINE t == Last(c).thread
           n == Len(c)
           h == T[t]
           r == [k |-> "errormsg", thread |-> t]
           d == Append(c, r)
           x == Len(h.ci)
           w == Above(v, n, x)
           s == St(T, c, told_, "none")
           q == [s EXCEPT !.cstack = Append(@, [k |-> "errormsg", thread |-> L(s)])]
<1>1. /\ T \in [Threads -> LuaState] /\ c \in Seq(Record) /\ t \in Threads /\ n \in Nat \ {0}
      /\ Last(c) = c[n] /\ c # <<>> /\ h \in LuaState /\ Sound(h) /\ CountsAre(c, t, n, h)
      /\ v[n] \in Nat \ {0} /\ x \in Nat \ {0} /\ v[n] <= x /\ x \in {v[n], v[n] + 1}
  BY Runner DEF Ready
<1>2. Put(T, t, h) = T
  BY <1>1 DEF Put
<1>3. r \in Record /\ r.k = "errormsg" /\ r.thread = t
  BY <1>1 DEF Record
<1>4. L(s) = t
  BY DEF L, St
<1>5. q = St(T, d, told_, "none")
  <2>1. q \in One(T, d, told_, "none")
    BY <1>4 DEF St, One
  <2> QED
    BY <2>1, Only
<1>a. Fine(Throw(s, msg))
  <2>1. Limited(T, Threads \ {Last(c).thread})
    BY DEF Limited
  <2> QED
    BY <2>1, ThrowFine
<1> SUFFICES Fine(DCall(q, "handles", msg))
  BY <1>a
<1> HIDE DEF q, r, x
<1>6. CountsAre(d, t, n + 1, h)
  <2>1. n \in Nat /\ d[n + 1] = r /\ \A i \in 1..n : c[i] = d[i]
    BY <1>1, <1>3, OnTop
  <2> HIDE DEF d, t, n, h
  <2>2. CountsAre(d, t, n, h)
    BY <1>1, <2>1, CountsAgree DEF CountsAre
  <2> QED
    BY <1>3, <2>1, <2>2, CountsOfFrame DEF CountsAre
<1>7. SavedAt(c, n, r)
  BY <1>3 DEF SavedAt
<1>8. /\ Ready(T, d, w) /\ Last(d) = r /\ w[Len(d)] = x /\ Height(T, d) = x
  <2>1. FitsOn(h.ci, Last(c).k, v[n], r, x)
    BY <1>1, <1>3 DEF FitsOn
  <2>2. /\ Len(h.ci) = x /\ Len(h.ci) \in {x, x + 1} /\ h.ci = T[r.thread].ci /\ r.k # "resume"
        /\ r.thread = Last(c).thread /\ x \in Nat /\ v[Len(c)] <= x
    BY <1>1, <1>3 DEF x
  <2> HIDE DEF d, w, h
  <2> QED
    BY <1>1, <1>2, <1>3, <1>6, <1>7, <2>1, <2>2, Pushes DEF d, w
<1>9. Fine(DCall(St(T, d, told_, "none"), "handles", msg))
  <2> HIDE DEF d, w
  <2> QED
    BY <1>3, <1>8, DCallFine
<1> QED
  BY <1>5, <1>9

(* Without a call of C there is only what the resume has started.          *)
AllLua(ci, m, n) == \A j \in m..n : ci[j] = "lua"

LEMMA OnTheResume ==
  ASSUME NEW T, NEW c, NEW v, Ready(T, c, v), Last(c).k = "execute",
         T[Last(c).thread].nCcalls = 0
  PROVE  /\ Len(c) - 1 \in 1..Len(c) /\ c[Len(c) - 1].k = "resume" /\ v[Len(c) - 1] = 1
         /\ \A i \in Len(c) - 1..Len(c) : c[i].thread = Last(c).thread
         /\ T[Last(c).thread].allowhook = TRUE /\ T[Last(c).thread].errfunc = FALSE
         /\ v[Len(c)] \in Nat \ {0, 1}
         /\ AllLua(T[Last(c).thread].ci, 2, v[Len(c)])
<1> DEFINE t == Last(c).thread
           n == Len(c)
           m == n - 1
           l == T[t]
<1>1. /\ T \in [Threads -> LuaState] /\ c \in Seq(Record) /\ t \in Threads /\ n \in Nat \ {0}
      /\ Last(c) = c[n] /\ c # <<>> /\ l \in LuaState /\ CountsAre(c, t, n, l)
      /\ Level(l.ci, c, v, n) /\ n \in 1..Len(c) /\ v[n] \in Nat \ {0}
      /\ m + 1 = n /\ m \in Nat /\ Good(T, c, v)
  BY Runner DEF Ready
<1>2. n # 1 /\ c[m].thread = t /\ v[m] \in Nat \ {0} /\ m \in 1..Len(c)
  <2>1. n = 1 => c[n].k = "pcall"
    BY <1>1, RecordOf
  <2>2. c[n].k # "resume" /\ n # 1 => c[n - 1].thread = t /\ v[n - 1] \in Nat \ {0} /\ n - 1 \in 1..Len(c)
    BY <1>1, RecordOf
  <2> QED
    BY <1>1, <2>1, <2>2
<1>3. /\ c[m].k \in {"call", "resume"} /\ c[n].nexeccalls \in Nat \ {0}
      /\ v[n] = v[m] + c[n].nexeccalls /\ \A i \in v[m] + 1..v[n] : l.ci[i] = "lua"
  BY <1>1, <1>2 DEF Level
<1>4. c[m].k # "call"
  <2>1. CallsOf(c, t, n) = {}
    <3>1. Cardinality(CallsOf(c, t, n)) = 0 /\ IsFiniteSet(CallsOf(c, t, n))
      BY <1>1, CallsAreFinite DEF CountsAre, Counts
    <3> QED
      BY <3>1, FS_EmptySet
  <2> QED
    BY <1>2, <2>1 DEF CallsOf, Is
<1>5. c[m].k = "resume"
  BY <1>3, <1>4
<1>6. v[m] = 1
  <2>1. Level(T[t].ci, c, v, m)
    BY <1>1, <1>2, RecordOf
  <2> QED
    BY <1>5, <2>1 DEF Level
<1>7. l.allowhook = TRUE /\ l.errfunc = FALSE
  <2> DEFINE p == m - 1
             jmp == l.errorJmp
             calls == l.nCcalls
             hook == l.allowhook
             handler == l.errfunc
  <2>1. p \in Nat /\ p + 1 = m
    BY <1>2
  <2>2. Is(c, p + 1, t, "resume") /\ \A i \in 1..p : c[i].thread # t
    <3>1. c[m].thread = t /\ m \in DOMAIN c /\ \A i \in 1..m - 1 : c[i].thread # c[m].thread
      BY <1>1, <1>2, <1>5, RecordsOfStack DEF Good, Nested
    <3> QED
      BY <1>5, <2>1, <3>1 DEF Is
  <2>3. Counts(c, t, m, jmp, calls, hook, handler)
    <3>1. c[m + 1].thread = t /\ c[m + 1].k = "execute" /\ CountsAre(c, t, m + 1, l)
      BY <1>1
    <3> HIDE DEF m, t, l
    <3> QED
      BY <1>1, <3>1, CountsOfFrame DEF CountsAre, l
  <2>4. Counts(c, t, p + 1, jmp, calls, hook, handler)
    BY <2>1, <2>3
  <2>5. p \in Nat
    BY <2>1
  <2> HIDE DEF p, t, jmp, calls, hook, handler
  <2>6. hook = TRUE
    BY <2>2, <2>4, <2>5, CountsOfResume
  <2>7. handler = FALSE
    BY <2>2, <2>4, <2>5, CountsOfResume
  <2> QED
    BY <2>6, <2>7 DEF hook, handler
<1>8. v[n] \in Nat \ {0, 1} /\ \A i \in 2..v[n] : l.ci[i] = "lua"
  <2> HIDE DEF m, n, l
  <2> QED
    BY <1>1, <1>3, <1>6
<1>9. \A i \in m..Len(c) : c[i].thread = t
  BY <1>1, <1>2
<1> QED
  BY <1>2, <1>5, <1>6, <1>7, <1>8, <1>9 DEF AllLua

(* lua_yield.                                                              *)
LEMMA YieldsFine ==
  ASSUME NEW T, NEW c, NEW v, Ready(T, c, v), Limited(T, Threads), Last(c).k = "execute",
         Height(T, c) = v[Len(c)] + 1, NEW told_
  PROVE  Fine(Yields(St(T, c, told_, "none")))
<1> DEFINE t == Last(c).thread
           n == Len(c)
           m == n - 1
           l == T[t]
           k == [l EXCEPT !.status = "yield"]
           s == St(T, c, told_, "none")
           q == [s EXCEPT !.threads[L(s)].status = "yield"]
           U == Put(T, t, k)
           d == Lower(c, m)
<1>1. /\ T \in [Threads -> LuaState] /\ c \in Seq(Record) /\ t \in Threads /\ n \in Nat \ {0}
      /\ c # <<>> /\ l \in LuaState /\ Sound(l) /\ Len(l.ci) = v[n] + 1
  BY Runner DEF Ready, Height
<1>2. L(s) = t /\ State(s) = l
  BY DEF L, St, State
<1>3. CASE l.nCcalls > 0
  <2>1. Yields(s) = Raise(s, "yield")
    BY <1>2, <1>3 DEF Yields
  <2>2. Fine(Raise(s, "yield"))
    BY RaiseFine
  <2> QED
    BY <2>1, <2>2
<1>4. CASE ~(l.nCcalls > 0)
  <2>1. l.nCcalls = 0
    <3>1. l.nCcalls \in 0..MaxCCalls + ExtraCCalls
      BY <1>1 DEF LuaState
    <3> HIDE DEF l
    <3> QED
      BY <1>4, <3>1
  <2>2. /\ m \in 1..Len(c) /\ c[m].k = "resume" /\ \A i \in m..Len(c) : c[i].thread = t
        /\ l.allowhook = TRUE /\ l.errfunc = FALSE
        /\ v[n] \in Nat \ {0, 1} /\ \A i \in 2..v[n] : l.ci[i] = "lua"
    <3>a. m \in 1..Len(c) /\ c[m].k = "resume"
      BY <2>1, OnTheResume
    <3>b. \A i \in m..Len(c) : c[i].thread = t
      BY <2>1, OnTheResume
    <3>c. v[n] \in Nat \ {0, 1}
      BY <2>1, OnTheResume
    <3>d. \A i \in 2..v[n] : l.ci[i] = "lua"
      <4>1. AllLua(l.ci, 2, v[n])
        BY <2>1, OnTheResume
      <4> QED
        BY <4>1 DEF AllLua
    <3>1. /\ m \in 1..Len(c) /\ c[m].k = "resume" /\ \A i \in m..Len(c) : c[i].thread = t
          /\ v[n] \in Nat \ {0, 1} /\ \A i \in 2..v[n] : l.ci[i] = "lua"
      BY <3>a, <3>b, <3>c, <3>d
    <3>2. l.allowhook = TRUE
      BY <2>1, OnTheResume
    <3>3. l.errfunc = FALSE
      BY <2>1, OnTheResume
    <3> QED
      BY <3>1, <3>2, <3>3
  <2>3. /\ k \in LuaState /\ k.ci = l.ci /\ k.status = "yield" /\ k.nCcalls = 0 /\ k.size_ci = l.size_ci
        /\ k.allowhook = TRUE /\ k.errfunc = FALSE
    BY <1>1, <2>1, <2>2 DEF LuaState
  <2>4. Rests(Jumping(k, 0))
    <3> DEFINE j == Jumping(k, 0)
    <3>1. /\ j.ci = l.ci /\ j.status = "yield" /\ j.nCcalls = 0 /\ j.size_ci = l.size_ci
          /\ j.allowhook = TRUE /\ j.errfunc = FALSE /\ j.errorJmp = 0
      BY <2>3 DEF Jumping, LuaState
    <3> HIDE DEF j
    <3>2. Len(l.ci) > 2 /\ \A i \in 2..Len(l.ci) - 1 : l.ci[i] = "lua"
      <4> HIDE DEF n, l
      <4>1. Len(l.ci) - 1 = v[n] /\ Len(l.ci) > 2
        BY <1>1, <2>2
      <4> QED
        BY <2>2, <4>1
    <3>3. Rests(j)
      BY <1>1, <3>1, <3>2 DEF Rests, Sound
    <3> QED
      BY <3>3 DEF j
  <2>5. q = St(U, c, told_, "none")
    <3>1. q \in One(U, c, told_, "none")
      BY <1>2 DEF St, One, Put
    <3> QED
      BY <3>1, Only
  <2>6. PopC(q) = St(U, d, told_, "none")
    <3>1. U \in [Threads -> LuaState]
      BY <1>1, <2>3 DEF Put
    <3> HIDE DEF U, q
    <3> QED
      BY <1>1, <2>5, <3>1, PopCIs
  <2>7. Yields(s) = ResumeReturns(PopC(q), "yielded")
    BY <1>2, <1>4 DEF Yields
  <2>8. Fine(ResumeReturns(St(U, d, told_, "none"), "yielded"))
    <3> HIDE DEF m, k, n
    <3> QED
      BY <2>2, <2>3, <2>4, Leaves
  <2> QED
    BY <2>6, <2>7, <2>8
<1> QED
  BY <1>3, <1>4

(* A coroutine that can be resumed has nothing on the stack.               *)
Startable(l) == l.status = "yield" \/ (l.status = "ok" /\ Len(l.ci) = 1)
Absent(c, t) == \A i \in 1..Len(c) : c[i].thread # t
AtRest(l) == l.errorJmp = 0 /\ l.nCcalls = 0 /\ l.allowhook = TRUE /\ l.errfunc = FALSE

LEMMA Suspended ==
  ASSUME NEW T, NEW c, NEW v, Ready(T, c, v), Height(T, c) = v[Len(c)] + 1,
         NEW co \in Threads \ {Main}, Startable(T[co])
  PROVE  /\ Absent(c, co) /\ AtRest(T[co])
         /\ T[co].status = "yield" =>
              Len(T[co].ci) > 2 /\ AllLua(T[co].ci, 2, Len(T[co].ci) - 1)
<1> DEFINE n == Len(c)
           l == T[co]
<1>1. /\ T \in [Threads -> LuaState] /\ c \in Seq(Record) /\ n \in Nat \ {0} /\ DOMAIN c = 1..n
      /\ v[n] \in Nat \ {0} /\ Good(T, c, v)
  BY Runner DEF Ready
<1>2. ASSUME NEW i \in 1..n PROVE c[i].thread # co
  <2>1. i \in DOMAIN c
    BY <1>1
  <2>2. T[c[i].thread].status = "ok"
    BY <1>1, <2>1 DEF Good, Alive
  <2>3. Len(T[c[i].thread].ci) # 1
    <3>0. Len(T[c[i].thread].ci) \in Nat
      <4>1. c[i].thread \in Threads
        BY <1>1, RecordsOfStack DEF Good
      <4>2. T[c[i].thread].ci \in Seq(CiKinds)
        BY <1>1, <4>1 DEF LuaState
      <4> QED
        BY <4>2, LenProperties
    <3>1. CASE c[i].thread = Last(c).thread
      <4>1. Len(T[c[i].thread].ci) = v[n] + 1
        BY <3>1 DEF Height
      <4> HIDE DEF n
      <4> QED
        BY <1>1, <4>1
    <3>2. CASE c[i].thread # Last(c).thread
      <4>1. Len(T[c[i].thread].ci) > 1
        BY <1>1, <2>1, <3>2 DEF Good, Waiting
      <4>2. \A a \in Nat : a > 1 => a # 1
        OBVIOUS
      <4> QED
        BY <3>0, <4>1, <4>2
    <3> QED
      BY <3>1, <3>2
  <2> QED
    BY <2>2, <2>3 DEF Startable
<1>3. l.status = "yield" => Len(l.ci) > 2 /\ \A j \in 2..Len(l.ci) - 1 : l.ci[j] = "lua"
  BY <1>1, <1>2 DEF Good, Idle
<1>4. AtRest(l)
  <2>0. l.status # "error"
    BY DEF Startable
  <2>1. Counts(c, co, n, l.errorJmp, l.nCcalls, l.allowhook, l.errfunc)
    BY <1>1, <2>0 DEF Good, Counted
  <2>2. l.errorJmp = 0
    BY <1>2, <2>1 DEF Counts, Innermost, Jump
  <2>3. CallsOf(c, co, n) = {}
    BY <1>2 DEF CallsOf, Is
  <2>4. l.nCcalls = 0
    BY <2>1, <2>3, FS_EmptySet DEF Counts
  <2>5. Hookable(c, co, n) = TRUE
    BY <1>2 DEF Hookable, Is
  <2>6. Handled(c, co, n) = FALSE
    BY <1>2 DEF Handled, Is
  <2> QED
    BY <2>1, <2>2, <2>4, <2>5, <2>6 DEF Counts, AtRest
<1> QED
  BY <1>2, <1>3, <1>4 DEF Absent, AllLua

(* lua_resume of a thread that has nothing on the stack.                   *)
Resumed(l, j, ci) == [l EXCEPT !.errorJmp = j, !.status = "ok", !.ci = ci]
ResumeRecord(co, how) == [k |-> "resume", thread |-> co, how |-> how, previous |-> 0]

LEMMA ResumeReady ==
  ASSUME NEW T, NEW c, NEW v, Ready(T, c, v), Limited(T, Threads), Last(c).k = "execute",
         Height(T, c) = v[Len(c)] + 1, NEW co \in Threads \ {Main}, NEW how \in {"resume", "wrap"},
         Absent(c, co), AtRest(T[co]), NEW ci \in Seq(CiKinds), ci # <<>>, ci[1] = "base", Len(ci) <= T[co].size_ci
  PROVE  LET l == Resumed(T[co], Len(c) + 1, ci)
             r == ResumeRecord(co, how)
             U == Put(T, co, l)
             d == Append(c, r)
             w == Above(v, Len(c), 1)
         IN /\ Good(U, d, w) /\ Limited(U, Threads)
            /\ d # <<>> /\ Last(d) = r /\ Len(d) = Len(c) + 1 /\ w[Len(d)] = 1 /\ U[co] = l
            /\ r.thread = co /\ r.k = "resume" /\ d \in Seq(Record)
            /\ l.ci = ci /\ l \in LuaState /\ U \in [Threads -> LuaState]
<1> DEFINE n == Len(c)
           h == T[co]
           l == Resumed(h, n + 1, ci)
           r == ResumeRecord(co, how)
           U == Put(T, co, l)
           d == Append(c, r)
           w == Above(v, n, 1)
<1>1. /\ T \in [Threads -> LuaState] /\ c \in Seq(Record) /\ n \in Nat \ {0} /\ Last(c) = c[n]
      /\ c # <<>> /\ Good(T, c, v) /\ v[n] \in Nat \ {0} /\ h \in LuaState /\ co \in Threads
  BY Runner DEF Ready
<1>2. h.size_ci \in 2..2 * MaxCalls
  BY <1>1 DEF Good, CiFits
<1>3. /\ l \in LuaState /\ l.ci = ci /\ l.nCcalls = 0 /\ l.allowhook = TRUE /\ l.errfunc = FALSE
      /\ l.errorJmp = n + 1 /\ l.status = "ok" /\ l.size_ci = h.size_ci
  <2>1. n + 1 \in Nat
    BY <1>1
  <2> HIDE DEF n, h
  <2>2. /\ l \in LuaState /\ l.ci = ci /\ l.nCcalls = h.nCcalls /\ l.allowhook = h.allowhook
        /\ l.errfunc = h.errfunc
        /\ l.errorJmp = n + 1 /\ l.status = "ok" /\ l.size_ci = h.size_ci
    BY <1>1, <2>1 DEF LuaState, Resumed
  <2> HIDE DEF l
  <2> QED
    BY <2>2 DEF h, AtRest
<1>4. r \in Record /\ r.k = "resume" /\ r.thread = co /\ r.previous = 0
  BY DEF Record, ResumeRecord
<1> HIDE DEF r, l
<1>5. /\ d # <<>> /\ Last(d) = r /\ Len(d) = n + 1 /\ d \in Seq(Record) /\ d[n + 1] = r
      /\ \A i \in 1..n : d[i] = c[i]
  BY <1>1, <1>4, OnTop
<1>6. w[n + 1] = 1
  BY <1>1 DEF Above
<1>7. U \in [Threads -> LuaState] /\ U[co] = l /\ \A u \in Threads \ {co} : U[u] = T[u]
  BY <1>1, <1>3 DEF Put
<1>8. Sound(l)
  BY <1>2, <1>3 DEF Sound
<1>9. CountsAre(d, co, n + 1, l)
  <2>1. Is(d, n + 1, co, "resume") /\ n \in Nat
    BY <1>1, <1>4, <1>5 DEF Is
  <2>2. \A i \in 1..n : d[i].thread # co
    BY <1>5 DEF Absent
  <2> DEFINE jmp == l.errorJmp
             calls == l.nCcalls
             hook == l.allowhook
             handler == l.errfunc
  <2>3. jmp = n + 1 /\ calls = 0
    BY <1>3
  <2>4. hook = TRUE
    BY <1>3
  <2>5. handler = FALSE
    BY <1>3
  <2> HIDE DEF n, d, jmp, calls, hook, handler
  <2>6. Counts(d, co, n + 1, jmp, calls, hook, handler)
    BY <2>1, <2>2, <2>3, <2>4, <2>5, CountsOfResume
  <2> QED
    BY <2>6 DEF CountsAre, jmp, calls, hook, handler
<1>10. Level(l.ci, d, w, n + 1)
  <2>1. FitsOn(l.ci, c[Len(c)].k, v[Len(c)], r, 1)
    BY <1>1, <1>4 DEF FitsOn
  <2> QED
    BY <1>1, <1>4, <2>1, LevelOfTop
<1>11. Good(U, d, w)
  <2>1. /\ Sound(U[r.thread]) /\ CountsAre(Append(c, r), r.thread, Len(c) + 1, U[r.thread])
        /\ SavedAt(c, Len(c), r)
        /\ 1 <= Len(U[r.thread].ci) /\ Level(U[r.thread].ci, Append(c, r), Above(v, Len(c), 1), Len(c) + 1)
        /\ \A u \in Threads \ {r.thread} : U[u] = T[u]
    <3>1. 1 <= Len(ci)
      <4>1. Len(ci) \in Nat /\ Len(ci) # 0
        BY LenProperties, EmptySeq
      <4> QED
        BY <4>1
    <3> QED
      BY <1>3, <1>4, <1>7, <1>8, <1>9, <1>10, <3>1 DEF SavedAt
  <2>2. /\ r.k = "resume" /\ \A i \in 1..Len(c) : c[i].thread # r.thread
        /\ Len(T[Last(c).thread].ci) = v[Len(c)] + 1
    BY <1>4 DEF Height, Absent
  <2>3. 1 \in Nat \ {0} /\ r \in Record /\ U \in [Threads -> LuaState] /\ Good(T, c, v) /\ c # <<>>
    BY <1>1, <1>4, <1>7
  <2> HIDE DEF n, U, d, w
  <2>4. Good(U, Append(c, r), Above(v, Len(c), 1))
    BY <2>1, <2>2, <2>3, Pushed, SMTT(60)
  <2> QED
    BY <2>4 DEF d, w, n
<1>12. Limited(U, Threads)
  <2>1. 0 < MaxCCalls + ExtraCCalls
    BY LimitsAssumption
  <2> QED
    BY <1>3, <1>7, <2>1 DEF Limited
<1> QED
  BY <1>3, <1>4, <1>5, <1>6, <1>7, <1>11, <1>12 DEF l, r

(* luaV_execute of all Lua functions that a yield has left.                *)
LEMMA EntersAgain ==
  ASSUME NEW T, NEW c, NEW v, Good(T, c, v), c # <<>>, Limited(T, Threads), NEW told_,
         Last(c).k = "resume", v[Len(c)] = 1, NEW e \in Nat \ {0},
         Len(T[Last(c).thread].ci) = e + 1, AllLua(T[Last(c).thread].ci, 2, e + 1),
         NEW what, NEW msg
  PROVE  Fine(Entered(St(T, c, told_, "none"), e, what, msg))
<1> DEFINE t == Last(c).thread
           n == Len(c)
           l == T[t]
           r == [k |-> "execute", thread |-> t, nexeccalls |-> e]
           s == St(T, c, told_, "none")
           d == Append(c, r)
           x == e + 1
           w == Above(v, n, x)
<1>1. /\ T \in [Threads -> LuaState] /\ c \in Seq(Record) /\ n \in Nat \ {0} /\ Last(c) = c[n]
      /\ n \in DOMAIN c /\ t \in Threads
  <2>1. c \in Seq(Record) /\ T \in [Threads -> LuaState]
    BY DEF Good
  <2> QED
    BY <2>1, RecordsOfStack
<1>2. l \in LuaState /\ Sound(l) /\ CountsAre(c, t, n, l)
  <2>1. l.status = "ok"
    BY <1>1 DEF Good, Alive
  <2>2. CountsAre(c, t, n, l)
    BY <1>1, <2>1 DEF Good, Counted, CountsAre
  <2> QED
    BY <1>1, <2>1, <2>2 DEF Good, CiFits, Sound
<1>3. r \in Record /\ r.k = "execute" /\ r.thread = t /\ r.nexeccalls = e
  BY <1>1 DEF Record
<1> HIDE DEF r
<1>4. CountsAre(d, t, n + 1, l)
  <2>1. n \in Nat /\ d[n + 1] = r /\ \A i \in 1..n : c[i] = d[i]
    BY <1>1, <1>3, OnTop
  <2> HIDE DEF d, t
  <2>2. CountsAre(d, t, n, l)
    BY <1>2, <2>1, CountsAgree DEF CountsAre
  <2> QED
    BY <1>1, <1>3, <2>1, <2>2, CountsOfFrame DEF CountsAre
<1>5. Level(l.ci, d, w, n + 1)
  <2>1. FitsOn(l.ci, c[n].k, v[n], r, x)
    <3>1. x = v[n] + e /\ \A j \in v[n] + 1..x : l.ci[j] = "lua"
      BY DEF AllLua
    <3> HIDE DEF n, x, l
    <3> QED
      BY <1>1, <1>3, <3>1 DEF FitsOn, n
  <2> HIDE DEF x
  <2> QED
    BY <1>1, <1>3, <2>1, LevelOfTop
<1>6. Good(T, d, w)
  <2>1. /\ Sound(T[r.thread]) /\ CountsAre(Append(c, r), r.thread, Len(c) + 1, T[r.thread])
        /\ SavedAt(c, Len(c), r)
        /\ x <= Len(T[r.thread].ci) /\ Level(T[r.thread].ci, Append(c, r), Above(v, Len(c), x), Len(c) + 1)
        /\ \A u \in Threads \ {r.thread} : T[u] = T[u]
        /\ r.k # "resume" /\ r.thread = Last(c).thread
        /\ v[Len(c)] <= x /\ T[r.thread].ci = T[r.thread].ci
    BY <1>2, <1>3, <1>4, <1>5 DEF SavedAt
  <2>2. x \in Nat \ {0} /\ r \in Record /\ T \in [Threads -> LuaState]
    BY <1>1, <1>3
  <2> HIDE DEF n, d, w, x
  <2>3. Good(T, Append(c, r), Above(v, Len(c), x))
    BY <2>1, <2>2, Pushed, SMTT(60)
  <2> QED
    BY <2>3 DEF d, w, n
<1>7. Last(d) = r /\ Len(d) = n + 1 /\ d # <<>>
  BY <1>1, <1>3, OnTop
<1>8. w[n + 1] = x
  BY <1>1 DEF Above
<1>9. Ready(T, d, w) /\ Steady(T, d, w)
  BY <1>3, <1>6, <1>7, <1>8 DEF Ready, Loose, Steady, Height
<1>10. Entered(s, e, what, msg) = St(T, d, <<what, msg>>, "none")
  <2>1. L(s) = t
    BY DEF L, St
  <2>2. Entered(s, e, what, msg) = Tell([s EXCEPT !.cstack = Append(@, r)], what, msg)
    BY <2>1 DEF Entered, r
  <2>3. Tell([s EXCEPT !.cstack = Append(@, r)], what, msg) \in One(T, d, <<what, msg>>, "none")
    BY DEF Tell, St, One
  <2> QED
    BY <2>2, <2>3, Only
<1>11. Fine(St(T, d, <<what, msg>>, "none"))
  <2> HIDE DEF d, w
  <2> QED
    BY <1>9, ReadyIsFine
<1> QED
  BY <1>10, <1>11

(* lua_resume.                                                             *)
LEMMA StartFine ==
  ASSUME NEW T, NEW c, NEW v, Ready(T, c, v), Limited(T, Threads), Last(c).k = "execute",
         Height(T, c) = v[Len(c)] + 1, NEW told_, NEW co \in Threads \ {Main},
         NEW how \in {"resume", "wrap"},
         Startable(T[co])
  PROVE  Fine(Start(RunProtected(St(T, c, told_, "none"), co, ResumeRecord(co, how)), co))
<1> DEFINE n == Len(c)
           h == T[co]
           r == ResumeRecord(co, how)
           d == Append(c, r)
           w == Above(v, n, 1)
           j == Jumping(h, n + 1)
           J == Put(T, co, j)
           s == St(T, c, told_, "none")
           g == RunProtected(s, co, r)
<1>1. /\ T \in [Threads -> LuaState] /\ c \in Seq(Record) /\ n \in Nat \ {0} /\ Good(T, c, v)
      /\ h \in LuaState /\ co \in Threads
  BY Runner DEF Ready
<1>2. /\ Absent(c, co) /\ AtRest(h)
      /\ h.status = "yield" => Len(h.ci) > 2 /\ AllLua(h.ci, 2, Len(h.ci) - 1)
  BY Suspended
<1>3. h.ci \in Seq(CiKinds) /\ h.ci # <<>> /\ h.ci[1] = "base" /\ Len(h.ci) <= h.size_ci /\ Len(h.ci) \in Nat
      /\ h.size_ci \in Nat
  <2>1. h.ci \in Seq(CiKinds) /\ h.size_ci \in Nat
    BY <1>1 DEF LuaState
  <2>2. Len(h.ci) \in Nat
    BY <2>1, LenProperties
  <2> QED
    BY <1>1, <2>1, <2>2 DEF Good, CiFits
<1>4. g = St(J, d, told_, "none")
  <2>1. s.threads[co].errorJmp = 0 /\ Len(s.cstack) = n
    BY <1>2 DEF St, AtRest
  <2>2. [r EXCEPT !.previous = 0] = r
    BY DEF ResumeRecord
  <2>3. g = [s EXCEPT !.cstack = Append(@, r), !.threads[co].errorJmp = n + 1]
    BY <2>1, <2>2 DEF RunProtected
  <2> HIDE DEF g, n, r
  <2>4. g \in One(J, d, told_, "none")
    BY <2>3 DEF St, One, Put, Jumping
  <2> QED
    BY <2>4, Only
<1> SUFFICES Fine(Start(g, co))
  OBVIOUS
<1>5. J[co] = j /\ j.status = h.status /\ j.ci = h.ci
  <2>1. J[co] = j
    BY <1>1 DEF Put
  <2> QED
    BY <1>1, <2>1 DEF LuaState, Jumping
<1>6. g.threads[co].status = h.status
  BY <1>4, <1>5 DEF St
<1> HIDE DEF g
<1>7. CASE h.status = "yield"
  <2> DEFINE ci == Front(h.ci)
             l == Resumed(h, n + 1, ci)
             U == Put(T, co, l)
             e == Len(h.ci) - 2
             back == [g EXCEPT !.threads[co].status = "ok", !.threads[co].ci = Front(@)]
  <2>1. /\ ci \in Seq(CiKinds) /\ Len(ci) = Len(h.ci) - 1 /\ \A i \in 1..Len(h.ci) - 1 : ci[i] = h.ci[i]
    BY <1>3, FrontPart
  <2>2. e \in Nat \ {0} /\ Len(ci) = e + 1 /\ Len(ci) <= h.size_ci /\ Len(ci) - 1 = e
    <3> DEFINE len == Len(h.ci)
    <3>1. len \in Nat /\ len > 2 /\ len <= h.size_ci /\ h.size_ci \in Nat
      BY <1>2, <1>3, <1>7
    <3> HIDE DEF len
    <3>2. len - 2 \in Nat \ {0} /\ len - 1 = len - 2 + 1 /\ len - 1 <= h.size_ci /\ len - 1 - 1 = len - 2
      BY <3>1
    <3> QED
      BY <2>1, <3>2 DEF len
  <2>3. ci[1] = "base" /\ ci # <<>> /\ AllLua(ci, 2, e + 1)
    <3>1. e + 1 = Len(h.ci) - 1
      BY <2>1, <2>2
    <3>2. \A i \in 1..e + 1 : ci[i] = h.ci[i]
      BY <2>1, <3>1
    <3>3. \A i \in 2..e + 1 : h.ci[i] = "lua"
      BY <1>2, <1>7, <3>1 DEF AllLua
    <3> HIDE DEF e, ci
    <3>4. 1 \in 1..e + 1 /\ \A i \in 2..e + 1 : i \in 1..e + 1
      BY <2>2
    <3>5. Len(ci) # 0
      BY <2>2
    <3> QED
      BY <1>3, <2>1, <3>2, <3>3, <3>4, <3>5, EmptySeq DEF AllLua
  <2>4. back = St(U, d, told_, "none")
    <3>1. [j EXCEPT !.status = "ok", !.ci = Front(@)] = l
      <4>1. [j EXCEPT !.status = "ok", !.ci = Front(@)] = [j EXCEPT !.status = "ok", !.ci = ci]
        BY <1>5
      <4> HIDE DEF ci
      <4>2. [j EXCEPT !.status = "ok", !.ci = ci] = l
        BY <1>1 DEF LuaState, Jumping, Resumed
      <4> QED
        BY <4>1, <4>2
    <3>2. back \in One(Put(J, co, [j EXCEPT !.status = "ok", !.ci = Front(@)]), d, told_, "none")
      <4> HIDE DEF j, d
      <4> QED
        BY <1>4, <1>5 DEF St, One, Put
    <3>3. Put(J, co, l) = U
      BY DEF Put
    <3> QED
      BY <3>1, <3>2, <3>3, Only
  <2> HIDE DEF ci, e, back
  <2>5. /\ Good(U, d, w) /\ Limited(U, Threads)
        /\ d # <<>> /\ Last(d) = r /\ Len(d) = n + 1 /\ w[Len(d)] = 1 /\ U[co] = l
        /\ r.thread = co /\ r.k = "resume" /\ l.ci = ci
    BY <1>2, <2>1, <2>2, <2>3, ResumeReady
  <2>6. Start(g, co) = Entered(back, Len(back.threads[co].ci) - 1, "resumed", "none")
    BY <1>6, <1>7 DEF Start, back
  <2>7. Len(back.threads[co].ci) - 1 = e
    BY <2>2, <2>4, <2>5 DEF St
  <2> HIDE DEF U, l, d, w, r
  <2>8. Fine(Entered(St(U, d, told_, "none"), e, "resumed", "none"))
    <3>1. Last(d).k = "resume" /\ w[Len(d)] = 1 /\ Len(U[Last(d).thread].ci) = e + 1
          /\ AllLua(U[Last(d).thread].ci, 2, e + 1)
      BY <2>2, <2>3, <2>5
    <3> QED
      BY <2>2, <2>5, <3>1, EntersAgain
  <2> QED
    BY <2>4, <2>6, <2>7, <2>8
<1>8. CASE h.status = "ok" /\ Len(h.ci) = 1
  <2> DEFINE l == Resumed(h, n + 1, h.ci)
             U == Put(T, co, l)
  <2>1. U = J
    <3>1. l = j
      <4> HIDE DEF n
      <4> QED
        BY <1>1, <1>8 DEF LuaState, Jumping, Resumed
    <3> QED
      BY <3>1
  <2>2. /\ Good(U, d, w) /\ Limited(U, Threads)
        /\ d # <<>> /\ Last(d) = r /\ Len(d) = n + 1 /\ w[Len(d)] = 1 /\ U[co] = l
        /\ r.thread = co /\ r.k = "resume" /\ l.ci = h.ci
    BY <1>2, <1>3, ResumeReady
  <2>3. Ready(U, d, w) /\ Height(U, d) = w[Len(d)]
    BY <1>8, <2>2 DEF Ready, Loose, Height
  <2>4. Start(g, co) = IF Fits(g) THEN Entered(IncCi(g, "lua"), 1, "resumed", "none") ELSE Overflow(g)
    BY <1>6, <1>8 DEF Start
  <2>5. g = St(U, d, told_, "none")
    BY <1>4, <2>1
  <2> HIDE DEF U, l, d, w, r
  <2>6. CASE Fits(g)
    <3>1. "lua" \in CiKinds /\ Fits(St(U, d, told_, "none"))
      BY <2>5, <2>6 DEF CiKinds
    <3>2. PICK W : /\ IncCi(St(U, d, told_, "none"), "lua") = St(W, d, told_, "none")
                   /\ Ready(W, d, w) /\ Limited(W, Threads) /\ Height(W, d) = w[Len(d)] + 1
                   /\ W[Last(d).thread].ci[w[Len(d)] + 1] = "lua"
      BY <2>2, <2>3, <3>1, IncCiReady
    <3>3. Fine(Entered(St(W, d, told_, "none"), 1, "resumed", "none"))
      BY <2>2, <3>2, EnteredFine
    <3> QED
      BY <2>4, <2>5, <2>6, <3>2, <3>3
  <2>7. CASE ~Fits(g)
    <3>1. Fine(Overflow(St(U, d, told_, "none")))
      BY <2>2, <2>3, <2>5, <2>7, OverflowFine
    <3> QED
      BY <2>4, <2>5, <2>7, <3>1
  <2> QED
    BY <2>6, <2>7
<1> QED
  BY <1>7, <1>8 DEF Startable

(* The proofs do not depend on what lua_gettop answers.                    *)
WithTop(T, t, x) == Put(T, t, [T[t] EXCEPT !.top = x])

LEMMA WithTopIs ==
  ASSUME NEW T \in [Threads -> LuaState], NEW t \in Threads, NEW x \in {0, 1}
  PROVE  LET U == WithTop(T, t, x)
         IN /\ U \in [Threads -> LuaState]
            /\ \A u \in Threads :
                 /\ U[u].ci = T[u].ci /\ U[u].size_ci = T[u].size_ci /\ U[u].status = T[u].status
                 /\ U[u].nCcalls = T[u].nCcalls /\ U[u].allowhook = T[u].allowhook
                 /\ U[u].errfunc = T[u].errfunc /\ U[u].errorJmp = T[u].errorJmp
<1> DEFINE l == [T[t] EXCEPT !.top = x]
           U == WithTop(T, t, x)
<1>1. T[t] \in LuaState
  OBVIOUS
<1>2. /\ l \in LuaState /\ l.ci = T[t].ci /\ l.size_ci = T[t].size_ci /\ l.status = T[t].status
      /\ l.nCcalls = T[t].nCcalls /\ l.allowhook = T[t].allowhook
      /\ l.errfunc = T[t].errfunc /\ l.errorJmp = T[t].errorJmp
  BY <1>1 DEF LuaState
<1>3. U = Put(T, t, l)
  BY DEF WithTop
<1> HIDE DEF l, U
<1>4. U \in [Threads -> LuaState] /\ U[t] = l /\ \A u \in Threads \ {t} : U[u] = T[u]
  BY <1>2, <1>3, Changed
<1> QED
  BY <1>2, <1>4 DEF U

LEMMA TopDoesNotMatter ==
  ASSUME NEW T, NEW c, NEW v, Ready(T, c, v), Limited(T, Threads), NEW t \in Threads, NEW x \in {0, 1}
  PROVE  LET U == WithTop(T, t, x)
         IN Ready(U, c, v) /\ Limited(U, Threads) /\ Height(U, c) = Height(T, c)
<1> DEFINE U == WithTop(T, t, x)
<1>1. T \in [Threads -> LuaState] /\ c \in Seq(Record) /\ c # <<>> /\ Last(c).thread \in Threads
      /\ DOMAIN c = 1..Len(c) /\ \A i \in DOMAIN c : c[i].thread \in Threads
  BY Runner, RecordsOfStack
<1>2. /\ U \in [Threads -> LuaState]
      /\ \A u \in Threads :
           /\ U[u].ci = T[u].ci /\ U[u].size_ci = T[u].size_ci /\ U[u].status = T[u].status
           /\ U[u].nCcalls = T[u].nCcalls /\ U[u].allowhook = T[u].allowhook
           /\ U[u].errfunc = T[u].errfunc /\ U[u].errorJmp = T[u].errorJmp
  BY <1>1, WithTopIs
<1> HIDE DEF U
<1>3. Nested(c) /\ Saved(c) /\ Counted(T, c) /\ Levels(T, c, v) /\ Waiting(T, c, v)
      /\ Idle(T, c) /\ Alive(T, c) /\ CiFits(T) /\ Loose(T, c, v)
  BY DEF Ready, Good
<1>4. Counted(U, c)
  BY <1>2, <1>3 DEF Counted
<1>5. Levels(U, c, v)
  BY <1>1, <1>2, <1>3 DEF Levels
<1>6. Waiting(U, c, v)
  <2>1. ASSUME NEW i \in DOMAIN c, c[i].k = "resume"
        PROVE  Len(U[c[i - 1].thread].ci) = v[i - 1] + 1
    <3>1. i # 1 /\ i - 1 \in DOMAIN c
      BY <1>1, <1>3, <2>1 DEF Nested, Is
    <3> QED
      BY <1>1, <1>2, <1>3, <2>1, <3>1 DEF Waiting
  <2>2. \A i \in DOMAIN c : c[i].thread # Last(c).thread => Len(U[c[i].thread].ci) > 1
    BY <1>1, <1>2, <1>3 DEF Waiting
  <2> QED
    BY <2>1, <2>2 DEF Waiting
<1>7. Idle(U, c)
  BY <1>2, <1>3 DEF Idle
<1>8. Alive(U, c)
  BY <1>1, <1>2, <1>3 DEF Alive
<1>9. CiFits(U)
  BY <1>2, <1>3 DEF CiFits
<1>10. Height(U, c) = Height(T, c)
  BY <1>1, <1>2 DEF Height
<1>11. Limited(U, Threads)
  BY <1>2 DEF Limited
<1>12. Loose(U, c, v)
  BY <1>3, <1>10 DEF Loose
<1> QED
  BY <1>1, <1>2, <1>3, <1>4, <1>5, <1>6, <1>7, <1>8, <1>9, <1>10, <1>11, <1>12 DEF Ready, Good, U

(* auxresume's refusals.                                                   *)
LEMMA RefusedFine ==
  ASSUME NEW T, NEW c, NEW v, Ready(T, c, v), Limited(T, Threads), Last(c).k = "execute",
         Height(T, c) = v[Len(c)] + 1, NEW told_,
         NEW how \in {"resume", "wrap"}, NEW msg, msg # "none"
  PROVE  Fine(Refused(St(T, c, told_, "none"), how, msg))
<1> DEFINE t == Last(c).thread
           s == St(T, c, told_, "none")
<1>1. T \in [Threads -> LuaState] /\ t \in Threads
  BY Runner
<1>2. CASE how = "resume"
  <2> DEFINE U == Put(T, t, Popped(T[t]))
  <2>1. Refused(s, how, msg) = Tell(PopCi(s), "false", msg)
    BY <1>2 DEF Refused
  <2>2. PopCi(s) = St(U, c, told_, "none")
    BY <1>1, PopCiIs
  <2>3. Fine(St(U, c, <<"false", msg>>, "none"))
    BY ReturnsFromC
  <2> HIDE DEF s, U
  <2> QED
    BY <2>1, <2>2, <2>3, TellIs DEF s
<1>3. CASE how # "resume"
  <2>1. Refused(s, how, msg) = Raise(s, msg)
    BY <1>3 DEF Refused
  <2> QED
    BY <2>1, RaiseFine
<1> QED
  BY <1>2, <1>3

LEMMA ResumeErrorFine ==
  ASSUME NEW T, NEW c, NEW v, Ready(T, c, v), Limited(T, Threads), Last(c).k = "execute",
         Height(T, c) = v[Len(c)] + 1, NEW told_, NEW co \in Threads \ {Main},
         NEW how \in {"resume", "wrap"}, NEW msg, msg # "none"
  PROVE  Fine(Refused(ResumeError(St(T, c, told_, "none"), co), how, msg))
<1> DEFINE s == St(T, c, told_, "none")
           U == WithTop(T, co, 0)
<1>1. CASE co = L(s)
  BY <1>1, RefusedFine DEF ResumeError
<1>2. CASE co # L(s)
  <2>1. [s EXCEPT !.threads[co].top = 0] \in One(U, c, told_, "none")
    BY DEF St, One, WithTop, Put
  <2>2. ResumeError(s, co) = St(U, c, told_, "none")
    BY <1>2, <2>1, Only DEF ResumeError
  <2>3. Ready(U, c, v) /\ Limited(U, Threads) /\ Height(U, c) = v[Len(c)] + 1
    BY TopDoesNotMatter
  <2> HIDE DEF U, s
  <2> QED
    BY <2>2, <2>3, RefusedFine DEF s
<1> QED
  BY <1>1, <1>2

(* auxresume, of luaB_coresume and luaB_auxwrap.                           *)
LEMMA AuxResumeFine ==
  ASSUME NEW T, NEW c, NEW v, Ready(T, c, v), Limited(T, Threads), Last(c).k = "execute",
         Height(T, c) = v[Len(c)] + 1, NEW told_, NEW co \in Threads \ {Main},
         NEW how \in {"resume", "wrap"}
  PROVE  Fine(AuxResume(St(T, c, told_, "none"), co, how))
<1> DEFINE t == Last(c).thread
           s == St(T, c, told_, "none")
           h == T[co]
           e == Start(RunProtected(s, co, ResumeRecord(co, how)), co)
<1>1. T \in [Threads -> LuaState] /\ t \in Threads /\ h \in LuaState
  BY Runner
<1>2. h.status \in {"ok", "yield", "error"}
  BY <1>1 DEF LuaState
<1>4. AuxResume(s, co, how) =
        CASE h.status = "ok" /\ GetTop(s, co) = 0 -> Refused(s, how, "dead")
          [] h.status = "error" -> Refused(ResumeError(s, co), how, "dead")
          [] h.status = "ok" /\ GetTop(s, co) # 0 /\ Len(h.ci) # 1 ->
               Refused(ResumeError(s, co), how, "non-suspended")
          [] OTHER -> e
  BY DEF AuxResume, St, ResumeRecord
<1> DEFINE a == Refused(s, how, "dead")
           b == Refused(ResumeError(s, co), how, "non-suspended")
           d == Refused(ResumeError(s, co), how, "dead")
           p == GetTop(s, co)
           z == AuxResume(s, co, how)
<1>5. Fine(a) /\ Fine(b) /\ Fine(d)
  <2>1. Fine(a)
    BY RefusedFine
  <2>2. Fine(b)
    BY ResumeErrorFine
  <2>3. Fine(d)
    BY ResumeErrorFine
  <2> QED
    BY <2>1, <2>2, <2>3
<1>6. \/ z = a \/ z = b \/ z = d
      \/ z = e /\ (h.status = "yield" \/ (h.status = "ok" /\ Len(h.ci) = 1))
  <2> HIDE DEF a, b, d, p, z, e, s
  <2>1. z = CASE h.status = "ok" /\ p = 0 -> a [] h.status = "error" -> d
              [] h.status = "ok" /\ p # 0 /\ Len(h.ci) # 1 -> b [] OTHER -> e
    BY <1>4 DEF z, a, b, d, p, e, s
  <2> HIDE DEF h
  <2>2. CASE h.status = "yield"
    <3>1. ~(h.status = "ok") /\ ~(h.status = "error")
      BY <2>2
    <3>2. z = e
      BY <2>1, <3>1
    <3> QED
      BY <2>2, <3>2
  <2>3. CASE h.status = "error"
    BY <2>1, <2>3
  <2>4. CASE h.status = "ok" /\ p = 0
    BY <2>1, <2>4
  <2>5. CASE h.status = "ok" /\ p # 0 /\ Len(h.ci) # 1
    BY <2>1, <2>5
  <2>6. CASE h.status = "ok" /\ p # 0 /\ Len(h.ci) = 1
    BY <2>1, <2>6
  <2> QED
    BY <1>2, <2>2, <2>3, <2>4, <2>5, <2>6 DEF h
<1>7. Startable(h) => Fine(e)
  BY StartFine
<1> HIDE DEF z, a, b, d, e, s
<1>8. Fine(z)
  BY <1>5, <1>6, <1>7 DEF Startable
<1> QED
  BY <1>8 DEF z, s

-----------------------------------------------------------------------------
(* The inductive invariant of the specification.                           *)
IInv == Fine(Now) /\ does \in Repertoires

LEMMA BecomesFine ==
  ASSUME NEW s, Fine(s), Becomes(s), does \in Repertoires
  PROVE  IInv'
BY DEF IInv, Fine, Becomes, Now

(* A Lua function runs: what its step may start from.                      *)
LEMMA RunsOn ==
  ASSUME IInv, cstack # <<>>, raised = "none"
  PROVE  /\ Now = St(threads, cstack, told, "none")
         /\ \E v : /\ Ready(threads, cstack, v) /\ Limited(threads, Threads)
                   /\ Steady(threads, cstack, v)
BY DEF IInv, Fine, Now, St, Ready

(* A C function that is called, and what it does then.                     *)
LEMMA CallCFine ==
  ASSUME IInv, NEW f \in CiKinds \ {"lua", "base"}, NEW op, NEW body, CallC(op, body),
         \A U, v : /\ IncCi(Now, f) = St(U, cstack, told, "none")
                   /\ Ready(U, cstack, v) /\ Limited(U, Threads) /\ Last(cstack).k = "execute"
                   /\ Height(U, cstack) = v[Len(cstack)] + 1
                   /\ U[Last(cstack).thread].ci[v[Len(cstack)] + 1] = f
                   => Fine(body)
  PROVE  IInv'
<1>1. cstack # <<>> /\ raised = "none"
  BY DEF CallC, Runs
<1>2. Now = St(threads, cstack, told, "none")
  BY <1>1, RunsOn
<1>3. PICK v : /\ Ready(threads, cstack, v) /\ Limited(threads, Threads)
               /\ Steady(threads, cstack, v)
  BY <1>1, RunsOn
<1>4. CASE ~Fits(Now)
  <2>1. Fine(Overflow(Now))
    BY <1>2, <1>3, <1>4, OverflowFine
  <2>2. Becomes(Overflow(Now))
    BY <1>4 DEF CallC
  <2> QED
    BY <2>1, <2>2, BecomesFine DEF IInv
<1>5. CASE Fits(Now)
  <2>1. Height(threads, cstack) = v[Len(cstack)] /\ Last(cstack).k = "execute"
    BY <1>3 DEF Steady
  <2>2. PICK U : /\ IncCi(Now, f) = St(U, cstack, told, "none")
                 /\ Ready(U, cstack, v) /\ Limited(U, Threads)
                 /\ Height(U, cstack) = v[Len(cstack)] + 1
                 /\ U[Last(cstack).thread].ci[v[Len(cstack)] + 1] = f
    BY <1>2, <1>3, <1>5, <2>1, IncCiReady
  <2>3. Fine(body)
    BY <2>1, <2>2
  <2>4. Becomes(body)
    BY <1>5 DEF CallC
  <2> QED
    BY <2>3, <2>4, BecomesFine DEF IInv
<1> QED
  BY <1>4, <1>5

LEMMA InitFine ==
  ASSUME Init
  PROVE  IInv
<1> DEFINE main == [Fresh EXCEPT !.ci = <<"base", "lua">>, !.nCcalls = 1, !.errorJmp = 1]
           bottom == [k |-> "pcall", thread |-> Main, ci |-> 1, nCcalls |-> 0, allowhook |-> TRUE,
                      errfunc |-> FALSE, ef |-> FALSE, previous |-> 0]
           call == [k |-> "call", thread |-> Main]
           execute == [k |-> "execute", thread |-> Main, nexeccalls |-> 1]
           c == <<bottom, call, execute>>
           T == [t \in Threads |-> IF t = Main THEN main ELSE Fresh]
           v == <<1, 1, 2>>
<1>1. threads = T /\ cstack = c /\ raised = "none" /\ does \in Repertoires
  BY DEF Init
<1>2. /\ Main \in Threads /\ MaxCCalls \in Nat \ {0, 1} /\ ExtraCCalls \in Nat \ {0, 1}
      /\ MaxCalls \in Nat \ {0, 1} /\ BasicCiSize \in Nat \ {0, 1} /\ BasicCiSize <= MaxCalls
  BY LimitsAssumption
<1>3. main \in LuaState /\ Fresh \in LuaState
  <2>1. <<"base", "lua">> \in Seq(CiKinds) /\ <<"base">> \in Seq(CiKinds)
    BY DEF CiKinds
  <2>2. BasicCiSize \in Nat /\ 0 \in 0..MaxCCalls + ExtraCCalls /\ 1 \in 0..MaxCCalls + ExtraCCalls
    BY <1>2
  <2>3. Fresh \in LuaState
    BY <2>1, <2>2 DEF LuaState, Fresh
  <2> HIDE DEF Fresh
  <2>4. \A l \in LuaState : [l EXCEPT !.ci = <<"base", "lua">>, !.nCcalls = 1, !.errorJmp = 1] \in LuaState
    <3> DEFINE q == <<"base", "lua">>
    <3>1. q \in Seq(CiKinds)
      BY <2>1
    <3> HIDE DEF q
    <3>2. \A l \in LuaState : [l EXCEPT !.ci = q, !.nCcalls = 1, !.errorJmp = 1] \in LuaState
      BY <2>2, <3>1 DEF LuaState
    <3> QED
      BY <3>2 DEF q
  <2>5. main \in LuaState
    BY <2>3, <2>4
  <2> QED
    BY <2>3, <2>5
<1>4. T \in [Threads -> LuaState]
  BY <1>3
<1>5. /\ Len(main.ci) = 2 /\ main.ci[1] = "base" /\ main.ci[2] = "lua" /\ main.size_ci = BasicCiSize
      /\ main.status = "ok" /\ main.nCcalls = 1 /\ main.allowhook = TRUE /\ main.errfunc = FALSE
      /\ main.errorJmp = 1 /\ main.ci # <<>>
  BY DEF Fresh
<1>6. /\ Len(Fresh.ci) = 1 /\ Fresh.ci[1] = "base" /\ Fresh.size_ci = BasicCiSize
      /\ Fresh.status = "ok" /\ Fresh.nCcalls = 0 /\ Fresh.allowhook = TRUE /\ Fresh.errfunc = FALSE
      /\ Fresh.errorJmp = 0 /\ Fresh.ci # <<>>
  BY DEF Fresh
<1>7. T[Main] = main /\ \A t \in Threads \ {Main} : T[t] = Fresh
  BY <1>2
<1>8. c \in Seq(Record)
  <2>1. bottom \in Record /\ call \in Record /\ execute \in Record
    BY <1>2 DEF Record
  <2> HIDE DEF bottom, call, execute
  <2> QED
    BY <2>1
<1>9. /\ Len(c) = 3 /\ DOMAIN c = 1..3 /\ c # <<>> /\ Last(c) = c[3]
      /\ c[1] = bottom /\ c[2] = call /\ c[3] = execute
  BY DEF Last
<1>10. /\ bottom.k = "pcall" /\ bottom.thread = Main /\ bottom.ci = 1 /\ bottom.nCcalls = 0
       /\ bottom.allowhook = TRUE /\ bottom.errfunc = FALSE /\ bottom.ef = FALSE /\ bottom.previous = 0
       /\ call.k = "call" /\ call.thread = Main
       /\ execute.k = "execute" /\ execute.thread = Main /\ execute.nexeccalls = 1
  OBVIOUS
<1>11. v[1] = 1 /\ v[2] = 1 /\ v[3] = 2 /\ v \in [1..3 -> Nat \ {0}]
  OBVIOUS
<1> HIDE DEF T, c, v, main, bottom, call, execute, Fresh
<1>12. /\ c[1].k = "pcall" /\ c[2].k = "call" /\ c[3].k = "execute"
       /\ \A i \in 1..3 : c[i].thread = Main
  <2>1. \A i \in 1..3 : i = 1 \/ i = 2 \/ i = 3
    OBVIOUS
  <2> QED
    BY <1>9, <1>10, <2>1
<1>13. Nested(c)
  BY <1>9, <1>12 DEF Nested, Is
<1>14. Counts(c, Main, 0, 0, 0, TRUE, FALSE)
  <2>1. \A i \in 1..0 : c[i].thread # Main
    OBVIOUS
  <2> QED
    BY <2>1, CountsOfNone
<1>15. Saved(c)
  <2>1. /\ c[1].previous = 0 /\ c[1].nCcalls = 0 /\ c[1].allowhook = TRUE
        /\ c[1].errfunc = FALSE /\ 1 - 1 = 0
    BY <1>9, <1>10
  <2>2. Counts(c, c[1].thread, 1 - 1, c[1].previous, c[1].nCcalls, c[1].allowhook, c[1].errfunc)
    <3>1. c[1].thread = Main
      BY <1>12
    <3>2. \A n, p, k, h, e : n = 0 /\ p = 0 /\ k = 0 /\ h = TRUE /\ e = FALSE => Counts(c, Main, n, p, k, h, e)
      BY <1>14
    <3>3. Counts(c, Main, 1 - 1, c[1].previous, c[1].nCcalls, c[1].allowhook, c[1].errfunc)
      BY <2>1, <3>2
    <3> QED
      BY <3>1, <3>3
  <2>3. c[1].nCcalls < MaxCCalls + ExtraCCalls
    BY <1>2, <2>1
  <2>4. \A i \in DOMAIN c : (c[i].k = "pcall" => i = 1) /\ c[i].k # "resume" /\ c[i].k # "hook"
    BY <1>9, <1>12
  <2> QED
    BY <2>2, <2>3, <2>4 DEF Saved
<1>16. Counts(c, Main, 3, 1, 1, TRUE, FALSE)
  <2>1. 0 + 1 = 1 /\ 1 + 1 = 2 /\ 2 + 1 = 3 /\ 0 \in Nat /\ 1 \in Nat /\ 2 \in Nat
    OBVIOUS
  <2>2. Counts(c, Main, 1, 1, 0, TRUE, FALSE)
    <3>1. Is(c, 1, Main, "pcall") /\ c[1].ef = FALSE
      BY <1>9, <1>10 DEF Is
    <3>2. Is(c, 0 + 1, Main, "pcall") /\ c[0 + 1].ef \in BOOLEAN /\ c[0 + 1].ef = FALSE
      BY <2>1, <3>1
    <3>3. Counts(c, Main, 0 + 1, 0 + 1, 0, TRUE, c[0 + 1].ef)
      BY <1>14, <2>1, <3>2, CountsOfPcall
    <3> QED
      BY <2>1, <3>2, <3>3
  <2>3. Counts(c, Main, 2, 1, 1, TRUE, FALSE)
    <3>1. Is(c, 1 + 1, Main, "call")
      BY <1>12, <2>1 DEF Is
    <3>2. \A n \in Int : Counts(c, Main, 1, 1, n, TRUE, FALSE) => Counts(c, Main, 1 + 1, 1, n + 1, TRUE, FALSE)
      BY <2>1, <3>1, CountsOfCall
    <3>3. 0 \in Int /\ \A n \in Int : n = 0 => n + 1 = 1
      OBVIOUS
    <3>4. \A n \in Int : n = 0 => Counts(c, Main, 1 + 1, 1, n + 1, TRUE, FALSE)
      BY <2>2, <3>2
    <3>5. Counts(c, Main, 1 + 1, 1, 1, TRUE, FALSE)
      BY <3>3, <3>4
    <3> QED
      BY <2>1, <3>5
  <2>4. c[2 + 1].thread = Main /\ c[2 + 1].k \in {"execute", "errormsg"}
    BY <1>12, <2>1
  <2>5. Counts(c, Main, 2 + 1, 1, 1, TRUE, FALSE)
    BY <2>1, <2>3, <2>4, CountsOfFrame
  <2> QED
    BY <2>1, <2>5
<1>17. Counted(T, c)
  <2>1. ASSUME NEW t \in Threads \ {Main} PROVE Counts(c, t, 3, 0, 0, TRUE, FALSE)
    <3>1. \A i \in 1..3 : c[i].thread # t
      BY <1>12
    <3> QED
      BY <3>1, CountsOfNone
  <2> QED
    BY <1>5, <1>6, <1>7, <1>9, <1>16, <2>1, ZenonT(60) DEF Counted
<1>18. Levels(T, c, v)
  <2>1. Level(main.ci, c, v, 1)
    BY <1>9, <1>10, <1>11, <1>12 DEF Level
  <2>2. Level(main.ci, c, v, 2)
    BY <1>9, <1>10, <1>11, <1>12 DEF Level
  <2>3. Level(main.ci, c, v, 3)
    <3>1. \A j \in 2..2 : main.ci[j] = "lua"
      BY <1>5
    <3> QED
      BY <1>9, <1>10, <1>11, <1>12, <3>1 DEF Level
  <2>4. \A i \in 1..3 : Level(main.ci, c, v, i) /\ v[i] <= Len(main.ci)
    BY <1>5, <1>11, <2>1, <2>2, <2>3
  <2>5. \A i, k \in 1..3 : i < k => v[i] <= v[k]
    BY <1>11
  <2> QED
    BY <1>7, <1>9, <1>11, <1>12, <2>4, <2>5 DEF Levels
<1>19. Waiting(T, c, v) /\ Idle(T, c) /\ Alive(T, c)
  BY <1>5, <1>6, <1>7, <1>9, <1>12 DEF Waiting, Idle, Alive
<1>20. CiFits(T)
  <2>1. BasicCiSize \in 2..2 * MaxCalls /\ 2 <= BasicCiSize /\ 1 <= BasicCiSize
    BY <1>2
  <2>2. \A t \in Threads : T[t] = main \/ T[t] = Fresh
    BY <1>7
  <2> QED
    BY <1>5, <1>6, <2>1, <2>2 DEF CiFits
<1>21. Good(T, c, v)
  BY <1>4, <1>8, <1>13, <1>15, <1>17, <1>18, <1>19, <1>20 DEF Good
<1>22. Limited(T, Threads)
  BY <1>2, <1>5, <1>6, <1>7 DEF Limited
<1>23. Steady(T, c, v) /\ Loose(T, c, v)
  BY <1>2, <1>5, <1>7, <1>9, <1>11, <1>12 DEF Steady, Loose, Height
<1> QED
  BY <1>1, <1>9, <1>21, <1>22, <1>23 DEF IInv, Fine, Now

LEMMA CallStep ==
  ASSUME IInv, Call
  PROVE  IInv'
<1>1. cstack # <<>> /\ raised = "none"
  BY DEF Call, Runs
<1>2. Now = St(threads, cstack, told, "none")
  BY <1>1, RunsOn
<1>3. PICK v : /\ Ready(threads, cstack, v) /\ Limited(threads, Threads)
               /\ Steady(threads, cstack, v)
  BY <1>1, RunsOn
<1>4. CASE ~Fits(Now)
  <2>1. Fine(Overflow(Now))
    BY <1>2, <1>3, <1>4, OverflowFine
  <2> QED
    BY <1>4, <2>1, BecomesFine DEF Call, IInv
<1>5. CASE Fits(Now)
  <2>1. Fine(Tell([IncCi(Now, "lua") EXCEPT !.cstack[Len(cstack)].nexeccalls = @ + 1], "entered", "none"))
    BY <1>2, <1>3, <1>5, CallFine
  <2> QED
    BY <1>5, <2>1, BecomesFine DEF Call, IInv
<1> QED
  BY <1>4, <1>5

LEMMA ReturnStep ==
  ASSUME IInv, Return
  PROVE  IInv'
<1>1. cstack # <<>> /\ raised = "none"
  BY DEF Return
<1>2. Now = St(threads, cstack, told, "none")
  BY <1>1, RunsOn
<1>3. PICK v : /\ Ready(threads, cstack, v) /\ Limited(threads, Threads)
               /\ Steady(threads, cstack, v)
  BY <1>1, RunsOn
<1>4. CASE Last(cstack).nexeccalls = 1
  <2>1. Fine(ExecuteReturns(PopCi(Now)))
    BY <1>2, <1>3, <1>4, ExecuteReturnsFine
  <2> QED
    BY <1>4, <2>1, BecomesFine DEF Return, IInv
<1>5. CASE Last(cstack).nexeccalls # 1
  <2>1. Fine(Tell([PopCi(Now) EXCEPT !.cstack[Len(cstack)].nexeccalls = @ - 1], "returned", "none"))
    BY <1>2, <1>3, <1>5, ReturnInFine
  <2> QED
    BY <1>5, <2>1, BecomesFine DEF Return, IInv
<1> QED
  BY <1>4, <1>5

LEMMA PcallStep ==
  ASSUME IInv, Pcall \/ Xpcall
  PROVE  IInv'
<1>1. PICK f \in {"pcall", "xpcall"}, ef \in BOOLEAN : CallC(f, DPcall(IncCi(Now, f), ef))
  BY DEF Pcall, Xpcall
<1>2. f \in CiKinds \ {"lua", "base"}
  BY DEF CiKinds
<1> QED
  BY <1>1, <1>2, CallCFine, DPcallFine

LEMMA ForeachStep ==
  ASSUME IInv, Foreach
  PROVE  IInv'
<1>1. "foreach" \in CiKinds \ {"lua", "base"} /\ "foreach" # "lua"
  BY DEF CiKinds
<1>2. CallC("foreach", DCall(IncCi(Now, "foreach"), "entered", "none"))
  BY DEF Foreach
<1> QED
  BY <1>1, <1>2, CallCFine, DCallFine

LEMMA MetamethodStep ==
  ASSUME IInv, Metamethod
  PROVE  IInv'
<1>1. cstack # <<>> /\ raised = "none"
  BY DEF Metamethod, Runs
<1>2. Now = St(threads, cstack, told, "none")
  BY <1>1, RunsOn
<1>3. PICK v : /\ Ready(threads, cstack, v) /\ Limited(threads, Threads)
               /\ Steady(threads, cstack, v)
  BY <1>1, RunsOn
<1>4. Fine(DCall(Now, "entered", "none"))
  BY <1>2, <1>3, DCallFine DEF Steady
<1> QED
  BY <1>4, BecomesFine DEF Metamethod, IInv

LEMMA CallHookStep ==
  ASSUME IInv, CallHook
  PROVE  IInv'
<1>1. cstack # <<>> /\ raised = "none"
  BY DEF CallHook, Runs
<1>2. Now = St(threads, cstack, told, "none")
  BY <1>1, RunsOn
<1>3. PICK v : /\ Ready(threads, cstack, v) /\ Limited(threads, Threads)
               /\ Steady(threads, cstack, v)
  BY <1>1, RunsOn
<1>4. threads[Last(cstack).thread].allowhook
  BY DEF CallHook, State, L, Now
<1>5. Fine(DCall([Now EXCEPT !.cstack = Append(@, [k |-> "hook", thread |-> L(Now)]),
                             !.threads[L(Now)].allowhook = FALSE], "entered", "none"))
  BY <1>2, <1>3, <1>4, CallHookFine
<1> QED
  BY <1>5, BecomesFine DEF CallHook, IInv

LEMMA ErrorStep ==
  ASSUME IInv, Error
  PROVE  IInv'
<1>1. "error" \in CiKinds \ {"lua", "base"} /\ "error" # "none"
  BY DEF CiKinds
<1>2. CallC("error", Raise(IncCi(Now, "error"), "error"))
  BY DEF Error
<1> QED
  BY <1>1, <1>2, CallCFine, RaiseFine

LEMMA YieldStep ==
  ASSUME IInv, Yield
  PROVE  IInv'
<1>1. "yield" \in CiKinds \ {"lua", "base"}
  BY DEF CiKinds
<1>2. CallC("yield", Yields(IncCi(Now, "yield")))
  BY DEF Yield
<1> QED
  BY <1>1, <1>2, CallCFine, YieldsFine

LEMMA ResumeStep ==
  ASSUME IInv, NEW co \in Threads \ {Main}, Resume(co)
  PROVE  IInv'
<1>1. PICK how \in {"resume", "wrap"} : CallC(how, AuxResume(Passes(Now, how), co, how))
  BY DEF Resume
<1>2. how \in CiKinds \ {"lua", "base"}
  BY DEF CiKinds
<1> DEFINE body == AuxResume(Passes(Now, how), co, how)
<1>3. ASSUME NEW U, NEW v, IncCi(Now, how) = St(U, cstack, told, "none"),
             Ready(U, cstack, v), Limited(U, Threads), Last(cstack).k = "execute",
             Height(U, cstack) = v[Len(cstack)] + 1
      PROVE  Fine(body)
  <2> DEFINE x == IF how = "resume" THEN 1 ELSE 0
             t == Last(cstack).thread
             g == St(U, cstack, told, "none")
             W == WithTop(U, t, x)
  <2>1. x \in {0, 1} /\ t \in Threads /\ L(Now) = t
    BY <1>3, Runner DEF L, Now
  <2>2. Passes(Now, how) = [g EXCEPT !.threads[t].top = x]
    BY <1>3, <2>1 DEF Passes
  <2> HIDE DEF x, t
  <2>3. [g EXCEPT !.threads[t].top = x] \in One(W, cstack, told, "none")
    BY DEF St, One, WithTop, Put
  <2>4. Passes(Now, how) = St(W, cstack, told, "none")
    BY <2>2, <2>3, Only
  <2>5. Ready(W, cstack, v) /\ Limited(W, Threads) /\ Height(W, cstack) = v[Len(cstack)] + 1
    BY <1>3, <2>1, TopDoesNotMatter
  <2> HIDE DEF W
  <2> QED
    BY <1>3, <2>4, <2>5, AuxResumeFine
<1> HIDE DEF body
<1>4. CallC(how, body)
  BY <1>1 DEF body
<1> QED
  BY <1>2, <1>3, <1>4, CallCFine

LEMMA ErrorMsgStep ==
  ASSUME IInv, ErrorMsg
  PROVE  IInv'
<1> DEFINE s == [Now EXCEPT !.raised = "none"]
<1>1. raised # "none"
  BY DEF ErrorMsg
<1>2. s = St(threads, cstack, told, "none")
  BY DEF Now, St
<1>3. PICK v : Ready(threads, cstack, v) /\ Limited(threads, Threads)
  BY <1>1 DEF IInv, Fine, Now, Ready
<1>4. Fine(Throw(s, raised))
  BY <1>1, <1>2, <1>3, ErrorMsgFine
<1>5. Fine(DCall([s EXCEPT !.cstack = Append(@, [k |-> "errormsg", thread |-> L(s)])], "handles", raised))
  BY <1>1, <1>2, <1>3, ErrorMsgFine
<1>6. CASE State(s).errfunc
  BY <1>5, <1>6, BecomesFine DEF ErrorMsg, IInv
<1>7. CASE ~State(s).errfunc
  BY <1>4, <1>7, BecomesFine DEF ErrorMsg, IInv
<1> QED
  BY <1>6, <1>7

(* Between two steps of ldo.c's operations every record of the C stack has *)
(* its place in the CallInfo of its thread and has saved what was below it,*)
(* and the counters of every thread are those of its records.              *)
THEOREM StaysFine == Spec => []IInv
<1>1. Init => IInv
  BY InitFine
<1>2. IInv /\ [Next]_vars => IInv'
  <2> SUFFICES ASSUME IInv, [Next]_vars PROVE IInv'
    OBVIOUS
  <2>1. CASE Next
    BY <2>1, CallStep, ReturnStep, PcallStep, ForeachStep, MetamethodStep, CallHookStep, ErrorStep,
       YieldStep, ErrorMsgStep, ResumeStep DEF Next
  <2>2. CASE UNCHANGED vars
    BY <2>2 DEF vars, IInv, Fine, Now
  <2> QED
    BY <2>1, <2>2
<1> QED
  BY <1>1, <1>2, PTL DEF Spec

-----------------------------------------------------------------------------
LEMMA TypeFollows ==
  ASSUME IInv
  PROVE  TypeOK
<1>1. PICK v : /\ Good(threads, cstack, v) /\ Limited(threads, Threads)
               /\ cstack # <<>> => Loose(threads, cstack, v)
               /\ cstack # <<>> /\ raised = "none" => Steady(threads, cstack, v)
  BY DEF IInv, Fine, Now
<1>2. /\ MaxCCalls \in Nat /\ ExtraCCalls \in Nat /\ MaxCalls \in Nat
  BY LimitsAssumption
<1>3. ASSUME NEW t \in Threads
      PROVE  LET l == threads[t]
             IN /\ l.ci[1] = "base" /\ Len(l.ci) <= l.size_ci
                /\ l.size_ci <= 2 * MaxCalls /\ l.nCcalls \in 0..(MaxCCalls + ExtraCCalls)
                /\ l.status \in {"ok", "yield", "error"} /\ l.top \in 0..1
                /\ l.allowhook \in BOOLEAN /\ l.errfunc \in BOOLEAN
  <2>1. threads[t] \in LuaState
    BY <1>1 DEF Good
  <2>2. /\ threads[t].ci[1] = "base" /\ Len(threads[t].ci) <= threads[t].size_ci
        /\ threads[t].size_ci \in 2..2 * MaxCalls
    BY <1>1 DEF Good, CiFits
  <2> QED
    BY <1>2, <2>1, <2>2 DEF LuaState
<1>4. ASSUME cstack # <<>>, raised = "none"
      PROVE  Last(cstack).k = "execute" /\ Last(State(Now).ci) = "lua"
  <2> DEFINE t == Last(cstack).thread
             n == Len(cstack)
             ci == threads[t].ci
  <2>1. Ready(threads, cstack, v) /\ Steady(threads, cstack, v)
    BY <1>1, <1>4 DEF Ready
  <2>2. Last(cstack).k = "execute" /\ Len(ci) = v[n]
    BY <2>1 DEF Steady, Height
  <2>3. /\ n \in Nat \ {0} /\ n \in DOMAIN cstack /\ DOMAIN cstack = 1..n /\ Last(cstack) = cstack[n]
        /\ Level(ci, cstack, v, n) /\ v[n] \in Nat \ {0}
    BY <2>1, Runner
  <2>4. \A i \in DOMAIN cstack : v[i] \in Nat
    BY <1>1 DEF Good, Levels
  <2> DEFINE under == IF n = 1 THEN 0 ELSE v[n - 1]
  <2>5. under \in Nat
    <3>1. n # 1 => n - 1 \in DOMAIN cstack
      BY <2>3
    <3> QED
      BY <2>4, <3>1
  <2>6. /\ cstack[n].nexeccalls \in Nat \ {0} /\ v[n] = under + cstack[n].nexeccalls
        /\ \A j \in under + 1..v[n] : ci[j] = "lua"
    BY <2>2, <2>3 DEF Level
  <2> HIDE DEF under
  <2>7. v[n] \in under + 1..v[n]
    BY <2>5, <2>6
  <2>8. ci[Len(ci)] = "lua"
    BY <2>2, <2>6, <2>7
  <2>9. State(Now) = threads[t]
    BY DEF State, L, Now
  <2> QED
    BY <2>2, <2>8, <2>9 DEF Last
<1> QED
  BY <1>3, <1>4 DEF TypeOK, IInv

(* What Counts says of the places of the records.                          *)
LEMMA JumpsAre ==
  ASSUME cstack \in Seq(Record), NEW t
  PROVE  /\ RecordsAre(t, "pcall") \cup RecordsAre(t, "resume")
              = {i \in 1..Len(cstack) : Jump(cstack, i, t)}
         /\ \A kind : RecordsAre(t, kind) = {i \in 1..Len(cstack) : Is(cstack, i, t, kind)}
         /\ RecordsOf(t) = {i \in 1..Len(cstack) : cstack[i].thread = t}
         /\ Len(cstack) \in Nat
<1>1. DOMAIN cstack = 1..Len(cstack) /\ Len(cstack) \in Nat
  BY LenProperties
<1> QED
  BY <1>1 DEF RecordsAre, RecordsOf, Jump, Is

LEMMA MaxOfIs ==
  ASSUME NEW S \in SUBSET Int, NEW j \in S, \A i \in S : i <= j
  PROVE  MaxOf(S) = j
<1>1. \A m \in S : (\A i \in S : i <= m) => m = j
  OBVIOUS
<1> QED
  BY <1>1 DEF MaxOf

LEMMA JumpsFollow ==
  ASSUME IInv
  PROVE  JumpsGoToTheInnermost
<1>1. cstack \in Seq(Record) /\ Counted(threads, cstack)
  BY DEF IInv, Fine, Now, Good
<1>2. ASSUME NEW t \in Threads, threads[t].status # "error"
      PROVE  LET records == RecordsAre(t, "pcall") \cup RecordsAre(t, "resume")
             IN threads[t].errorJmp = IF records = {} THEN 0 ELSE MaxOf(records)
  <2> DEFINE j == threads[t].errorJmp
             R == {i \in 1..Len(cstack) : Jump(cstack, i, t)}
  <2>1. Innermost(cstack, t, Len(cstack), j)
    BY <1>1, <1>2 DEF Counted, Counts
  <2>2. RecordsAre(t, "pcall") \cup RecordsAre(t, "resume") = R /\ Len(cstack) \in Nat
    BY <1>1, JumpsAre
  <2>3. CASE j = 0
    <3>1. R = {}
      BY <2>1, <2>3 DEF Innermost
    <3> QED
      BY <2>2, <2>3, <3>1
  <2>4. CASE j # 0
    <3>1. j \in R /\ R \in SUBSET Int
      BY <2>1, <2>4 DEF Innermost
    <3>2. \A i \in R : i <= j
      BY <2>1, <2>2, <2>4 DEF Innermost
    <3>3. MaxOf(R) = j
      BY <3>1, <3>2, MaxOfIs
    <3> QED
      BY <2>2, <3>1, <3>3
  <2> QED
    BY <2>3, <2>4
<1> QED
  BY <1>2 DEF JumpsGoToTheInnermost

LEMMA CountersFollow ==
  ASSUME IInv
  PROVE  CountersFitTheStack
<1>1. cstack \in Seq(Record) /\ Counted(threads, cstack) /\ Nested(cstack)
      /\ threads \in [Threads -> LuaState]
  BY DEF IInv, Fine, Now, Good
<1>2. ASSUME NEW t \in Threads, threads[t].status # "error"
      PROVE  LET l == threads[t]
                 pcalls == RecordsAre(t, "pcall")
             IN /\ l.nCcalls = Cardinality(RecordsAre(t, "call"))
                /\ l.allowhook = (RecordsAre(t, "hook") = {})
                /\ l.errfunc = (pcalls # {} /\ cstack[MaxOf(pcalls)].ef)
                /\ RecordsOf(t) = {} => l.nCcalls = 0 /\ ~l.errfunc
  <2> DEFINE l == threads[t]
             j == l.errorJmp
             n == Len(cstack)
             P == {i \in 1..n : Is(cstack, i, t, "pcall")}
  <2>1. Counts(cstack, t, n, j, l.nCcalls, l.allowhook, l.errfunc)
    BY <1>1, <1>2 DEF Counted
  <2>2. /\ n \in Nat /\ RecordsAre(t, "pcall") = P
        /\ RecordsAre(t, "call") = CallsOf(cstack, t, n)
        /\ RecordsAre(t, "hook") = {i \in 1..n : Is(cstack, i, t, "hook")}
        /\ RecordsOf(t) = {i \in 1..n : cstack[i].thread = t}
    BY <1>1, JumpsAre DEF CallsOf
  <2>3. DOMAIN cstack = 1..n /\ \A i \in 1..n : cstack[i] \in Record
    BY <1>1, RecordsOfStack
  <2>4. l.nCcalls = Cardinality(RecordsAre(t, "call"))
    BY <2>1, <2>2 DEF Counts
  <2>5. l.allowhook = (RecordsAre(t, "hook") = {})
    <3>1. l.allowhook = Hookable(cstack, t, n)
      BY <2>1 DEF Counts
    <3>2. Hookable(cstack, t, n) = (RecordsAre(t, "hook") = {})
      BY <2>2 DEF Hookable
    <3> QED
      BY <3>1, <3>2
  <2>6. l.errfunc = Handled(cstack, t, n) /\ Innermost(cstack, t, n, j)
    BY <2>1 DEF Counts
  \* A coroutine has nothing below its resume, so the innermost protected
  \* call, if there is one, is where an error jumps to.
  <2>7. P # {} => j \in P /\ \A i \in P : i <= j
    <3> SUFFICES ASSUME NEW p \in P PROVE j \in P /\ \A i \in P : i <= j
      OBVIOUS
    <3>1. Jump(cstack, p, t) /\ p \in 1..n /\ \A i \in P : i \in 1..n /\ Jump(cstack, i, t)
      BY DEF Is, Jump
    <3>2. j \in 1..n /\ Jump(cstack, j, t) /\ \A i \in j + 1..n : ~Jump(cstack, i, t)
      BY <2>6, <3>1 DEF Innermost
    <3>3. \A i \in P : i <= j
      BY <2>2, <3>1, <3>2
    <3>4. cstack[j].k # "resume"
      <4>1. p \in 1..j
        BY <3>1, <3>3
      <4>2. cstack[p].k = "pcall" /\ cstack[p].thread = t /\ cstack[j].thread = t
        BY <3>2 DEF Is, Jump
      <4>3. cstack[j].k = "resume" => p = j
        BY <1>1, <2>3, <3>2, <4>1, <4>2 DEF Nested
      <4> QED
        BY <4>2, <4>3
    <3> QED
      BY <3>2, <3>3, <3>4 DEF Is, Jump
  <2> HIDE DEF P
  <2>8. P # {} => MaxOf(P) = j
    <3>1. P \in SUBSET Int
      BY DEF P
    <3> QED
      BY <2>7, <3>1, MaxOfIs
  <2>9. Handled(cstack, t, n) <=> P # {} /\ cstack[j].ef
    <3>1. ASSUME Handled(cstack, t, n) PROVE P # {} /\ cstack[j].ef
      <4>1. PICK i \in 1..n : /\ Is(cstack, i, t, "pcall") /\ cstack[i].ef
                              /\ \A m \in i + 1..n : ~Is(cstack, m, t, "pcall")
        BY <3>1 DEF Handled
      <4>2. i \in P
        BY <4>1 DEF P
      <4>3. j \in 1..n /\ Is(cstack, j, t, "pcall") /\ i <= j
        BY <2>7, <4>2 DEF P
      <4>4. i = j
        BY <2>2, <4>1, <4>3
      <4> QED
        BY <4>1, <4>2, <4>4
    <3>2. ASSUME P # {}, cstack[j].ef PROVE Handled(cstack, t, n)
      <4>1. j \in 1..n /\ Is(cstack, j, t, "pcall")
        BY <2>7, <3>2 DEF P
      <4>2. \A m \in j + 1..n : ~Is(cstack, m, t, "pcall")
        BY <2>2, <2>7, <3>2, <4>1 DEF P
      <4> QED
        BY <3>2, <4>1, <4>2 DEF Handled
    <3> QED
      BY <3>1, <3>2
  <2>10. l.errfunc \in BOOLEAN
    BY <1>1 DEF LuaState
  <2>11. l.errfunc = (P # {} /\ cstack[MaxOf(P)].ef)
    BY <2>6, <2>8, <2>9, <2>10
  <2>12. RecordsOf(t) = {} => l.nCcalls = 0 /\ ~l.errfunc
    <3> SUFFICES ASSUME RecordsOf(t) = {} PROVE l.nCcalls = 0 /\ ~l.errfunc
      OBVIOUS
    <3>1. CallsOf(cstack, t, n) = {} /\ P = {}
      BY <2>2 DEF CallsOf, Is, P
    <3>2. l.nCcalls = 0
      BY <2>2, <2>4, <3>1, FS_EmptySet
    <3> QED
      BY <2>11, <3>1, <3>2
  <2> QED
    BY <2>2, <2>4, <2>5, <2>11, <2>12
<1> QED
  BY <1>2 DEF CountersFitTheStack
-----------------------------------------------------------------------------
(* What coroutine.status says and what Coroutines says of a coroutine.     *)

(* The n-th of a set of places.                                            *)
UpTo(S, i) == {j \in S : j <= i}
LEMMA Counting ==
  ASSUME NEW n \in Nat, NEW S \in SUBSET (1..n)
  PROVE  /\ IsFiniteSet(S) /\ Cardinality(S) \in Nat
         /\ \A i \in S : Cardinality(UpTo(S, i)) \in 1..Cardinality(S)
         /\ \A i, k \in S : Cardinality(UpTo(S, i)) = Cardinality(UpTo(S, k)) => i = k
         /\ \A m \in 1..Cardinality(S) : \E i \in S : Cardinality(UpTo(S, i)) = m
         /\ \A i \in S : (\A j \in S : j <= i) => Cardinality(UpTo(S, i)) = Cardinality(S)
<1>1. IsFiniteSet(S) /\ Cardinality(S) \in Nat
  <2>1. IsFiniteSet(1..n)
    BY FS_Interval
  <2> QED BY <2>1, FS_Subset, FS_CardinalityType
<1>2. ASSUME NEW i \in S
      PROVE  /\ UpTo(S, i) \in SUBSET S /\ i \in UpTo(S, i) /\ IsFiniteSet(UpTo(S, i))
             /\ Cardinality(UpTo(S, i)) \in 1..Cardinality(S)
  <2>1. UpTo(S, i) \in SUBSET S /\ i \in UpTo(S, i)
    BY DEF UpTo
  <2>2. IsFiniteSet(UpTo(S, i)) /\ Cardinality(UpTo(S, i)) <= Cardinality(S)
    BY <1>1, <2>1, FS_Subset
  <2>3. Cardinality(UpTo(S, i)) \in Nat /\ Cardinality(UpTo(S, i)) # 0
    BY <2>1, <2>2, FS_CardinalityType, FS_EmptySet
  <2> QED BY <1>1, <2>1, <2>2, <2>3
<1>3. ASSUME NEW i \in S, NEW k \in S, i < k
      PROVE  Cardinality(UpTo(S, i)) # Cardinality(UpTo(S, k))
  <2>1. UpTo(S, i) \in SUBSET UpTo(S, k) /\ k \in UpTo(S, k) /\ k \notin UpTo(S, i)
    <3>1. \A j \in S : j \in Int
      OBVIOUS
    <3>2. \A j \in S : j <= i => j <= k
      BY <1>3, <3>1
    <3>3. i \in Int /\ k \in Int /\ k <= k /\ ~(k <= i)
      BY <1>3, <3>1
    <3> QED BY <3>2, <3>3 DEF UpTo
  <2> QED BY <1>2, <2>1, FS_Subset
<1>4. \A i, k \in S : Cardinality(UpTo(S, i)) = Cardinality(UpTo(S, k)) => i = k
  <2>1. \A i, k \in S : i < k \/ k < i \/ i = k
    OBVIOUS
  <2> QED BY <1>3, <2>1
<1> DEFINE f == [i \in S |-> Cardinality(UpTo(S, i))]
           T == 1..Cardinality(S)
<1>5. f \in Injection(S, T)
  BY <1>2, <1>4 DEF Injection, IsInjective
<1>6. IsFiniteSet(T) /\ Cardinality(T) = Cardinality(S)
  BY <1>1, FS_Interval
<1>7. f \in Surjection(S, T)
  <2> HIDE DEF f, T
  <2> QED BY <1>5, <1>6, FS_Injection
<1>8. \A m \in 1..Cardinality(S) : \E i \in S : Cardinality(UpTo(S, i)) = m
  BY <1>7 DEF Surjection
<1>9. \A i \in S : (\A j \in S : j <= i) => Cardinality(UpTo(S, i)) = Cardinality(S)
  <2> TAKE i \in S
  <2> HAVE \A j \in S : j <= i
  <2>1. UpTo(S, i) = S
    BY DEF UpTo
  <2> QED BY <2>1
<1> QED BY <1>1, <1>2, <1>4, <1>8, <1>9

LEMMA NthIs ==
  ASSUME NEW n \in Nat, NEW S \in SUBSET (1..n)
  PROVE  /\ \A m \in 1..Cardinality(S) : Nth(S, m) \in S
         /\ \A i \in S : \E m \in 1..Cardinality(S) : Nth(S, m) = i
         /\ S # {} => \A i \in S : i <= Nth(S, Cardinality(S))
<1>1. \A m : Nth(S, m) = CHOOSE i \in S : Cardinality(UpTo(S, i)) = m
  BY DEF Nth, UpTo
<1>2. \A m \in 1..Cardinality(S) : Nth(S, m) \in S /\ Cardinality(UpTo(S, Nth(S, m))) = m
  <2> TAKE m \in 1..Cardinality(S)
  <2>1. \E i \in S : Cardinality(UpTo(S, i)) = m
    BY Counting
  <2> QED BY <1>1, <2>1
<1>3. \A i \in S : \E m \in 1..Cardinality(S) : Nth(S, m) = i
  <2> TAKE i \in S
  <2> DEFINE m == Cardinality(UpTo(S, i))
  <2>1. m \in 1..Cardinality(S)
    BY Counting
  <2>2. Nth(S, m) = i
    <3>1. Nth(S, m) \in S /\ Cardinality(UpTo(S, Nth(S, m))) = Cardinality(UpTo(S, i))
      BY <1>2, <2>1
    <3>2. \A j, k \in S : Cardinality(UpTo(S, j)) = Cardinality(UpTo(S, k)) => j = k
      BY Counting
    <3> QED BY <3>1, <3>2
  <2> QED BY <2>1, <2>2
<1>4. ASSUME S # {}, NEW i \in S PROVE i <= Nth(S, Cardinality(S))
  <2> DEFINE N == Cardinality(S)
             k == Nth(S, N)
  <2>1. IsFiniteSet(S) /\ N \in Nat /\ N # 0
    BY <1>4, Counting, FS_EmptySet
  <2>2. k \in S /\ Cardinality(UpTo(S, k)) = N
    BY <1>2, <2>1
  <2>3. UpTo(S, k) = S
    <3>1. UpTo(S, k) \in SUBSET S
      BY DEF UpTo
    <3> QED BY <2>1, <2>2, <3>1, FS_Subset
  <2> QED BY <2>3 DEF UpTo
<1> QED BY <1>2, <1>3, <1>4

(* Chain ends with the thread that runs, and has the main thread and those *)
(* that were resumed and have not returned.                                *)
Linked(chain, t) == \E i \in DOMAIN chain : chain[i].thread = t
WasResumed(t) == \E i \in DOMAIN cstack : Is(cstack, i, t, "resume")
LEMMA ChainIs ==
  ASSUME cstack \in Seq(Record), cstack # <<>>, Nested(cstack)
  PROVE  /\ Last(Chain).thread = Last(cstack).thread
         /\ \A t : Linked(Chain, t) <=> (t = Main \/ WasResumed(t))
<1> DEFINE n == Len(cstack)
           N == Cardinality(Resumes)
           bottom == [thread |-> Main, how |-> "resume"]
           link(i) == [thread |-> cstack[i].thread, how |-> cstack[i].how]
           above == [m \in 1..N |-> link(Nth(Resumes, m))]
<1>1. n \in Nat \ {0} /\ DOMAIN cstack = 1..n /\ Last(cstack) = cstack[n]
  BY EmptySeq DEF Last
<1>2. Resumes \in SUBSET (1..n) /\ \A i \in 1..n : i \in Resumes <=> cstack[i].k = "resume"
  BY <1>1 DEF Resumes
<1> HIDE DEF n
<1>3. N \in Nat /\ (N = 0 <=> Resumes = {})
  BY <1>1, <1>2, Counting, FS_EmptySet
<1>4. /\ \A m \in 1..N : Nth(Resumes, m) \in Resumes
      /\ \A i \in Resumes : \E m \in 1..N : Nth(Resumes, m) = i
      /\ Resumes # {} => \A i \in Resumes : i <= Nth(Resumes, N)
  BY <1>1, <1>2, NthIs
<1>5. Chain = <<bottom>> \o above
  BY DEF Chain
<1> HIDE DEF N
<1>6. above \in Seq({link(i) : i \in Resumes}) /\ Len(above) = N /\ \A m \in 1..N : above[m] = link(Nth(Resumes, m))
  BY <1>3, <1>4
<1> HIDE DEF above, link, bottom
<1>7. /\ Len(Chain) = 1 + N /\ DOMAIN Chain = 1..(1 + N) /\ Chain[1] = bottom
      /\ \A m \in 1..N : Chain[1 + m] = above[m]
  BY <1>3, <1>5, <1>6
<1>8. \A m \in 1..N : Chain[1 + m].thread = cstack[Nth(Resumes, m)].thread
  BY <1>6, <1>7 DEF link
<1>9. Chain[1].thread = Main /\ Last(Chain) = Chain[1 + N]
  BY <1>7 DEF bottom, Last
<1>10. ASSUME NEW t PROVE Linked(Chain, t) <=> (t = Main \/ WasResumed(t))
  <2>1. \A j \in 1..(1 + N) : j = 1 \/ (j - 1 \in 1..N /\ j = 1 + (j - 1))
    BY <1>3
  <2>2. ASSUME Linked(Chain, t) PROVE t = Main \/ WasResumed(t)
    <3>1. PICK j \in 1..(1 + N) : Chain[j].thread = t
      BY <2>2, <1>7 DEF Linked
    <3>2. CASE j = 1
      BY <3>1, <3>2, <1>9
    <3>3. CASE j # 1
      <4>1. j - 1 \in 1..N /\ cstack[Nth(Resumes, j - 1)].thread = t
        BY <2>1, <3>1, <3>3, <1>8
      <4>2. Nth(Resumes, j - 1) \in Resumes
        BY <4>1, <1>4
      <4> QED BY <4>1, <4>2, <1>1, <1>2 DEF WasResumed, Is
    <3> QED BY <3>2, <3>3
  <2>3. 1 \in 1..(1 + N) /\ \A m \in 1..N : 1 + m \in 1..(1 + N)
    BY <1>3
  <2>4. ASSUME t = Main PROVE Linked(Chain, t)
    BY <2>3, <2>4, <1>7, <1>9 DEF Linked
  <2>5. ASSUME WasResumed(t) PROVE Linked(Chain, t)
    <3>1. PICK i \in Resumes : cstack[i].thread = t
      BY <2>5, <1>1, <1>2 DEF WasResumed, Is
    <3>2. PICK m \in 1..N : Nth(Resumes, m) = i
      BY <1>4
    <3> QED BY <2>3, <3>1, <3>2, <1>7, <1>8 DEF Linked
  <2> QED BY <2>2, <2>4, <2>5
<1>11. CASE N = 0
  <2>1. \A m \in 1..n : cstack[m].k # "resume"
    BY <1>2, <1>3, <1>11
  <2>2. cstack[1].thread = Main /\ 1 \in 1..n
    BY <1>1 DEF Nested, Is
  <2>3. cstack[n].thread = Main
    <3>1. CASE n = 1
      BY <2>2, <3>1
    <3>2. CASE n # 1
      <4>1. 1 < n /\ n \in 1..n /\ \A m \in 1 + 1..n : m \in 1..n
        BY <1>1, <3>2
      <4> QED BY <1>1, <2>1, <2>2, <4>1 DEF Nested, Is
    <3> QED BY <3>1, <3>2
  <2> QED BY <1>1, <1>9, <1>10, <1>11, <2>3
<1>12. CASE N # 0
  <2> DEFINE i == Nth(Resumes, N)
  <2>1. N \in 1..N /\ Resumes # {}
    BY <1>3, <1>12
  <2>2. i \in Resumes /\ i \in 1..n /\ \A m \in Resumes : m <= i
    BY <1>2, <1>4, <2>1
  <2>3. Last(Chain).thread = cstack[i].thread
    BY <1>8, <1>9, <2>1
  <2> HIDE DEF i
  <2>4. cstack[n].thread = cstack[i].thread
    <3>1. CASE i = n
      BY <3>1
    <3>2. CASE i # n
      <4>1. i < n /\ n \in 1..n /\ \A m \in i + 1..n : m \in 1..n /\ ~(m <= i)
        BY <1>1, <2>2, <3>2
      <4>2. \A m \in i + 1..n : cstack[m].k # "resume"
        BY <1>2, <2>2, <4>1
      <4> QED BY <1>1, <2>2, <4>1, <4>2 DEF Nested, Is
    <3> QED BY <3>1, <3>2
  <2> QED BY <1>1, <1>10, <2>3, <2>4
<1> QED BY <1>11, <1>12

(* As many Lua functions as there are in a list, and at least one.         *)
LEMMA SomeLua ==
  ASSUME NEW ci \in Seq(CiKinds), NEW j \in DOMAIN ci, ci[j] = "lua"
  PROVE  [i \in 1..Cardinality({m \in DOMAIN ci : ci[m] = "lua"}) |-> "lua"] # <<>>
<1> DEFINE S == {m \in DOMAIN ci : ci[m] = "lua"}
<1>1. DOMAIN ci = 1..Len(ci) /\ Len(ci) \in Nat
  OBVIOUS
<1>2. IsFiniteSet(S)
  <2>1. IsFiniteSet(1..Len(ci))
    BY <1>1, FS_Interval
  <2> QED BY <1>1, <2>1, FS_Subset
<1>3. S # {}
  OBVIOUS
<1> HIDE DEF S
<1>4. Cardinality(S) \in Nat /\ Cardinality(S) # 0
  BY <1>2, <1>3, FS_CardinalityType, FS_EmptySet
<1>5. 1 \in DOMAIN [i \in 1..Cardinality(S) |-> "lua"]
  BY <1>4
<1>6. DOMAIN <<>> = {}
  OBVIOUS
<1> QED BY <1>5, <1>6 DEF S

LEMMA StatusFollows ==
  ASSUME IInv
  PROVE  StatusIsRight
<1> SUFFICES ASSUME cstack # <<>>, NEW co \in Threads \ {Main} PROVE CoStatus(co) = C!Status(co)
  BY DEF StatusIsRight
<1>1. PICK v : Good(threads, cstack, v)
  BY DEF IInv, Fine, Now
<1>2. /\ threads \in [Threads -> LuaState] /\ cstack \in Seq(Record) /\ Nested(cstack)
      /\ Waiting(threads, cstack, v) /\ Idle(threads, cstack) /\ Alive(threads, cstack)
  BY <1>1 DEF Good
<1> DEFINE l == threads[co]
           n == Len(cstack)
<1>3. n \in Nat \ {0} /\ DOMAIN cstack = 1..n
  BY <1>2, EmptySeq
<1>4. l \in LuaState
  BY <1>2
<1>5. /\ Last(Chain).thread = Last(cstack).thread
      /\ \A t : Linked(Chain, t) <=> (t = Main \/ WasResumed(t))
  BY <1>2, ChainIs
<1>6. L(Now) = Last(cstack).thread
  BY DEF L, Now
<1>7. AllActs[co] = ActsOf(co)
  BY DEF AllActs
<1>8. C!Status(co) = IF co = L(Now) THEN "running" ELSE
                     IF WasResumed(co) THEN "normal" ELSE
                     IF ActsOf(co) = <<>> THEN "dead" ELSE "suspended"
  <2>1. C!Running(C!Now) = L(Now)
    BY <1>5, <1>6 DEF C!Running, C!Now, C!Last, Last
  <2>2. (\E i \in DOMAIN Chain : Chain[i].thread = co) <=> WasResumed(co)
    BY <1>5 DEF Linked
  <2>3. CASE co = L(Now)
    BY <2>1, <2>3 DEF C!Status
  <2>4. CASE co # L(Now) /\ WasResumed(co)
    BY <2>1, <2>2, <2>4 DEF C!Status
  <2>5. CASE co # L(Now) /\ ~WasResumed(co)
    BY <1>7, <2>1, <2>2, <2>5 DEF C!Status
  <2> QED BY <2>3, <2>4, <2>5
<1>9. CASE co = L(Now)
  BY <1>8, <1>9 DEF CoStatus
<1>10. CASE co # L(Now) /\ WasResumed(co)
  <2>1. PICK i \in 1..n : cstack[i].thread = co
    BY <1>3, <1>10 DEF WasResumed, Is
  <2>2. l.status = "ok" /\ Len(l.ci) > 1
    BY <1>2, <1>3, <1>6, <1>10, <2>1 DEF Alive, Waiting
  <2> QED BY <1>8, <1>10, <2>2 DEF CoStatus
<1>11. CASE co # L(Now) /\ ~WasResumed(co)
  <2>1. \A i \in 1..n : cstack[i].thread # co
    <3> SUFFICES ASSUME NEW i \in 1..n, cstack[i].thread = co PROVE FALSE
      OBVIOUS
    <3>1. cstack[1].thread = Main /\ co # Main /\ 1 \in 1..n
      BY <1>2, <1>3 DEF Nested, Is
    <3>2. 1 < i
      BY <1>3, <3>1
    <3>3. \E m \in 1 + 1..i : Is(cstack, m, cstack[i].thread, "resume")
      BY <1>2, <1>3, <3>1, <3>2 DEF Nested
    <3>4. \A m \in 1 + 1..i : m \in 1..n
      BY <1>3
    <3> QED BY <1>3, <1>11, <3>3, <3>4 DEF WasResumed
  <2>2. RecordsOf(co) = {}
    BY <1>3, <2>1 DEF RecordsOf
  <2>3. l.status = "ok" => Len(l.ci) = 1
    BY <1>2, <1>3, <2>1 DEF Idle
  <2>4. l.status = "yield" => Len(l.ci) > 2 /\ \A j \in 2..Len(l.ci) - 1 : l.ci[j] = "lua"
    BY <1>2, <1>3, <2>1 DEF Idle
  <2>5. CASE l.status = "error"
    BY <1>8, <1>11, <2>5 DEF CoStatus, ActsOf
  <2>6. CASE l.status = "yield"
    <3>1. l.ci \in Seq(CiKinds) /\ Len(l.ci) \in Nat /\ DOMAIN l.ci = 1..Len(l.ci)
      BY <1>4 DEF LuaState
    <3>2. 2 \in DOMAIN l.ci /\ l.ci[2] = "lua"
      BY <2>4, <2>6, <3>1
    <3>3. ActsOf(co) # <<>>
      BY <2>6, <3>1, <3>2, SomeLua DEF ActsOf
    <3> QED BY <1>8, <1>11, <2>6, <3>3 DEF CoStatus
  <2>7. CASE l.status = "ok"
    <3>1. ActsOf(co) = IF l.top = 1 THEN <<"lua">> ELSE <<>>
      BY <2>2, <2>7 DEF ActsOf
    <3>2. l.top \in {0, 1}
      BY <1>4 DEF LuaState
    <3>3. CoStatus(co) = IF l.top = 0 THEN "dead" ELSE "suspended"
      <4>1. ~(Len(l.ci) > 1)
        <5>1. Len(l.ci) = 1
          BY <2>3, <2>7
        <5> QED BY <5>1
      <4>2. CASE l.top = 0
        BY <1>11, <2>7, <4>1, <4>2 DEF CoStatus
      <4>3. CASE l.top # 0
        BY <1>11, <2>7, <4>1, <4>3 DEF CoStatus
      <4> QED BY <4>2, <4>3
    <3>4. <<"lua">> # <<>>
      OBVIOUS
    <3> QED BY <1>8, <1>11, <3>1, <3>2, <3>3, <3>4
  <2> QED BY <1>4, <2>5, <2>6, <2>7 DEF LuaState
<1> QED BY <1>9, <1>10, <1>11
-----------------------------------------------------------------------------
(* The state is what it is meant to be: no CallInfo is larger than growCI  *)
(* allows, no counter of C calls passes the limit (ldo.c:176-190, 375).    *)
THEOREM TypeCorrect == Spec => []TypeOK
BY StaysFine, TypeFollows, PTL

(* An error never jumps to a C function that has returned: the errorJmp of *)
(* a thread is its innermost record of luaD_rawrunprotected (ldo.c:111).   *)
THEOREM ErrorsJumpToTheInnermost == Spec => []JumpsGoToTheInnermost
BY StaysFine, JumpsFollow, PTL

(* nCcalls, allowhook and errfunc of a thread are what it has under way on *)
(* the C stack, however errors, yields and resumes cut it (ldo.c:449-472). *)
THEOREM CountersAreTheStacks == Spec => []CountersFitTheStack
BY StaysFine, CountersFollow, PTL

(* coroutine.status tells what a resume would do (luaB_costatus): the      *)
(* chain of the abstract coroutines ends with the thread that runs, those  *)
(* on it wait in the C function that resumed another, and a thread that is *)
(* not on it is at its start, between a yield and a resume, or over.       *)
THEOREM StatusTellsTheTruth == Spec => []StatusIsRight
BY StaysFine, StatusFollows, PTL
=============================================================================
