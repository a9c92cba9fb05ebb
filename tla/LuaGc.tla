------------------------------- MODULE LuaGc --------------------------------
(* The incremental collector of the Lua state ldb runs (lgc.c), between    *)
(* the steps of the program: allocation, tables, metatables, closures and  *)
(* their upvalues, coroutines, weak tables and finalizers.                 *)
EXTENDS LuaHeap

CONSTANTS Texts,        \* 1..n, contents of strings, one bucket of the hash each
          Repertoires,  \* what programs do: the kinds of objects they create, the
                        \* slots they have, the flags of their tables, and which of
                        \* "globals", "keys" (objects for keys), "metatables" (any),
                        \* "ownmetatable" (a table as its own), "collectgarbage",
                        \* "close" they use
          Captured,     \* the registers closures take for upvalues
          MaxEntries,   \* of one table
          SweepMax      \* GCSWEEPMAX

ASSUME GcAssumption ==
  /\ IsFiniteSet(Texts) /\ Texts = 1..Cardinality(Texts)
  /\ Captured \subseteq Registers /\ SweepMax \in Nat
  /\ \A d \in Repertoires : /\ d.flags \subseteq SUBSET {"k", "v", "gc"}
                            /\ d.memory \subseteq Slots

VARIABLES heap, callers, tmudata, g, phase, called, doomed, does
vars == <<heap, callers, tmudata, g, phase, called, doomed, does>>

(* L, the running thread; the others wait in a resume.                     *)
L == callers[Len(callers)]
Register(r) == heap[L].stack[r]

-----------------------------------------------------------------------------
(* Marks.  m is the global_State: colours and lists of the collector.      *)

OtherWhite(m) == IF m.currentwhite = "white0" THEN "white1" ELSE "white0"
IsWhite(m, s) == m.marked[s] \in {"white0", "white1"}
IsDead(m, s) == m.marked[s] = OtherWhite(m)
Paint(m, s, colour) == [m EXCEPT !.marked[s] = colour]
MakeWhite(m, s) == Paint(m, s, m.currentwhite)
PaintAll(m, S, colour) ==
  [m EXCEPT !.marked = [s \in Slots |-> IF s \in S THEN colour ELSE @[s]]]
Link(m, s) == MakeWhite([m EXCEPT !.rootgc = <<s>> \o @,
                                  !.sweepgc = IF @ <= 1 THEN @ ELSE @ + 1], s)

MarkSimpleGrays(h, m, s) ==
  IF s \notin Slots \/ m.marked[s] = "black" THEN m
  ELSE IF h[s].tt = "string" THEN Paint(m, s, "gray")
  ELSE [m EXCEPT !.marked[s] = "gray", !.gray = <<s>> \o @]

(* reallymarkobject: strings are only stripped of their white; userdata    *)
(* turn black and mark their metatable; an upvalue marks its value; the    *)
(* others wait in the list gray.                                           *)
MarkSimple(h, m, s) ==
  IF s \notin Slots \/ ~IsWhite(m, s) THEN m
  ELSE IF h[s].tt = "string" THEN Paint(m, s, "gray")
  ELSE [m EXCEPT !.marked[s] = "gray", !.gray = <<s>> \o @]
MarkUserdata(h, m, s) ==
  IF IsA(h, s, "userdata") /\ IsWhite(m, s)
    THEN MarkSimple(h, Paint(m, s, "black"), h[s].meta)
    ELSE MarkSimple(h, m, s)
Mark(h, m, s) ==
  IF IsA(h, s, "upval") /\ IsWhite(m, s)
    THEN LET n == MarkUserdata(h, Paint(m, s, "gray"), UpvalValue(h, s))
         IN  IF h[s].open THEN n ELSE Paint(n, s, "black")
    ELSE MarkUserdata(h, m, s)

MarkAll(h, m, seq) == FoldLeft(LAMBDA n, s : Mark(h, n, s), m, seq)

TraverseWeakNot(h, m, t) ==
  LET e == h[t].entries
      n == [m EXCEPT !.weak = IF Mode(h, t) = {} THEN @ ELSE <<t>> \o @]
      keys == SetToSeq(DOMAIN e)
  IN  MarkAll(h, n, <<h[t].meta>> \o (IF Mode(h, t) # {} THEN <<>>
                                        ELSE keys \o [i \in DOMAIN keys |-> e[keys[i]]]))
(* A weak table is put in the list weak, and only its strong sides marked. *)
TraverseTable(h, m, t) ==
  LET e == h[t].entries
      n == [m EXCEPT !.weak = IF Mode(h, t) = {} THEN @ ELSE <<t>> \o @]
      keys == SetToSeq(DOMAIN e)
      values == [i \in DOMAIN keys |-> e[keys[i]]]
  IN  MarkAll(h, n, <<h[t].meta>>
                      \o (IF "v" \in Mode(h, t) THEN <<>> ELSE values)
                      \o (IF "k" \in Mode(h, t) THEN <<>> ELSE keys))

TraverseClosure(h, m, f) == MarkAll(h, m, h[f].upvals)

(* A thread is never black: it is visited again at the end.                *)
TraverseStack(h, m, th) ==
  MarkAll(h, Paint([m EXCEPT !.grayagain = <<th>> \o @], th, "gray"),
          <<Globals, h[th].resumed>> \o h[th].stack)

PropagateMark(h, m) ==
  LET o == Head(m.gray)
      n == [Paint(m, o, "black") EXCEPT !.gray = Tail(@)]
  IN  CASE h[o].tt = "table" ->
             LET t == TraverseTable(h, n, o)
             IN  IF Mode(h, o) = {} THEN t ELSE Paint(t, o, "gray")
        [] h[o].tt = "function" -> TraverseClosure(h, n, o)
        [] h[o].tt = "thread" -> TraverseStack(h, n, o)
        [] OTHER -> n

PropagateAll(h, m) ==
  FoldLeft(LAMBDA n, i : IF n.gray = <<>> THEN n ELSE PropagateMark(h, n),
           m, [i \in 1..Cardinality(Slots) |-> i])

MarkRoot(h, m) ==
  MarkAll(h, [m EXCEPT !.gray = <<>>, !.grayagain = <<>>, !.weak = <<>>,
                       !.gcstate = "propagate"], <<Main, Globals>>)

-----------------------------------------------------------------------------
(* The atomic end of the mark phase.  Between it and the next markroot the *)
(* lists gray, grayagain and weak are never read: they are kept empty.     *)

OpenUpvals(h) == {u \in Slots : IsA(h, u, "upval") /\ h[u].open}
RemarkUpvals(h, m) ==
  MarkAll(h, m, SetToSeq({UpvalValue(h, u) : u \in {v \in OpenUpvals(h) : m.marked[v] = "gray"}}))

(* Userdata are linked behind the main thread, the newest first.           *)
MainAt(m) == CHOOSE i \in DOMAIN m.rootgc : m.rootgc[i] = Main
LinkUserdata(m, s) ==
  MakeWhite([m EXCEPT !.rootgc = InsertAt(@, MainAt(m) + 1, s),
                      !.sweepgc = IF @ <= MainAt(m) + 1 THEN @ ELSE @ + 1], s)

(* luaC_separateudata: the userdata (all: or only the white ones) not yet  *)
(* finalized leave the list of objects for tmudata, in the list's order,   *)
(* if their metatable has a __gc; the flag is set in any case.             *)
Considered(h, m, all) ==
  {u \in Range(m.rootgc) : IsA(h, u, "userdata") /\ ~h[u].finalized /\ (all \/ IsWhite(m, u))}
SeparateUnflagged(h, m, all) ==
  LET finalize == {u \in Considered(h, m, all) : HasGc(h, u)}
  IN  [heap |-> h, separated |-> Those(m.rootgc, finalize),
       g |-> [m EXCEPT !.rootgc = Those(@, Slots \ finalize)]]
Separate(h, m, all) ==
  LET considered == Considered(h, m, all)
      finalize == {u \in considered : HasGc(h, u)}
  IN  [heap |-> [s \in Slots |-> IF s \in considered THEN [h[s] EXCEPT !.finalized = TRUE]
                                 ELSE h[s]],
       g |-> [m EXCEPT !.rootgc = Those(@, Slots \ finalize)],
       separated |-> Those(m.rootgc, finalize)]

MarkTmu(h, m, tmu) == FoldLeft(LAMBDA n, u : Mark(h, MakeWhite(n, u), u), m, tmu)

(* cleartable: entries with a collected key or value go; finalized         *)
(* userdata go as values; the strings met are marked.                      *)
Collected(h, m, v, iskey) ==
  /\ v \in Slots /\ h[v].tt # "string"
  /\ IsWhite(m, v) \/ (h[v].tt = "userdata" /\ ~iskey /\ h[v].finalized)
Cleared(h, m, t, k) ==
  IF k = Number THEN "v" \in Mode(h, t) /\ Collected(h, m, h[t].entries[k], FALSE)
  ELSE Collected(h, m, k, TRUE) \/ Collected(h, m, h[t].entries[k], FALSE)
ClearTable(h, m) ==
  LET Kept(t) == {k \in DOMAIN h[t].entries : ~Cleared(h, m, t, k)}
      strings == UNION {{v \in Kept(t) \cup {h[t].entries[k] : k \in Kept(t)} :
                           IsA(h, v, "string")} : t \in Range(m.weak)}
  IN  [heap |-> [s \in Slots |-> IF s \notin Range(m.weak) THEN h[s]
                   ELSE [h[s] EXCEPT !.entries = [k \in Kept(s) |-> @[k]]]],
       g |-> MarkAll(h, m, SetToSeq(strings))]

-----------------------------------------------------------------------------
(* Barriers and upvalues.                                                  *)

BarrierForward(h, m, o, v) ==
  IF ~(IsWhite(m, v) /\ m.marked[o] = "black") THEN m
  ELSE IF m.gcstate = "propagate" THEN Mark(h, m, v) ELSE MakeWhite(m, o)
BarrierBack(m, t, v) ==
  IF ~(IsWhite(m, v) /\ m.marked[t] = "black") THEN m
  ELSE [Paint(m, t, "gray") EXCEPT
          !.grayagain = IF m.gcstate = "propagate" THEN <<t>> \o @ ELSE @]
Barrier(h, m, o, v) ==
  IF v \notin Slots THEN m
  ELSE IF h[o].tt = "table" THEN BarrierBack(m, o, v) ELSE BarrierForward(h, m, o, v)

LinkUpval(h, m, u) ==
  LET n == [m EXCEPT !.rootgc = <<u>> \o @, !.sweepgc = IF @ <= 1 THEN @ ELSE @ + 1]
  IN  IF n.marked[u] # "gray" THEN n
      ELSE IF n.gcstate = "propagate" THEN Barrier(h, Paint(n, u, "black"), u, h[u].value)
      ELSE MakeWhite(n, u)

(* luaF_close: the open upvalues of a thread at or above a level take      *)
(* their values with them; a dead one is freed.                            *)
CloseOne(s, u) ==
  LET th == s.heap[u].thread
      h == [s.heap EXCEPT ![th].openupval = Those(@, Slots \ {u}),
                          ![u] = IF IsDead(s.g, u) THEN Free
                                 ELSE [@ EXCEPT !.open = FALSE, !.value = UpvalValue(s.heap, u)]]
  IN  [heap |-> h, g |-> IF IsDead(s.g, u) THEN Paint(s.g, u, "none") ELSE LinkUpval(h, s.g, u)]
CloseUpvals(s, thread, level) ==
  LET open == s.heap[thread].openupval
  IN  FoldLeft(CloseOne, s, Those(open, {u \in Range(open) : s.heap[u].level >= level}))

-----------------------------------------------------------------------------
(* The sweep.                                                              *)

SweepOpenUpvals(s, th) ==
  LET dead == {u \in Range(s.heap[th].openupval) : IsDead(s.g, u)}
      left == Those(s.heap[th].openupval, Slots \ dead)
  IN  [heap |-> [o \in Slots |-> IF o \in dead THEN Free
                                 ELSE IF o = th THEN [s.heap[o] EXCEPT !.openupval = left]
                                 ELSE s.heap[o]],
       g |-> PaintAll(PaintAll(s.g, dead, "none"), Range(left), s.g.currentwhite)]

(* freeobj, and the object leaves rootgc, which the upvalues closed enter. *)
FreeObject(s, o) ==
  LET c == IF s.heap[o].tt = "thread" THEN CloseUpvals(s, o, 0) ELSE s
  IN  [heap |-> [c.heap EXCEPT ![o] = Free],
       g |-> [Paint(c.g, o, "none") EXCEPT !.rootgc = Those(@, Slots \ {o})]]

SweepOneSkipping(s) ==
  IF s.g.sweepgc > Len(s.g.rootgc) THEN s
  ELSE LET o == s.g.rootgc[s.g.sweepgc]
           t == IF s.heap[o].tt = "thread" THEN SweepOpenUpvals(s, o) ELSE s
       IN  IF IsDead(t.g, o) /\ o # Main
           THEN FreeObject([t EXCEPT !.g.sweepgc = @ + 1], o)
           ELSE [t EXCEPT !.g = [MakeWhite(t.g, o) EXCEPT !.sweepgc = @ + 1]]
SweepOne(s) ==
  IF s.g.sweepgc > Len(s.g.rootgc) THEN s
  ELSE LET o == s.g.rootgc[s.g.sweepgc]
           t == IF s.heap[o].tt = "thread" THEN SweepOpenUpvals(s, o) ELSE s
       IN  IF IsDead(t.g, o) /\ o # Main
           THEN FreeObject(t, o)
           ELSE [t EXCEPT !.g = [MakeWhite(t.g, o) EXCEPT !.sweepgc = @ + 1]]
SweepList(h, m) ==
  FoldLeft(LAMBDA s, i : SweepOne(s), [heap |-> h, g |-> m], [i \in 1..SweepMax |-> i])

(* One bucket of the string table.                                         *)
SweepBucket(h, m, b) ==
  LET strings == {s \in Slots : IsA(h, s, "string") /\ h[s].text = b}
      dead == {s \in strings : IsDead(m, s)}
  IN  [heap |-> [s \in Slots |-> IF s \in dead THEN Free ELSE h[s]],
       g |-> PaintAll(PaintAll(m, dead, "none"), strings \ dead, m.currentwhite)]

-----------------------------------------------------------------------------
(* The program: what the running thread does, with what is in its          *)
(* registers, between two collector steps.                                 *)

Roots == {Main, Globals} \cup Range(callers)
Reach(h, roots) == ReachableBy(h, Strong, roots)

(* doomed: objects nothing could reach when the mark phase began, and not  *)
(* since; called: userdata whose finalizer was called.                     *)
StillDoomed == doomed' = {s \in doomed : /\ heap'[s] # Free
                                         /\ s \notin Reach(heap', {Main, Globals} \cup Range(callers'))}
Settled(h, m) == heap' = h /\ g' = m /\ StillDoomed
Same == UNCHANGED <<tmudata, phase, called, does>>

Running == phase = "open" /\ g.full = "no"
HeldOf(tt) == {s \in Range(heap[L].stack) \cap Slots : heap[s].tt = tt}
InRegister(h, r, v) == [h EXCEPT ![L].stack[r] = v]

Unused == {s \in does.memory : heap[s] = Free}
Fresh == CHOOSE s \in Unused : TRUE
Creates(tt) == tt \in does.things /\ Unused # {}

CreateTable(r, flags) ==
  /\ Creates("table")
  /\ Same /\ UNCHANGED callers
  /\ Settled(InRegister([heap EXCEPT ![Fresh] = NewTable(flags)], r, Fresh), Link(g, Fresh))

CreateUserdata(r) ==
  /\ Creates("userdata")
  /\ Same /\ UNCHANGED callers
  /\ Settled(InRegister([heap EXCEPT ![Fresh] = NewUserdata], r, Fresh), LinkUserdata(g, Fresh))

(* coroutine.create: the function is moved to the new stack.               *)
CreateThread(r, f) ==
  /\ Creates("thread") /\ IsA(heap, Register(f), "function")
  /\ Same /\ UNCHANGED callers
  /\ Settled(InRegister([heap EXCEPT ![Fresh] = [NewThread EXCEPT !.stack[1] = Register(f)]],
                        r, Fresh), Link(g, Fresh))

InternWithoutRevival(r, text) ==
  /\ "string" \in does.things
  /\ Same /\ UNCHANGED callers
  /\ \/ \E s \in Slots : /\ IsA(heap, s, "string") /\ heap[s].text = text
                         /\ Settled(InRegister(heap, r, s), g)
     \/ /\ \A s \in Slots : IsA(heap, s, "string") => heap[s].text # text
        /\ Unused # {}
        /\ Settled(InRegister([heap EXCEPT ![Fresh] = NewString(text)], r, Fresh),
                   MakeWhite(g, Fresh))

(* luaS_newlstr: an equal string is used again, dead or not.               *)
Intern(r, text) ==
  /\ "string" \in does.things
  /\ Same /\ UNCHANGED callers
  /\ \/ \E s \in Slots :
          /\ IsA(heap, s, "string") /\ heap[s].text = text
          /\ Settled(InRegister(heap, r, s), IF IsDead(g, s) THEN MakeWhite(g, s) ELSE g)
     \/ /\ \A s \in Slots : IsA(heap, s, "string") => heap[s].text # text
        /\ Unused # {}
        /\ Settled(InRegister([heap EXCEPT ![Fresh] = NewString(text)], r, Fresh),
                   MakeWhite(g, Fresh))

(* OP_CLOSURE with one upvalue, the local in register c: luaF_findupval    *)
(* takes the open upvalue of the register, dead or not, or makes one.      *)
CreateFunction(r, c) ==
  /\ Creates("function")
  /\ Same /\ UNCHANGED callers
  /\ \/ \E u \in Range(heap[L].openupval) :
          /\ heap[u].level = c
          /\ Settled(InRegister([heap EXCEPT ![Fresh] = NewFunction(<<u>>)], r, Fresh),
                     Link(IF IsDead(g, u) THEN MakeWhite(g, u) ELSE g, Fresh))
     \/ /\ \A u \in Range(heap[L].openupval) : heap[u].level # c
        /\ Unused \ {Fresh} # {}
        /\ LET u == CHOOSE s \in Unused \ {Fresh} : TRUE
               open == heap[L].openupval
               above == Those(open, {v \in Range(open) : heap[v].level > c})
               below == Those(open, {v \in Range(open) : heap[v].level < c})
           IN  Settled(InRegister([heap EXCEPT ![Fresh] = NewFunction(<<u>>),
                                               ![u] = NewUpval(L, c),
                                               ![L].openupval = above \o <<u>> \o below], r, Fresh),
                       MakeWhite(Link(g, Fresh), u))

SetNil(r) ==
  /\ Register(r) # Nil
  /\ Same /\ UNCHANGED callers
  /\ Settled(InRegister(heap, r, Nil), g)

(* OP_SETTABLE: a new key goes through newkey's barrier, the value through *)
(* its own.                                                                *)
Keys == IF "keys" \in does.things THEN Range(heap[L].stack) \cap Slots ELSE {Number}
Metatables(o) ==
  CASE "metatables" \in does.things -> HeldOf("table") \cup {Nil}
    [] "ownmetatable" \in does.things -> {o} \cap HeldOf("table")
    [] OTHER -> {}
Tables == HeldOf("table") \cup (IF "globals" \in does.things THEN {Globals} ELSE {})
SetTable(t, k, r) ==
  /\ Same /\ UNCHANGED callers
  /\ LET e == heap[t].entries
         v == Register(r)
         new == IF v = Nil THEN [j \in DOMAIN e \ {k} |-> e[j]]
                ELSE [j \in DOMAIN e \cup {k} |-> IF j = k THEN v ELSE e[j]]
         keyed == IF k \in DOMAIN e THEN g ELSE Barrier(heap, g, t, k)
     IN  /\ new # e /\ Cardinality(DOMAIN new) <= MaxEntries
         /\ Settled([heap EXCEPT ![t].entries = new], Barrier(heap, keyed, t, v))

GetTable(t, k, r) ==
  /\ k \in Keys
  /\ Same /\ UNCHANGED callers
  /\ Settled(InRegister(heap, r, heap[t].entries[k]), g)

(* next, as ldb's displays use it: a key of the table.                     *)
NextKey(t, k, r) ==
  /\ k # Number
  /\ Same /\ UNCHANGED callers
  /\ Settled(InRegister(heap, r, k), g)

SetMetatableWithoutBarrier(o, meta) ==
  /\ Same /\ UNCHANGED callers
  /\ heap[o].meta # meta
  /\ Settled([heap EXCEPT ![o].meta = meta], g)
SetMetatable(o, meta) ==
  /\ Same /\ UNCHANGED callers
  /\ heap[o].meta # meta
  /\ Settled([heap EXCEPT ![o].meta = meta], Barrier(heap, g, o, meta))

GetUpval(f, r) ==
  /\ Same /\ UNCHANGED callers
  /\ Settled(InRegister(heap, r, UpvalValue(heap, heap[f].upvals[1])), g)

SetUpval(f, r) ==
  /\ Same /\ UNCHANGED callers
  /\ LET u == heap[f].upvals[1]
     IN  Settled(IF heap[u].open
                   THEN [heap EXCEPT ![heap[u].thread].stack[heap[u].level] = Register(r)]
                   ELSE [heap EXCEPT ![u].value = Register(r)],
                 Barrier(heap, g, u, Register(r)))

Close(level) ==
  /\ \E u \in Range(heap[L].openupval) : heap[u].level >= level
  /\ Same /\ UNCHANGED callers
  /\ LET s == CloseUpvals([heap |-> heap, g |-> g], L, level) IN Settled(s.heap, s.g)

(* coroutine.resume: the thread that calls it waits, and the coroutine     *)
(* stays on its stack.                                                     *)
ResumeForgetsCaller(th) ==
  /\ th \notin Range(callers)
  /\ callers' = <<th>>
  /\ Settled([heap EXCEPT ![L].resumed = th], g)
  /\ Same
Resume(th) ==
  /\ th \notin Range(callers)
  /\ callers' = Append(callers, th)
  /\ Settled([heap EXCEPT ![L].resumed = th], g)
  /\ Same

(* A coroutine is left with a value for whoever resumed it.                *)
Yield(r) ==
  /\ Len(callers) > 1
  /\ callers' = Front(callers)
  /\ LET caller == callers[Len(callers) - 1]
     IN  Settled([heap EXCEPT ![caller].resumed = Nil, ![caller].stack[1] = Register(r)], g)
  /\ Same

Program ==
  /\ Running
  /\ \/ \E r \in Registers :
          \/ \E flags \in does.flags : CreateTable(r, flags)
          \/ CreateUserdata(r) \/ SetNil(r) \/ Yield(r)
          \/ \E text \in Texts : Intern(r, text)
          \/ \E c \in Captured : CreateFunction(r, c)
          \/ \E f \in Registers : CreateThread(r, f)
          \/ \E f \in HeldOf("function") : GetUpval(f, r) \/ SetUpval(f, r)
          \/ \E t \in Tables :
               \/ \E k \in Keys : SetTable(t, k, r)
               \/ \E k \in DOMAIN heap[t].entries : GetTable(t, k, r) \/ NextKey(t, k, r)
     \/ \E o \in HeldOf("table") \cup HeldOf("userdata") :
          \E meta \in Metatables(o) : SetMetatable(o, meta)
     \/ \E level \in Captured : Close(level)
     \/ \E th \in HeldOf("thread") : Resume(th)

-----------------------------------------------------------------------------
(* The collector, one singlestep at a time.                                *)

Collecting(state) == phase = "open" /\ g.gcstate = state
Continue == UNCHANGED <<callers, phase, called, does>>

(* doomed: neither reachable nor kept for a finalizer.                     *)
Kept == Roots \cup Range(tmudata) \cup
        {u \in Slots : IsA(heap, u, "userdata") /\ ~heap[u].finalized}
StartCycle(full) ==
  /\ g' = [MarkRoot(heap, g) EXCEPT !.full = full]
  /\ doomed' = Allocated(heap) \ Reach(heap, Kept)
  /\ Continue /\ UNCHANGED <<heap, tmudata>>

StepPause == Collecting("pause") /\ g.full = "no" /\ StartCycle("no")

StepPropagate ==
  /\ Collecting("propagate") /\ g.gray # <<>>
  /\ Continue /\ UNCHANGED tmudata
  /\ Settled(heap, PropagateMark(heap, g))

StepAtomic ==
  /\ Collecting("propagate") /\ g.gray = <<>>
  /\ Continue
  /\ \E upvals \in {PropagateAll(heap, RemarkUpvals(heap, g))} :
     \E weak \in {PropagateAll(heap, Mark(heap, [upvals EXCEPT !.gray = upvals.weak, !.weak = <<>>], L))} :
     \E again \in {PropagateAll(heap, [weak EXCEPT !.gray = weak.grayagain, !.grayagain = <<>>])} :
     \E sep \in {Separate(heap, again, FALSE)} :
     \E preserved \in {PropagateAll(sep.heap, MarkTmu(sep.heap, sep.g, tmudata \o sep.separated))} :
     \E clear \in {ClearTable(sep.heap, preserved)} :
       /\ tmudata' = tmudata \o sep.separated
       /\ Settled(clear.heap,
                  [clear.g EXCEPT !.currentwhite = OtherWhite(clear.g), !.grayagain = <<>>,
                                  !.weak = <<>>, !.sweepstrgc = 0, !.sweepgc = 1,
                                  !.gcstate = "sweepstring"])

StepSweepString ==
  /\ Collecting("sweepstring")
  /\ UNCHANGED <<callers, phase, does, tmudata>>
  /\ LET s == SweepBucket(heap, g, g.sweepstrgc + 1)
     IN  Settled(s.heap, [s.g EXCEPT !.sweepstrgc = @ + 1,
                            !.gcstate = IF g.sweepstrgc + 1 >= Cardinality(Texts) THEN "sweep" ELSE @])
  /\ called' = {u \in called : heap'[u] # Free}

StepSweep ==
  /\ Collecting("sweep")
  /\ UNCHANGED <<callers, phase, does, tmudata>>
  /\ LET s == SweepList(heap, g)
         over == s.g.sweepgc > Len(s.g.rootgc)
     IN  Settled(s.heap, [s.g EXCEPT !.gcstate = IF over THEN "finalize" ELSE @,
                                     !.sweepgc = IF over THEN 0 ELSE @])
  /\ called' = {u \in called : heap'[u] # Free}

(* GCTM: the finalizer is called with its userdata, which it may keep.     *)
Finalize ==
  LET u == Head(tmudata)
  IN  /\ tmudata' = Tail(tmudata)
      /\ called' = IF HasGc(heap, u) THEN called \cup {u} ELSE called
      /\ \/ Settled(heap, LinkUserdata(g, u))
         \/ HasGc(heap, u) /\ \E r \in Registers : Settled(InRegister(heap, r, u), LinkUserdata(g, u))

StepFinalize ==
  /\ Collecting("finalize") /\ g.full # "sweep"
  /\ UNCHANGED <<callers, phase, does>>
  /\ \/ tmudata # <<>> /\ Finalize
     \/ /\ tmudata = <<>>
        /\ Settled(heap, [g EXCEPT !.gcstate = "pause", !.full = "no"])
        /\ UNCHANGED <<tmudata, called>>

Step == StepPause \/ StepPropagate \/ StepAtomic \/ StepSweepString \/ StepSweep \/ StepFinalize

(* luaC_fullgc: the cycle under way is given up or its sweep finished, then *)
(* a whole one is made before the program goes on.                          *)
FullGc ==
  /\ Running /\ "collectgarbage" \in does.things
  /\ Continue /\ UNCHANGED tmudata
  /\ Settled(heap, IF g.gcstate \notin {"pause", "propagate"} THEN [g EXCEPT !.full = "sweep"]
                   ELSE [g EXCEPT !.full = "sweep", !.gcstate = "sweepstring", !.sweepstrgc = 0,
                                  !.sweepgc = 1, !.gray = <<>>, !.grayagain = <<>>, !.weak = <<>>])
FullGcMark == Collecting("finalize") /\ g.full = "sweep" /\ StartCycle("mark")

Collector == Step \/ FullGcMark

(* lua_close: every userdata with a __gc is finalized, then all is freed.  *)
CloseState ==
  /\ Running /\ "close" \in does.things
  /\ LET s == CloseUpvals([heap |-> heap, g |-> g], Main, 0)
         e == [s.heap EXCEPT ![Main].stack = [r \in Registers |-> Nil], ![Main].resumed = Nil]
         sep == Separate(e, s.g, TRUE)
     IN  /\ callers' = <<Main>>
         /\ Settled(sep.heap, sep.g)
         /\ tmudata' = tmudata \o sep.separated
  /\ phase' = "closing"
  /\ UNCHANGED <<called, does>>

CallGcTM ==
  /\ phase = "closing" /\ tmudata # <<>>
  /\ UNCHANGED <<callers, phase, does>>
  /\ Finalize

FreeAll ==
  /\ phase = "closing" /\ tmudata = <<>>
  /\ phase' = "closed"
  /\ UNCHANGED <<callers, tmudata, does>>
  /\ Settled([s \in Slots |-> IF s = Main THEN heap[s] ELSE Free],
             [PaintAll(g, Slots \ {Main}, "none") EXCEPT !.rootgc = <<Main>>, !.gcstate = "pause", !.full = "no"])
  /\ called' = {}

-----------------------------------------------------------------------------
InitHeap == [s \in Slots |-> CASE s = Main -> NewThread [] s = Globals -> NewTable({})
                              [] OTHER -> Free]
Init ==
  /\ heap = InitHeap
  /\ callers = <<Main>> /\ tmudata = <<>> /\ phase = "open" /\ called = {} /\ doomed = {}
  /\ does \in Repertoires
  /\ g = [marked |-> [s \in Slots |-> IF s \in {Main, Globals} THEN "white0" ELSE "none"],
          currentwhite |-> "white0", gcstate |-> "pause", full |-> "no", gray |-> <<>>,
          grayagain |-> <<>>, weak |-> <<>>, rootgc |-> <<Globals, Main>>,
          sweepgc |-> 0, sweepstrgc |-> 0]

Next ==
  \/ Program
  \/ StepPause \/ StepPropagate \/ StepAtomic \/ StepSweepString \/ StepSweep \/ StepFinalize
  \/ FullGc \/ FullGcMark
  \/ CloseState \/ CallGcTM \/ FreeAll

Spec == Init /\ [][Next]_vars

-----------------------------------------------------------------------------
Colours == {"white0", "white1", "gray", "black"}
SlotSeqs == Seq(Slots)
TypeOK ==
  /\ callers \in SlotSeqs /\ Head(callers) = Main /\ tmudata \in SlotSeqs
  /\ phase \in {"open", "closing", "closed"}
  /\ called \subseteq Slots /\ doomed \subseteq Slots
  /\ \A s \in Slots : g.marked[s] \in IF heap[s] = Free THEN {"none"} ELSE Colours
  /\ g.currentwhite \in {"white0", "white1"}
  /\ g.gcstate \in {"pause", "propagate", "sweepstring", "sweep", "finalize"}
  /\ g.full \in {"no", "sweep", "mark"}
  /\ {g.gray, g.grayagain, g.weak, g.rootgc} \subseteq SlotSeqs

(* Nothing the program can get hold of points to memory that was freed:    *)
(* not a table, weak or not, not an upvalue open on the stack of a dead    *)
(* coroutine, nor a userdata that waits for its finalizer.                 *)
NothingDangles ==
  phase # "closed" =>
    \A s \in ReachableBy(heap, Held, Roots \cup Range(tmudata)) : heap[s] # Free

(* While marking, a black object points to no white one, whatever the      *)
(* program stored in it since it was traversed.  (Userdata left in tmudata *)
(* by an earlier cycle are black, and whitened before they are marked.)    *)
BlackToWhite ==
  phase = "open" /\ g.gcstate = "propagate" =>
    \A s \in Allocated(heap) \ Range(tmudata) : g.marked[s] = "black" =>
      \A v \in Held(heap, s) : ~IsWhite(g, v)

(* The lists of the collector share one link field: while marking no       *)
(* object is in two of them, or twice in one, and what they hold is gray.  *)
OneList ==
  g.gcstate = "propagate" =>
    LET all == g.gray \o g.grayagain \o g.weak
    IN  IsInjective(all) /\ \A i \in DOMAIN all : g.marked[all[i]] = "gray"

(* An object nothing could reach when a cycle began, and nothing since,    *)
(* is freed by the end of its sweep (unless a full collection gave the     *)
(* cycle up for a new one): none is forgotten for ever.                    *)
DoomedAreFreed == (g.gcstate = "finalize" /\ g.full # "sweep") => doomed = {}

EndsMarking == g.gcstate = "propagate" /\ g'.gcstate = "sweepstring" /\ g'.full # "sweep"

(* A finalizer is called once, and what the mark phase gives up for dead   *)
(* holds no userdata with a finalizer that was not called.                 *)
FinalizedOnce ==
  [][\A u \in Slots : IsA(heap, u, "userdata") =>
       /\ u \in Range(tmudata') => u \notin called
       /\ (EndsMarking /\ IsDead(g', u) /\ HasGc(heap, u)) => u \in called]_vars

(* An entry leaves a table by the collector only if its key or its value   *)
(* is held weakly and nothing else holds it, or its value is a finalized   *)
(* userdata.                                                               *)
WeakEntriesKept ==
  [][EndsMarking =>
       \A t \in Slots : IsA(heap, t, "table") =>
         \A k \in DOMAIN heap[t].entries \ DOMAIN heap'[t].entries :
           LET v == heap[t].entries[k]
               Lost(x) == x \in Slots /\ x \notin Reach(heap, Roots)
           IN  \/ Mode(heap, t) # {} /\ (Lost(k) \/ Lost(v))
               \/ IsA(heap', v, "userdata") /\ heap'[v].finalized]_vars
=============================================================================
