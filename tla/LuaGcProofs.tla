---------------------------- MODULE LuaGcProofs ----------------------------
(***************************************************************************)
(* The theorems about LuaGc.  The steps of the sweep, of the finalizers,   *)
(* of the atomic end of the mark phase and of lua_close come first, one    *)
(* lemma for each operator of the module; then one lemma for each action   *)
(* of the program and of the collector; then the invariant IInv and the    *)
(* properties that follow from it.                                         *)
(***************************************************************************)
EXTENDS LuaGcLemmas

(* Dead upvalues of a thread are freed, the others left or made white.     *)
FreedUpvals(h, m, k, n, th, D, W) ==
  /\ th \in Slots /\ h[th].tt = "thread" /\ D \subseteq Range(h[th].openupval) /\ W \subseteq Range(h[th].openupval)
  /\ \A u \in D : IsDead(m, u)
  /\ \A u \in W : Live(m, u)
  /\ k \in [Slots -> Objects] /\ n \in Collectors
  /\ \A s \in D : k[s] = Free
  /\ \A s \in Slots \ D : s # th => k[s] = h[s]
  /\ k[th].tt = "thread" /\ k[th].stack = h[th].stack /\ k[th].resumed = h[th].resumed
  /\ IsInjective(k[th].openupval) /\ Range(k[th].openupval) = Range(h[th].openupval) \ D
  /\ \A s \in D : n.marked[s] = "none"
  /\ \A s \in W : n.marked[s] = m.currentwhite
  /\ \A s \in Slots \ (D \cup W) : n.marked[s] = m.marked[s]
  /\ n.rootgc = m.rootgc /\ n.currentwhite = m.currentwhite /\ n.gcstate = m.gcstate
  /\ n.full = m.full /\ n.sweepgc = m.sweepgc /\ n.sweepstrgc = m.sweepstrgc
  /\ InLists(n) = InLists(m)

(* That keeps the invariant: nothing live points to them.                  *)
LEMMA UpvalsFreed ==
  ASSUME NEW h, NEW m, NEW tmu, NEW cs, Good(h, m, tmu, cs, "open"), m.gcstate # "propagate",
         NEW k, NEW n, NEW th, NEW D, NEW W, FreedUpvals(h, m, k, n, th, D, W)
  PROVE  Good(k, n, tmu, cs, "open")
<1>1. /\ Typed(h, m) /\ Closed(h, m) /\ UpvalsOK(h) /\ Placed(h, m, tmu) /\ RootsLive(h, m, tmu, cs)
      /\ Lists(h, m) /\ Cycle(h, m, tmu) /\ h \in [Slots -> Objects] /\ m \in Collectors
      /\ m.currentwhite \in Whites /\ OtherWhite(m) \in Whites /\ m.currentwhite # OtherWhite(m)
      /\ OtherWhite(n) = OtherWhite(m)
  BY MarksAre DEF Good, HeapInv, Typed, OtherWhite, FreedUpvals
<1>2. /\ th \in Slots /\ h[th].tt = "thread" /\ D \subseteq Range(h[th].openupval) /\ W \subseteq Range(h[th].openupval)
      /\ \A u \in D : IsDead(m, u)
      /\ \A u \in W : Live(m, u)
      /\ k \in [Slots -> Objects] /\ n \in Collectors
      /\ \A s \in D : k[s] = Free
      /\ \A s \in Slots \ D : s # th => k[s] = h[s]
      /\ k[th].tt = "thread" /\ k[th].stack = h[th].stack /\ k[th].resumed = h[th].resumed
      /\ IsInjective(k[th].openupval) /\ Range(k[th].openupval) = Range(h[th].openupval) \ D
      /\ \A s \in D : n.marked[s] = "none"
      /\ \A s \in W : n.marked[s] = m.currentwhite
      /\ \A s \in Slots \ (D \cup W) : n.marked[s] = m.marked[s]
      /\ n.rootgc = m.rootgc /\ n.currentwhite = m.currentwhite /\ n.gcstate = m.gcstate
      /\ n.full = m.full /\ n.sweepgc = m.sweepgc /\ n.sweepstrgc = m.sweepstrgc
      /\ InLists(n) = InLists(m)
  BY DEF FreedUpvals
<1>3. \A t \in Slots : h[t].tt = "thread" => \A x \in Range(h[t].openupval) : x \in Slots /\ OpenIn(h, t, x)
  <2>1. \A t \in Slots : h[t].tt = "thread" => Range(h[t].openupval) \subseteq Slots
    BY <1>1, Kinds, KindsAre, SeqParts
  <2> QED BY <2>1, <1>1 DEF UpvalsOK
<1>4. /\ \A u \in D : u \in Slots /\ OpenIn(h, th, u) /\ u # th /\ ~Live(m, u) /\ u \notin W
      /\ \A u \in W : u \in Slots /\ OpenIn(h, th, u) /\ u # th
  BY <1>1, <1>2, <1>3 DEF OpenIn, Live, IsDead
<1>5. \A s \in Slots : s \notin D => k[s].tt = h[s].tt
  BY <1>2
<1>6. Free.tt = "free"
  BY DEF Free
<1>7. /\ \A s \in Slots : Live(m, s) => Live(n, s) /\ s \notin D
      /\ \A s \in Slots : Live(n, s) => Live(m, s) /\ s \notin D
      /\ \A s \in Slots : s \notin D /\ Swept(m, s) => Swept(n, s)
      /\ \A s \in Slots : IsDead(n, s) => IsDead(m, s) /\ s \notin D
  BY <1>1, <1>2, <1>4 DEF Live, Swept, IsDead, Whites
<1>8. Typed(k, n)
  <2> SUFFICES ASSUME NEW s \in Slots PROVE n.marked[s] = "none" <=> k[s] = Free
    BY <1>2 DEF Typed
  <2>1. m.marked[s] = "none" <=> h[s] = Free
    BY <1>1 DEF Typed
  <2>2. CASE s \in D
    BY <2>2, <1>2
  <2>3. CASE s \in W
    <3>1. n.marked[s] # "none" /\ h[s] # Free /\ s # th /\ s \notin D
      BY <2>1, <2>3, <1>1, <1>2, <1>4 DEF Live, Whites
    <3> QED BY <3>1, <1>2
  <2>4. CASE s \notin D /\ s \notin W
    <3>1. n.marked[s] = m.marked[s]
      BY <2>4, <1>2
    <3>2. k[s] = Free <=> h[s] = Free
      BY <2>4, <1>1, <1>2, <1>5, <1>6, Kinds
    <3> QED BY <2>1, <3>1, <3>2
  <2> QED BY <2>2, <2>3, <2>4
<1>9. \A s \in Slots : h[s].tt = "upval" /\ s \notin D => UpvalValue(k, s) = UpvalValue(h, s)
  <2> SUFFICES ASSUME NEW s \in Slots, h[s].tt = "upval", s \notin D PROVE UpvalValue(k, s) = UpvalValue(h, s)
    OBVIOUS
  <2>1. k[s] = h[s]
    BY <1>2
  <2>2. CASE h[s].open
    <3>1. h[s].thread \in Slots /\ h[h[s].thread].tt = "thread"
      BY <2>2, OpenUpvalThread
    <3>2. h[s].thread \notin D
      BY <3>1, <1>4 DEF OpenIn
    <3>3. k[h[s].thread].stack = h[h[s].thread].stack
      BY <3>1, <3>2, <1>2
    <3> QED BY <2>1, <2>2, <3>3 DEF UpvalValue
  <2>3. CASE ~h[s].open
    BY <2>1, <2>3 DEF UpvalValue
  <2> QED BY <2>2, <2>3
<1>10. \A v : /\ Fine(h, m, v) => Fine(k, n, v)
              /\ FineMeta(h, m, v) => FineMeta(k, n, v)
              /\ (v \in Slots /\ FineUpval(h, m, v)) => FineUpval(k, n, v)
  BY <1>5, <1>7 DEF Fine, FineMeta, FineUpval
<1>11. Closed(k, n)
  <2> SUFFICES ASSUME NEW s \in Slots, Live(n, s) PROVE Sound(k, n, s)
    BY DEF Closed
  <2>1. Sound(h, m, s) /\ s \notin D
    BY <1>1, <1>7 DEF Closed
  <2>2. CASE h[s].tt = "upval"
    BY <2>1, <2>2, <1>2, <1>5, <1>9, <1>10 DEF Sound
  <2>3. CASE s = th
    BY <2>1, <2>3, <1>2, <1>10 DEF Sound
  <2>4. CASE h[s].tt # "upval" /\ s # th
    <3>1. k[s] = h[s]
      BY <1>2, <2>1, <2>4
    <3>2. h[s].tt = "function" => \A x \in Range(h[s].upvals) : x \in Slots
      BY <1>1, Kinds, KindsAre, SeqParts
    <3> QED BY <2>1, <2>4, <3>1, <3>2, <1>10 DEF Sound
  <2> QED BY <2>2, <2>3, <2>4
<1>12. UpvalsOK(k)
  <2> SUFFICES ASSUME NEW s \in Slots
               PROVE  /\ k[s].tt = "thread" => /\ IsInjective(k[s].openupval)
                                               /\ \A x \in Range(k[s].openupval) : OpenIn(k, s, x)
                      /\ (k[s].tt = "upval" /\ k[s].open) => /\ k[k[s].thread].tt = "thread"
                                                             /\ s \in Range(k[k[s].thread].openupval)
    BY DEF UpvalsOK
  <2>1. CASE s \in D
    BY <2>1, <1>2, <1>6
  <2>2. ASSUME k[s].tt = "thread", s \notin D
        PROVE  IsInjective(k[s].openupval) /\ \A x \in Range(k[s].openupval) : OpenIn(k, s, x)
    <3>1. CASE s = th
      <4>1. \A x \in Range(k[th].openupval) : x \in Slots /\ x \notin D /\ x # th /\ OpenIn(h, th, x)
        BY <1>2, <1>3 DEF OpenIn
      <4> QED BY <3>1, <4>1, <1>2 DEF OpenIn
    <3>2. CASE s # th
      <4>1. k[s] = h[s] /\ h[s].tt = "thread"
        BY <2>2, <3>2, <1>2
      <4>2. \A x \in Range(h[s].openupval) : x \in Slots /\ x # th /\ OpenIn(h, s, x)
        BY <1>2, <1>3, <4>1 DEF OpenIn
      <4>3. \A x \in Range(h[s].openupval) : x \notin D
        BY <4>2, <3>2, <1>4 DEF OpenIn
      <4>4. IsInjective(h[s].openupval)
        BY <4>1, <1>1 DEF UpvalsOK
      <4> QED BY <4>1, <4>2, <4>4, <4>3, <1>2 DEF OpenIn
    <3> QED BY <3>1, <3>2
  <2>3. ASSUME k[s].tt = "upval", k[s].open, s \notin D
        PROVE  k[k[s].thread].tt = "thread" /\ s \in Range(k[k[s].thread].openupval)
    <3>1. s # th /\ k[s] = h[s] /\ h[s].tt = "upval" /\ h[s].open
      BY <2>3, <1>2
    <3>2. h[s].thread \in Slots /\ h[h[s].thread].tt = "thread" /\ s \in Range(h[h[s].thread].openupval)
      BY <3>1, <1>1, OpenUpvalThread DEF UpvalsOK
    <3>3. CASE h[s].thread = th
      BY <2>3, <3>1, <3>2, <3>3, <1>2
    <3>4. CASE h[s].thread # th
      <4>1. h[s].thread \notin D
        BY <3>2, <1>4 DEF OpenIn
      <4> QED BY <3>1, <3>2, <3>4, <4>1, <1>2
    <3> QED BY <3>3, <3>4
  <2> QED BY <2>1, <2>2, <2>3
<1>13. \A s \in Slots : Listed(k, s) <=> Listed(h, s)
  <2> TAKE s \in Slots
  <2>1. CASE s \in D
    BY <2>1, <1>2, <1>4, <1>6 DEF Listed, OpenIn
  <2>2. CASE s \notin D /\ s # th
    BY <2>2, <1>2 DEF Listed
  <2>3. CASE s = th
    BY <2>3, <1>2 DEF Listed
  <2> QED BY <2>1, <2>2, <2>3
<1>14. Placed(k, n, tmu)
  <2>1. /\ tmu \in SlotSeqs /\ IsInjective(m.rootgc) /\ IsInjective(tmu)
        /\ Range(m.rootgc) \cap Range(tmu) = {}
        /\ Range(m.rootgc) \cup Range(tmu) = {s \in Slots : Listed(h, s)}
        /\ \A x \in Range(tmu) : h[x].tt = "userdata" /\ h[x].finalized
        /\ h[Main].tt = "thread" /\ h[Globals].tt = "table"
    BY <1>1 DEF Placed
  <2>2. {s \in Slots : Listed(k, s)} = {s \in Slots : Listed(h, s)}
    BY <1>13
  <2>3. \A x \in Range(tmu) : x \in Slots /\ x \notin D /\ x # th
    BY <2>1, <1>2, <1>4 DEF OpenIn
  <2>4. \A x \in Range(tmu) : k[x].tt = "userdata" /\ k[x].finalized
    BY <2>1, <2>3, <1>2
  <2>5. k[Main].tt = "thread" /\ k[Globals].tt = "table"
    BY <2>1, <1>4, <1>5, HeapAssumption DEF OpenIn
  <2> QED BY <2>1, <2>2, <2>4, <2>5, <1>2 DEF Placed
<1>15. RootsLive(k, n, tmu, cs)
  <2>1. /\ Live(m, Main) /\ Live(m, Globals)
        /\ \A x \in Range(tmu) : Live(m, x)
        /\ cs \in SlotSeqs /\ cs # <<>> /\ cs[1] = Main /\ IsInjective(cs)
        /\ \A i \in DOMAIN cs : Live(m, cs[i]) /\ h[cs[i]].tt = "thread"
        /\ \A i \in 1..Len(cs) - 1 : h[cs[i]].resumed = cs[i + 1]
    BY <1>1 DEF RootsLive
  <2>2. \A s \in Slots : h[s].tt = "thread" => k[s].tt = "thread" /\ k[s].resumed = h[s].resumed
    BY <1>2, <1>4 DEF OpenIn
  <2>3. \A i \in DOMAIN cs : cs[i] \in Slots
    BY <2>1, SeqParts DEF SlotSeqs
  <2>4. Range(tmu) \subseteq Slots
    BY <1>1 DEF Placed
  <2>5. \A i \in 1..Len(cs) - 1 : i \in DOMAIN cs
    <3>1. Len(cs) \in Nat /\ DOMAIN cs = 1..Len(cs)
      BY <2>1 DEF SlotSeqs
    <3> QED BY <3>1
  <2>6. \A i \in DOMAIN cs : Live(n, cs[i]) /\ k[cs[i]].tt = "thread"
    BY <2>1, <2>2, <2>3, <1>7
  <2>7. \A i \in 1..Len(cs) - 1 : k[cs[i]].resumed = cs[i + 1]
    BY <2>1, <2>2, <2>3, <2>5
  <2>8. Live(n, Main) /\ Live(n, Globals) /\ \A x \in Range(tmu) : Live(n, x)
    BY <2>1, <2>4, <1>7, HeapAssumption
  <2> QED BY <2>1, <2>6, <2>7, <2>8 DEF RootsLive
<1>16. Lists(k, n)
  <2>1. InLists(n) = <<>> /\ Range(InLists(n)) = {} /\ IsInjective(InLists(n))
    <3>1. InLists(n) = <<>>
      BY <1>1, <1>2 DEF Lists
    <3> QED BY <3>1, Empty
  <2>2. \A s \in Slots : s \notin D => (Blackens(h, s) => Blackens(k, s)) /\ (Grayens(h, s) => Grayens(k, s))
    BY <1>2 DEF Blackens, Grayens, Traversed
  <2>3. \A s \in Slots : /\ n.marked[s] = "black" => s \notin D /\ m.marked[s] = "black"
                         /\ n.marked[s] = "gray" => s \notin D /\ m.marked[s] = "gray"
    BY <1>1, <1>2 DEF Whites
  <2> QED BY <2>1, <2>2, <2>3, <1>1 DEF Lists
<1>17. Cycle(k, n, tmu)
  <2>1. ASSUME NEW j, SweptStrings(h, m, j) PROVE SweptStrings(k, n, j)
    <3> SUFFICES ASSUME NEW s \in Slots, k[s].tt = "string", k[s].text \in 1..j PROVE Swept(n, s)
      BY DEF SweptStrings
    <3>1. s \notin D /\ s # th
      BY <1>2, <1>6
    <3>2. k[s] = h[s]
      BY <3>1, <1>2
    <3> QED BY <2>1, <3>1, <3>2, <1>7 DEF SweptStrings
  <2>2. ASSUME SweptList(h, m, m.sweepgc) PROVE SweptList(k, n, n.sweepgc)
    <3> SUFFICES ASSUME NEW j \in DOMAIN n.rootgc, j < n.sweepgc
                 PROVE  /\ Swept(n, n.rootgc[j])
                        /\ k[n.rootgc[j]].tt = "thread" => \A x \in Range(k[n.rootgc[j]].openupval) : Swept(n, x)
      BY DEF SweptList
    <3> DEFINE o == m.rootgc[j]
    <3>1. n.rootgc[j] = o /\ j \in DOMAIN m.rootgc /\ j < m.sweepgc
      BY <1>2
    <3>2. o \in Slots /\ o \in Range(m.rootgc)
      BY <3>1, <1>1, ListsAreOfSlots DEF Range
    <3>3. Listed(h, o) /\ o \notin D
      BY <3>2, <1>1, <1>4 DEF Placed, Listed, OpenIn
    <3>4. /\ Swept(m, o) /\ (h[o].tt = "thread" => \A x \in Range(h[o].openupval) : Swept(m, x))
      BY <2>2, <3>1 DEF SweptList
    <3> HIDE DEF o
    <3>5. k[o].tt = "thread" => h[o].tt = "thread" /\ \A x \in Range(k[o].openupval) : x \in Slots /\ x \notin D /\ x \in Range(h[o].openupval)
      <4>1. CASE o = th
        BY <4>1, <1>2, <1>3
      <4>2. CASE o # th
        <5>1. k[o] = h[o]
          BY <4>2, <3>2, <3>3, <1>2
        <5>2. h[o].tt = "thread" => \A x \in Range(h[o].openupval) : x \in Slots /\ OpenIn(h, o, x)
          BY <3>2, <1>3
        <5> QED BY <4>2, <5>1, <5>2, <1>4 DEF OpenIn
      <4> QED BY <4>1, <4>2
    <3>6. Swept(n, o) /\ (k[o].tt = "thread" => \A x \in Range(k[o].openupval) : Swept(n, x))
      BY <3>2, <3>3, <3>4, <3>5, <1>7
    <3> QED BY <3>1, <3>6
  <2>3. DeadFinalized(h, m) => DeadFinalized(k, n)
    <3>1. \A s \in Slots : k[s].tt = "userdata" /\ IsDead(n, s) => k[s] = h[s] /\ IsDead(m, s)
      BY <1>2, <1>7
    <3> QED BY <3>1 DEF DeadFinalized
  <2>4. AllSwept(h, m, tmu) => AllSwept(k, n, tmu)
    <3>1. \A s \in Slots : k[s].tt # "free" => s \notin D /\ h[s].tt = k[s].tt
      BY <1>2, <1>5, <1>6
    <3> QED BY <3>1, <1>7 DEF AllSwept
  <2> QED BY <2>1, <2>2, <2>3, <2>4, <1>1, <1>2 DEF Cycle
<1> QED BY <1>8, <1>11, <1>12, <1>14, <1>15, <1>16, <1>17 DEF Good, HeapInv

(* An upvalue of th is closed, or freed.                                   *)
Closing(h, m, d, th, u, tmu, cs) ==
  /\ d \in [heap : [Slots -> Objects], g : Collectors]
  /\ Good(d.heap, d.g, tmu, cs, "open")
  /\ d.g.gcstate = m.gcstate /\ d.g.currentwhite = m.currentwhite
  /\ d.heap[th].tt = "thread" /\ Range(d.heap[th].openupval) = Range(h[th].openupval) \ {u}
  /\ m.gcstate # "propagate" => d.g.marked[th] = m.marked[th]

(* luaF_close frees a dead upvalue.                                        *)
LEMMA CloseDead ==
  ASSUME NEW h, NEW m, NEW tmu, NEW cs, Good(h, m, tmu, cs, "open"), NEW th \in Slots, h[th].tt = "thread",
         NEW u \in Range(h[th].openupval), IsDead(m, u), NEW d, d = CloseOne([heap |-> h, g |-> m], u)
  PROVE  Closing(h, m, d, th, u, tmu, cs)
<1> DEFINE list == Those(h[th].openupval, Slots \ {u})
           y == [h[th] EXCEPT !.openupval = list]
           k == [h EXCEPT ![th].openupval = list, ![u] = Free]
           n == Paint(m, u, "none")
<1>1. h \in [Slots -> Objects] /\ m \in Collectors /\ UpvalsOK(h)
  BY DEF Good, Typed, HeapInv
<1>2. h[th] \in ThreadObjects /\ h[th].openupval \in Seq(Slots) /\ IsInjective(h[th].openupval)
  BY <1>1, Kinds, KindsAre DEF UpvalsOK
<1>3. u \in Slots /\ OpenIn(h, th, u) /\ u # th /\ h[u].thread = th
  BY <1>1, <1>2, SeqParts DEF UpvalsOK, OpenIn
<1>4. list \in Seq(Slots) /\ IsInjective(list) /\ Range(list) = Range(h[th].openupval) \ {u}
  <2>1. list \in Seq(Slots) /\ Range(list) = Range(h[th].openupval) \cap (Slots \ {u}) /\ IsInjective(list)
    BY <1>2, Filtered
  <2>2. Range(h[th].openupval) \subseteq Slots
    BY <1>2, SeqParts
  <2> QED BY <2>1, <2>2
<1>5. d = [heap |-> k, g |-> n]
  BY <1>3 DEF CloseOne
<1>6. /\ k[u] = Free /\ k[th] = y /\ k = [s \in Slots |-> k[s]]
      /\ \A s \in Slots : s # u /\ s # th => k[s] = h[s]
  BY <1>1, <1>3
<1> HIDE DEF list, k
<1>7. y \in ThreadObjects /\ y.stack = h[th].stack /\ y.resumed = h[th].resumed /\ y.openupval = list
  BY <1>2, <1>4 DEF ThreadObjects
<1> HIDE DEF y
<1>8. y \in Objects /\ y.tt = "thread" /\ Free \in Objects
  BY <1>7, KindsAre
<1>9. k \in [Slots -> Objects]
  <2>1. \A s \in Slots : k[s] \in Objects
    BY <1>1, <1>6, <1>8
  <2> QED BY <2>1, <1>6
<1>10. Painted(m, n, u, "none")
  BY <1>1, <1>3, PaintIs DEF Marks
<1> HIDE DEF n
<1>11. m.gcstate # "propagate"
  <2>1. m.gcstate = "propagate" => Marking(h, m, tmu)
    BY DEF Good, Cycle
  <2> QED BY <2>1, <1>3 DEF Marking
<1>12. FreedUpvals(h, m, k, n, th, {u}, {})
  <2>1. n \in Collectors /\ n.marked[u] = "none" /\ \A s \in Slots : s # u => n.marked[s] = m.marked[s]
    BY <1>10 DEF Painted
  <2>2. n.rootgc = m.rootgc /\ n.currentwhite = m.currentwhite /\ n.gcstate = m.gcstate
        /\ n.full = m.full /\ n.sweepgc = m.sweepgc /\ n.sweepstrgc = m.sweepstrgc /\ InLists(n) = InLists(m)
    BY <1>10 DEF Painted
  <2>3. /\ \A s \in {u} : k[s] = Free
        /\ \A s \in Slots \ {u} : s # th => k[s] = h[s]
        /\ k[th].tt = "thread" /\ k[th].stack = h[th].stack /\ k[th].resumed = h[th].resumed
        /\ IsInjective(k[th].openupval) /\ Range(k[th].openupval) = Range(h[th].openupval) \ {u}
    BY <1>4, <1>6, <1>7, <1>8
  <2> QED BY <2>1, <2>2, <2>3, <1>9 DEF FreedUpvals
<1>13. Good(k, n, tmu, cs, "open")
  BY <1>11, <1>12, UpvalsFreed
<1>14. d.heap = k /\ d.g = n /\ d \in [heap : [Slots -> Objects], g : Collectors]
  BY <1>5, <1>9, <1>10 DEF Painted
<1>15. /\ k[th].tt = "thread" /\ Range(k[th].openupval) = Range(h[th].openupval) \ {u}
       /\ n.gcstate = m.gcstate /\ n.currentwhite = m.currentwhite /\ n.marked[th] = m.marked[th]
  BY <1>3, <1>4, <1>6, <1>7, <1>8, <1>10 DEF Painted
<1> QED BY <1>13, <1>14, <1>15 DEF Closing

(* luaF_close closes a live upvalue, and links it with the other objects.  *)
LEMMA CloseLive ==
  ASSUME NEW h, NEW m, NEW tmu, NEW cs, Good(h, m, tmu, cs, "open"), NEW th \in Slots, h[th].tt = "thread",
         NEW u \in Range(h[th].openupval), ~IsDead(m, u), NEW d, d = CloseOne([heap |-> h, g |-> m], u)
  PROVE  Closing(h, m, d, th, u, tmu, cs)
<1> DEFINE k == [h EXCEPT ![th].openupval = Those(@, Slots \ {u}),
                          ![u] = [@ EXCEPT !.open = FALSE, !.value = UpvalValue(h, u)]]
           e == [m EXCEPT !.rootgc = <<u>> \o @, !.sweepgc = IF @ <= 1 THEN @ ELSE @ + 1]
           n == LinkUpval(k, m, u)
<1>1. Typed(h, m) /\ h \in [Slots -> Objects] /\ m \in Collectors /\ UpvalsOK(h) /\ Lists(h, m)
  BY DEF Good, Typed, HeapInv
<1>2. h[th] \in ThreadObjects /\ h[th].openupval \in Seq(Slots)
  BY <1>1, Kinds, KindsAre
<1>3. u \in Slots /\ h[u].tt = "upval" /\ h[u].open /\ u # th /\ h[u].thread = th
  BY <1>1, <1>2, SeqParts DEF UpvalsOK, OpenIn
<1>4. d = [heap |-> k, g |-> n]
  BY <1>3 DEF CloseOne
<1>5. Closes(h, k, u)
  BY <1>3 DEF Closes
<1> HIDE DEF k
<1>6. ClosedUpval(h, k, u)
  BY <1>3, <1>5, ClosedHeap
<1>7. /\ k \in [Slots -> Objects] /\ k[th].tt = "thread" /\ k[u].tt = "upval"
      /\ Range(k[th].openupval) = Range(h[th].openupval) \ {u}
  BY <1>1, <1>3, <1>6 DEF ClosedUpval
<1>8. /\ e \in Collectors /\ e.marked = m.marked /\ e.currentwhite = m.currentwhite /\ e.gcstate = m.gcstate
      /\ e.full = m.full /\ e.sweepstrgc = m.sweepstrgc /\ e.gray = m.gray /\ e.grayagain = m.grayagain
      /\ e.weak = m.weak /\ e.rootgc = <<u>> \o m.rootgc /\ e.sweepgc = IF m.sweepgc <= 1 THEN m.sweepgc ELSE m.sweepgc + 1
  <2> DEFINE a == <<u>> \o m.rootgc
             b == IF m.sweepgc <= 1 THEN m.sweepgc ELSE m.sweepgc + 1
  <2>1. a \in SlotSeqs /\ b \in Nat
    BY <1>1, <1>3 DEF Collectors, SlotSeqs
  <2>2. e = [m EXCEPT !.rootgc = a, !.sweepgc = b]
    BY <1>1 DEF Collectors
  <2> HIDE DEF a, b, e
  <2>3. /\ e \in Collectors /\ e.marked = m.marked /\ e.currentwhite = m.currentwhite /\ e.gcstate = m.gcstate
        /\ e.full = m.full /\ e.sweepstrgc = m.sweepstrgc /\ e.gray = m.gray /\ e.grayagain = m.grayagain
        /\ e.weak = m.weak /\ e.rootgc = a /\ e.sweepgc = b
    BY <2>1, <2>2, <1>1 DEF Collectors
  <2> QED BY <2>3 DEF a, b
<1>9. n = IF e.marked[u] # "gray" THEN e
          ELSE IF e.gcstate = "propagate" THEN Barrier(k, Paint(e, u, "black"), u, k[u].value)
          ELSE MakeWhite(e, u)
  BY DEF LinkUpval
<1> HIDE DEF e, n
<1>10. Entered(m, e, u) /\ InLists(e) = InLists(m)
  <2>1. IsInserted(m.rootgc, <<u>> \o m.rootgc, 1, u)
    BY <1>1, <1>3, Prepended DEF Collectors, SlotSeqs
  <2> QED BY <2>1, <1>8 DEF Entered, InLists
<1>11. /\ Live(m, u) /\ (m.marked[u] = "gray" \/ m.marked[u] = m.currentwhite)
  <2>1. h[u] # Free
    BY <1>3 DEF Free
  <2>2. Live(m, u)
    BY <2>1, <1>1, <1>3 DEF Typed, IsDead, Live
  <2>3. m.marked[u] # "black"
    BY <1>1, <1>3 DEF Lists, Blackens
  <2> QED BY <2>2, <2>3, <1>1, <1>3, MarksAre
<1>12. /\ Good(k, n, tmu, cs, "open") /\ n \in Collectors /\ n.gcstate = m.gcstate /\ n.currentwhite = m.currentwhite
       /\ m.gcstate # "propagate" => n.marked[th] = m.marked[th]
  <2>1. CASE m.marked[u] # "gray"
    <3>1. n = e /\ e.marked = [m.marked EXCEPT ![u] = m.currentwhite]
      BY <2>1, <1>1, <1>8, <1>9, <1>11 DEF Collectors
    <3>2. ("open" = "open" /\ m.gcstate = "propagate") => IsWhite(m, u)
      BY <2>1, <1>1, <1>11 DEF IsWhite, Collectors, Whites
    <3>3. Good(k, e, tmu, cs, "open")
      BY <3>1, <3>2, <1>3, <1>6, <1>8, <1>10, <1>11, CloseWhite
    <3> QED BY <3>1, <3>3, <1>8
  <2>2. CASE m.marked[u] = "gray" /\ m.gcstate = "propagate"
    <3>1. n = Barrier(k, Paint(e, u, "black"), u, k[u].value)
      BY <2>2, <1>8, <1>9
    <3>2. Good(k, n, tmu, cs, "open") /\ n.gcstate = m.gcstate /\ n.currentwhite = m.currentwhite
      BY <2>2, <3>1, <1>3, <1>6, <1>8, <1>10, CloseGray
    <3> QED BY <3>2, <2>2 DEF Good, Typed
  <2>3. CASE m.marked[u] = "gray" /\ m.gcstate # "propagate"
    <3>1. n = Paint(e, u, e.currentwhite)
      BY <2>3, <1>8, <1>9 DEF MakeWhite
    <3>2. Painted(e, n, u, m.currentwhite) /\ n.marked = [m.marked EXCEPT ![u] = m.currentwhite]
      <4>1. m.currentwhite \in Marks
        BY <1>1 DEF Collectors, Marks, Colours, Whites
      <4>2. Painted(e, n, u, m.currentwhite)
        BY <3>1, <4>1, <1>3, <1>8, PaintIs
      <4>3. n.marked = [m.marked EXCEPT ![u] = m.currentwhite]
        BY <3>1, <1>8 DEF Paint, Collectors
      <4> QED BY <4>2, <4>3
    <3>3. /\ n \in Collectors /\ n.currentwhite = m.currentwhite /\ n.gcstate = m.gcstate /\ n.full = m.full
          /\ n.sweepstrgc = m.sweepstrgc /\ InLists(n) = InLists(m) /\ n.rootgc = e.rootgc /\ n.sweepgc = e.sweepgc
          /\ n.marked[th] = m.marked[th]
      BY <3>2, <1>3, <1>8, <1>10 DEF Painted
    <3>4. Entered(m, n, u)
      BY <3>3, <1>10 DEF Entered
    <3>5. Good(k, n, tmu, cs, "open")
      BY <2>3, <3>2, <3>3, <3>4, <1>3, <1>6, <1>11, CloseWhite
    <3> QED BY <3>3, <3>5
  <2> QED BY <2>1, <2>2, <2>3
<1>13. d.heap = k /\ d.g = n /\ d \in [heap : [Slots -> Objects], g : Collectors]
  BY <1>4, <1>7, <1>12
<1> QED BY <1>7, <1>12, <1>13 DEF Closing

(* The upvalues of th from a level on are closed.                          *)
ClosedAll(h, m, d, th, level, tmu, cs) ==
  /\ d \in [heap : [Slots -> Objects], g : Collectors]
  /\ Good(d.heap, d.g, tmu, cs, "open")
  /\ d.g.gcstate = m.gcstate /\ d.g.currentwhite = m.currentwhite
  /\ d.heap[th].tt = "thread"
  /\ \A u \in Range(d.heap[th].openupval) : u \in Range(h[th].openupval) /\ ~(h[u].level >= level)
  /\ m.gcstate # "propagate" => d.g.marked[th] = m.marked[th]

(* luaF_close keeps the invariant.                                         *)
LEMMA CloseUpvalsStep ==
  ASSUME NEW h, NEW m, NEW tmu, NEW cs, Good(h, m, tmu, cs, "open"), NEW th \in Slots, h[th].tt = "thread",
         NEW level, NEW d, d = CloseUpvals([heap |-> h, g |-> m], th, level)
  PROVE  ClosedAll(h, m, d, th, level, tmu, cs)
<1> DEFINE open == h[th].openupval
           S == {u \in Range(open) : h[u].level >= level}
           seq == Those(open, S)
           n == Len(seq)
           X == [heap : [Slots -> Objects], g : Collectors]
           Like(x) == /\ Good(x.heap, x.g, tmu, cs, "open")
                      /\ x.g.gcstate = m.gcstate /\ x.g.currentwhite = m.currentwhite
                      /\ x.heap[th].tt = "thread" /\ Range(x.heap[th].openupval) \subseteq Range(open)
                      /\ m.gcstate # "propagate" => x.g.marked[th] = m.marked[th]
           Left(x, i) == \A j \in 1..n : i < j => seq[j] \in Range(x.heap[th].openupval)
           M == [i \in 0..n |-> {x \in X : Like(x) /\ Left(x, i)}]
           c == [heap |-> h, g |-> m]
<1>1. Typed(h, m) /\ h \in [Slots -> Objects] /\ m \in Collectors /\ UpvalsOK(h)
  BY DEF Good, Typed, HeapInv
<1>2. h[th] \in ThreadObjects /\ open \in Seq(Slots) /\ IsInjective(open)
  BY <1>1, Kinds, KindsAre DEF UpvalsOK
<1>3. seq \in Seq(Slots) /\ Range(seq) = S /\ IsInjective(seq)
  <2>1. seq \in Seq(Slots) /\ Range(seq) = Range(open) \cap S /\ IsInjective(seq)
    BY <1>2, Filtered
  <2> QED BY <2>1
<1>4. d = FoldLeft(CloseOne, c, seq)
  BY DEF CloseUpvals
<1> HIDE DEF seq
<1>5. n \in Nat /\ DOMAIN seq = 1..n /\ \A i \in 1..n : seq[i] \in S
  BY <1>3, SeqParts
<1>6. \A i \in 0..n : \A x : x \in M[i] <=> x \in X /\ Like(x) /\ Left(x, i)
  OBVIOUS
<1>7. c \in M[0]
  <2>1. c \in X /\ c.heap = h /\ c.g = m
    BY <1>1
  <2>2. Like(c)
    BY <2>1
  <2>3. Left(c, 0)
    BY <2>1, <1>5
  <2>4. 0 \in 0..n
    BY <1>5
  <2> QED BY <2>1, <2>2, <2>3, <2>4, <1>6
<1>8. \A i, j \in 0..n : i <= j => M[i] \subseteq M[j]
  <2> SUFFICES ASSUME NEW i \in 0..n, NEW j \in 0..n, i <= j, NEW x, x \in M[i] PROVE x \in M[j]
    OBVIOUS
  <2>1. Left(x, i) => Left(x, j)
    BY <1>5
  <2> QED BY <2>1, <1>6
<1>9. ASSUME NEW i \in 1..n, NEW x \in M[i - 1]
      PROVE  Closing(x.heap, x.g, CloseOne(x, seq[i]), th, seq[i], tmu, cs) /\ CloseOne(x, seq[i]) \in M[i]
  <2> DEFINE u == seq[i]
             e == CloseOne(x, u)
             k == x.heap
             l == x.g
  <2>1. i - 1 \in 0..n /\ i \in 0..n /\ i - 1 < i
    BY <1>5
  <2>2. x \in X /\ Like(x) /\ Left(x, i - 1)
    BY <2>1, <1>6, <1>9
  <2>3. u \in Range(k[th].openupval)
    BY <2>1, <2>2
  <2>4. x = [heap |-> k, g |-> l]
    BY <2>2
  <2> HIDE DEF k, l
  <2>5. Good(k, l, tmu, cs, "open") /\ k[th].tt = "thread"
    BY <2>2 DEF k, l
  <2>6. e = CloseOne([heap |-> k, g |-> l], u)
    BY <2>4
  <2> HIDE DEF u, e
  <2>7. Closing(k, l, e, th, u, tmu, cs)
    BY <2>3, <2>5, <2>6, CloseDead, CloseLive
  <2>8. Like(e)
    <3>1. Like(x)
      BY <2>2
    <3> QED BY <2>7, <3>1 DEF Closing, k, l
  <2>9. Left(e, i)
    <3> SUFFICES ASSUME NEW j \in 1..n, i < j PROVE seq[j] \in Range(e.heap[th].openupval)
      OBVIOUS
    <3>1. i - 1 < j /\ i # j
      BY <1>5
    <3>2. seq[j] \in Range(k[th].openupval)
      BY <2>2, <3>1 DEF k
    <3>3. seq[j] # u
      BY <1>3, <1>5, <3>1 DEF u, IsInjective
    <3> QED BY <2>7, <3>2, <3>3 DEF Closing
  <2>10. e \in X
    BY <2>7 DEF Closing
  <2>11. e \in M[i]
    BY <2>1, <2>8, <2>9, <2>10, <1>6
  <2> QED BY <2>7, <2>11 DEF e, k, l, u
<1> HIDE DEF M
<1>10. \A i \in 1..n : \A x \in M[i - 1] : CloseOne(x, seq[i]) \in M[i]
  BY <1>9
<1> HIDE DEF n
<1>11. PICK W : CloseAllTrace(c, seq, M, n, W)
  BY <1>5, <1>7, <1>8, <1>10, CloseAllSteps
<1>12. /\ FoldLeft(CloseOne, c, seq) = W[n] /\ \A i \in 1..n : W[i] = CloseOne(W[i - 1], seq[i])
       /\ \A i \in 0..n : W[i] \in M[i]
  BY <1>11 DEF CloseAllTrace
<1> DEFINE A == {i \in 0..n : \A j \in 1..n : j <= i => seq[j] \notin Range(W[i].heap[th].openupval)}
<1>13. 0 \in A
  BY <1>5
<1>14. ASSUME NEW i \in 1..n, i - 1 \in A PROVE i \in A
  <2>1. i - 1 \in 0..n /\ i \in 0..n
    BY <1>5
  <2>2. Closing(W[i - 1].heap, W[i - 1].g, W[i], th, seq[i], tmu, cs)
    <3>1. W[i - 1] \in M[i - 1] /\ W[i] = CloseOne(W[i - 1], seq[i])
      BY <2>1, <1>12
    <3> QED BY <3>1, <1>9
  <2>3. Range(W[i].heap[th].openupval) = Range(W[i - 1].heap[th].openupval) \ {seq[i]}
    BY <2>2 DEF Closing
  <2>4. ASSUME NEW j \in 1..n, j <= i PROVE seq[j] \notin Range(W[i].heap[th].openupval)
    <3>1. j = i \/ j <= i - 1
      BY <1>5, <2>4
    <3> QED BY <3>1, <2>3, <1>14
  <2> QED BY <2>1, <2>4
<1> HIDE DEF A
<1>15. \A i \in 0..n : i \in A
  BY <1>5, <1>13, <1>14, Induct
<1>16. n \in 0..n /\ \A j \in 1..n : seq[j] \notin Range(W[n].heap[th].openupval)
  <2>1. n \in 0..n /\ n \in A
    BY <1>5, <1>15
  <2>2. \A j \in 1..n : j <= n
    BY <1>5
  <2> QED BY <2>1, <2>2 DEF A
<1>17. d \in X /\ Like(d)
  <2>1. d = W[n] /\ W[n] \in M[n]
    BY <1>4, <1>12, <1>16
  <2> QED BY <2>1, <1>6, <1>16 DEF M
<1>18. ASSUME NEW u \in Range(d.heap[th].openupval) PROVE u \in Range(open) /\ ~(h[u].level >= level)
  <2>1. u \in Range(open)
    BY <1>17
  <2>2. d = W[n]
    BY <1>4, <1>12
  <2>3. u \notin Range(seq)
    <3>1. \A x \in Range(seq) : \E j \in 1..n : seq[j] = x
      BY <1>3, <1>5, SeqParts
    <3> QED BY <3>1, <2>2, <1>16
  <2> QED BY <2>1, <2>3, <1>3
<1> QED BY <1>17, <1>18 DEF ClosedAll

(* A list without the element at p.                                        *)
LEMMA Without ==
  ASSUME NEW X, NEW a \in Seq(X), IsInjective(a), NEW p \in 1..Len(a), NEW b, b = Those(a, X \ {a[p]})
  PROVE  b \in Seq(X) /\ Len(b) = Len(a) - 1 /\ \A j \in 1..Len(b) : b[j] = IF j < p THEN a[j] ELSE a[j + 1]
<1> DEFINE n == Len(a)
           S == X \ {a[p]}
           M == Seq(X)
           OK(i, w) == /\ w \in Seq(X) /\ Len(w) = IF i < p THEN i ELSE i - 1
                       /\ \A j \in 1..Len(w) : w[j] = IF j < p THEN a[j] ELSE a[j + 1]
<1>1. n \in Nat /\ DOMAIN a = 1..n /\ p \in 1..n /\ \A i \in 1..n : a[i] \in X /\ (a[i] \in S <=> i # p)
  BY SeqParts DEF IsInjective
<1>2. Nothing \in M
  BY Empty DEF Nothing
<1>3. \A x \in M, i \in 1..n : KeepsNext(S, x, a[i]) \in M
  BY <1>1 DEF KeepsNext
<1> HIDE DEF n, M, S
<1>4. PICK W : ThoseTrace(S, a, M, n, W)
  BY <1>1, <1>2, <1>3, ThoseSteps
<1>5. /\ W[0] = Nothing /\ Those(a, S) = W[n]
      /\ \A i \in 1..n : W[i] = KeepsNext(S, W[i - 1], a[i])
  BY <1>4 DEF ThoseTrace
<1> DEFINE A == {i \in 0..n : OK(i, W[i])}
<1>6. 0 \in A
  <2>1. 0 < p /\ 0 \in 0..n
    BY <1>1
  <2>2. W[0] \in Seq(X) /\ Len(W[0]) = 0
    BY <1>5 DEF Nothing
  <2> QED BY <2>1, <2>2
<1>7. ASSUME NEW i \in 1..n, i - 1 \in A PROVE i \in A
  <2> DEFINE w == W[i - 1]
             v == W[i]
  <2>1. i \in Nat /\ i >= 1 /\ p \in Nat /\ i \in 0..n /\ a[i] \in X
    BY <1>1
  <2>2. OK(i - 1, w) /\ v = KeepsNext(S, w, a[i])
    BY <1>5, <1>7
  <2> HIDE DEF w, v
  <2>3. CASE i = p
    <3>1. v = w
      BY <2>2, <2>3, <1>1 DEF KeepsNext
    <3> QED BY <2>1, <2>2, <2>3, <3>1 DEF v
  <2>4. CASE i # p
    <3>1. v = Append(w, a[i])
      BY <2>2, <2>4, <1>1 DEF KeepsNext
    <3>2. w \in Seq(X) /\ v \in Seq(X) /\ Len(v) = Len(w) + 1 /\ v[Len(w) + 1] = a[i] /\ \A j \in 1..Len(w) : v[j] = w[j]
      BY <2>1, <2>2, <3>1
    <3>3. Len(w) + 1 = IF i < p THEN i ELSE i - 1
      BY <2>1, <2>2, <2>4
    <3>4. ASSUME NEW j \in 1..Len(v) PROVE v[j] = IF j < p THEN a[j] ELSE a[j + 1]
      <4>1. CASE j \in 1..Len(w)
        BY <2>2, <3>2, <4>1
      <4>2. CASE j = Len(w) + 1
        <5>1. CASE i < p
          <6>1. j = i /\ j < p
            BY <5>1, <4>2, <3>3
          <6> QED BY <6>1, <4>2, <3>2
        <5>2. CASE ~(i < p)
          <6>1. j = i - 1 /\ ~(j < p) /\ j + 1 = i
            BY <5>2, <4>2, <3>3, <2>1, <2>4
          <6> QED BY <6>1, <4>2, <3>2
        <5> QED BY <5>1, <5>2
      <4>3. j \in 1..Len(w) \/ j = Len(w) + 1
        <5>1. Len(w) \in Nat
          BY <3>2
        <5> QED BY <5>1, <3>2
      <4> QED BY <4>1, <4>2, <4>3
    <3> QED BY <2>1, <3>2, <3>3, <3>4 DEF v
  <2> QED BY <2>3, <2>4
<1> HIDE DEF A
<1>8. n \in A
  <2>1. \A i \in 0..n : i \in A
    BY <1>1, <1>6, <1>7, Induct
  <2>2. n \in 0..n
    BY <1>1
  <2> QED BY <2>1, <2>2
<1>9. OK(n, b) /\ ~(n < p)
  <2>1. OK(n, W[n])
    BY <1>8 DEF A
  <2>2. b = W[n]
    BY <1>5 DEF S
  <2>3. ~(n < p)
    BY <1>1
  <2> QED BY <2>1, <2>2, <2>3
<1> QED BY <1>9 DEF n

(* The sweep frees a dead object.                                          *)
Unlinked(h, m, k, n, o) ==
  /\ k = [h EXCEPT ![o] = Free] /\ n \in Collectors
  /\ n.marked[o] = "none" /\ \A s \in Slots : s # o => n.marked[s] = m.marked[s]
  /\ n.rootgc = Those(m.rootgc, Slots \ {o}) /\ n.currentwhite = m.currentwhite /\ n.gcstate = m.gcstate
  /\ n.full = m.full /\ n.sweepgc = m.sweepgc /\ n.sweepstrgc = m.sweepstrgc /\ InLists(n) = InLists(m)

(* Freeing a dead object that is in the list of objects keeps the          *)
(* invariant.                                                              *)
LEMMA Removed ==
  ASSUME NEW h, NEW m, NEW tmu, NEW cs, Good(h, m, tmu, cs, "open"), m.gcstate = "sweep",
         NEW o \in Range(m.rootgc), IsDead(m, o), h[o].tt = "thread" => Range(h[o].openupval) = {},
         NEW k, NEW n, Unlinked(h, m, k, n, o)
  PROVE  Good(k, n, tmu, cs, "open")
<1>1. /\ Typed(h, m) /\ Closed(h, m) /\ UpvalsOK(h) /\ Placed(h, m, tmu) /\ RootsLive(h, m, tmu, cs)
      /\ Lists(h, m) /\ Cycle(h, m, tmu) /\ h \in [Slots -> Objects] /\ m \in Collectors
      /\ m.currentwhite \in Whites /\ OtherWhite(m) \in Whites /\ m.currentwhite # OtherWhite(m)
  BY MarksAre DEF Good, HeapInv, Typed
<1>2. /\ n \in Collectors
      /\ n.marked[o] = "none" /\ \A s \in Slots : s # o => n.marked[s] = m.marked[s]
      /\ n.rootgc = Those(m.rootgc, Slots \ {o}) /\ n.currentwhite = m.currentwhite /\ n.gcstate = m.gcstate
      /\ n.full = m.full /\ n.sweepgc = m.sweepgc /\ n.sweepstrgc = m.sweepstrgc /\ InLists(n) = InLists(m)
      /\ OtherWhite(n) = OtherWhite(m)
  BY DEF Unlinked, OtherWhite
<1>3. o \in Slots /\ Listed(h, o) /\ o \notin Range(tmu)
  <2>1. o \in {s \in Slots : Listed(h, s)} /\ o \notin Range(tmu)
    BY <1>1 DEF Placed
  <2> QED BY <2>1
<1>4. k[o] = Free /\ k = [s \in Slots |-> k[s]] /\ \A s \in Slots : s # o => k[s] = h[s]
  BY <1>1, <1>3 DEF Unlinked
<1>5. Free \in Objects /\ Free.tt = "free"
  BY KindsAre
<1>6. k \in [Slots -> Objects]
  <2>1. \A s \in Slots : k[s] \in Objects
    BY <1>1, <1>4, <1>5
  <2> QED BY <2>1, <1>4
<1>7. /\ ~Live(m, o) /\ ~Live(n, o)
      /\ \A s \in Slots : Live(n, s) <=> Live(m, s)
      /\ \A s \in Slots : s # o /\ Swept(m, s) => Swept(n, s)
      /\ ~Swept(m, o)
      /\ \A s \in Slots : IsDead(n, s) => IsDead(m, s) /\ s # o
  BY <1>1, <1>2, <1>3 DEF Live, Swept, IsDead, Whites
<1>8. Typed(k, n)
  <2>1. \A s \in Slots : n.marked[s] = "none" <=> k[s] = Free
    BY <1>1, <1>2, <1>4 DEF Typed
  <2> QED BY <2>1, <1>2, <1>6 DEF Typed
<1>9. \A s \in Slots : h[s].tt = "upval" /\ h[s].open => h[s].thread \in Slots /\ h[s].thread # o /\ h[h[s].thread].tt = "thread" /\ s # o
  <2> TAKE s \in Slots
  <2>1. h[s].tt = "upval" /\ h[s].open => h[s].thread \in Slots /\ h[h[s].thread].tt = "thread" /\ s \in Range(h[h[s].thread].openupval)
    BY <1>1, OpenUpvalThread DEF UpvalsOK
  <2> QED BY <2>1, <1>3 DEF Listed
<1>10. \A s \in Slots : h[s].tt = "upval" /\ s # o => UpvalValue(k, s) = UpvalValue(h, s)
  BY <1>4, <1>9 DEF UpvalValue
<1>11. \A v : /\ Fine(h, m, v) => Fine(k, n, v)
              /\ FineMeta(h, m, v) => FineMeta(k, n, v)
              /\ (v \in Slots /\ FineUpval(h, m, v)) => FineUpval(k, n, v)
  BY <1>4, <1>7 DEF Fine, FineMeta, FineUpval
<1>12. Closed(k, n)
  <2> SUFFICES ASSUME NEW s \in Slots, Live(n, s) PROVE Sound(k, n, s)
    BY DEF Closed
  <2>1. Sound(h, m, s) /\ s # o /\ k[s] = h[s]
    BY <1>1, <1>4, <1>7 DEF Closed
  <2>2. CASE h[s].tt = "upval"
    BY <2>1, <2>2, <1>10, <1>11 DEF Sound
  <2>3. CASE h[s].tt # "upval"
    <3>1. h[s].tt = "function" => \A x \in Range(h[s].upvals) : x \in Slots
      BY <1>1, Kinds, KindsAre, SeqParts
    <3> QED BY <2>1, <2>3, <3>1, <1>11 DEF Sound
  <2> QED BY <2>2, <2>3
<1>13. UpvalsOK(k)
  <2> SUFFICES ASSUME NEW s \in Slots
               PROVE  /\ k[s].tt = "thread" => /\ IsInjective(k[s].openupval)
                                               /\ \A x \in Range(k[s].openupval) : OpenIn(k, s, x)
                      /\ (k[s].tt = "upval" /\ k[s].open) => /\ k[k[s].thread].tt = "thread"
                                                             /\ s \in Range(k[k[s].thread].openupval)
    BY DEF UpvalsOK
  <2>1. CASE s = o
    BY <2>1, <1>4, <1>5
  <2>2. ASSUME k[s].tt = "thread", s # o
        PROVE  IsInjective(k[s].openupval) /\ \A x \in Range(k[s].openupval) : OpenIn(k, s, x)
    <3>1. k[s] = h[s] /\ h[s].tt = "thread"
      BY <2>2, <1>4
    <3>2. IsInjective(h[s].openupval) /\ \A x \in Range(h[s].openupval) : x \in Slots /\ OpenIn(h, s, x)
      <4>1. Range(h[s].openupval) \subseteq Slots
        BY <3>1, <1>1, Kinds, KindsAre, SeqParts
      <4> QED BY <3>1, <4>1, <1>1 DEF UpvalsOK
    <3>3. \A x \in Range(h[s].openupval) : x # o
      BY <3>2, <1>3 DEF OpenIn, Listed
    <3> QED BY <3>1, <3>2, <3>3, <1>4 DEF OpenIn
  <2>3. ASSUME k[s].tt = "upval", k[s].open, s # o
        PROVE  k[k[s].thread].tt = "thread" /\ s \in Range(k[k[s].thread].openupval)
    <3>1. k[s] = h[s] /\ h[s].tt = "upval" /\ h[s].open
      BY <2>3, <1>4
    <3>2. h[s].thread \in Slots /\ h[s].thread # o /\ h[h[s].thread].tt = "thread" /\ s \in Range(h[h[s].thread].openupval)
      BY <3>1, <1>1, <1>9 DEF UpvalsOK
    <3> QED BY <3>1, <3>2, <1>4
  <2> QED BY <2>1, <2>2, <2>3
<1>14. \A s \in Slots : Listed(k, s) <=> Listed(h, s) /\ s # o
  BY <1>4, <1>5 DEF Listed
<1>15. /\ m.rootgc \in Seq(Slots) /\ n.rootgc \in Seq(Slots) /\ Range(n.rootgc) = Range(m.rootgc) \ {o}
       /\ IsInjective(n.rootgc) /\ IsInjective(m.rootgc)
  <2>1. m.rootgc \in Seq(Slots) /\ IsInjective(m.rootgc) /\ Range(m.rootgc) \subseteq Slots
    BY <1>1, ListsAreOfSlots DEF Placed
  <2>2. Range(n.rootgc) = Range(m.rootgc) \cap (Slots \ {o}) /\ n.rootgc \in Seq(Slots) /\ IsInjective(n.rootgc)
    BY <2>1, <1>2, Filtered
  <2> QED BY <2>1, <2>2
<1>16. Placed(k, n, tmu)
  <2>1. /\ tmu \in SlotSeqs /\ IsInjective(m.rootgc) /\ IsInjective(tmu)
        /\ Range(m.rootgc) \cap Range(tmu) = {}
        /\ Range(m.rootgc) \cup Range(tmu) = {s \in Slots : Listed(h, s)}
        /\ \A x \in Range(tmu) : h[x].tt = "userdata" /\ h[x].finalized
        /\ h[Main].tt = "thread" /\ h[Globals].tt = "table"
    BY <1>1 DEF Placed
  <2>2. {s \in Slots : Listed(k, s)} = {s \in Slots : Listed(h, s)} \ {o}
    BY <1>14
  <2>3. Range(n.rootgc) \cup Range(tmu) = {s \in Slots : Listed(k, s)} /\ Range(n.rootgc) \cap Range(tmu) = {}
    BY <2>1, <2>2, <1>3, <1>15
  <2>4. \A x \in Range(tmu) : k[x].tt = "userdata" /\ k[x].finalized
    <3>1. \A x \in Range(tmu) : x \in Slots /\ x # o
      BY <2>1, <1>3
    <3> QED BY <2>1, <3>1, <1>4
  <2>5. k[Main].tt = "thread" /\ k[Globals].tt = "table"
    <3>1. Main # o /\ Globals # o
      BY <1>1, <1>7 DEF RootsLive
    <3> QED BY <2>1, <3>1, <1>4, HeapAssumption
  <2> QED BY <2>1, <2>3, <2>4, <2>5, <1>15 DEF Placed
<1>17. RootsLive(k, n, tmu, cs)
  <2>1. /\ Live(m, Main) /\ Live(m, Globals)
        /\ \A x \in Range(tmu) : Live(m, x)
        /\ cs \in SlotSeqs /\ cs # <<>> /\ cs[1] = Main /\ IsInjective(cs)
        /\ \A i \in DOMAIN cs : Live(m, cs[i]) /\ h[cs[i]].tt = "thread"
        /\ \A i \in 1..Len(cs) - 1 : h[cs[i]].resumed = cs[i + 1]
    BY <1>1 DEF RootsLive
  <2>2. \A i \in DOMAIN cs : cs[i] \in Slots /\ cs[i] # o /\ k[cs[i]] = h[cs[i]]
    BY <2>1, <1>4, <1>7, SeqParts DEF SlotSeqs
  <2>3. Range(tmu) \subseteq Slots
    BY <1>1 DEF Placed
  <2>4. \A i \in 1..Len(cs) - 1 : i \in DOMAIN cs
    <3>1. Len(cs) \in Nat /\ DOMAIN cs = 1..Len(cs)
      BY <2>1 DEF SlotSeqs
    <3> QED BY <3>1
  <2>5. \A i \in DOMAIN cs : Live(n, cs[i]) /\ k[cs[i]].tt = "thread"
    BY <2>1, <2>2, <1>7
  <2>6. \A i \in 1..Len(cs) - 1 : k[cs[i]].resumed = cs[i + 1]
    BY <2>1, <2>2, <2>4
  <2>7. Live(n, Main) /\ Live(n, Globals) /\ \A x \in Range(tmu) : Live(n, x)
    BY <2>1, <2>3, <1>7, HeapAssumption
  <2> QED BY <2>1, <2>5, <2>6, <2>7 DEF RootsLive
<1>18. Lists(k, n)
  <2>1. InLists(m) = <<>>
    BY <1>1 DEF Lists
  <2>2. \A s \in Slots : /\ n.marked[s] = "black" => Blackens(k, s)
                         /\ n.marked[s] = "gray" => Grayens(k, s)
    <3>1. \A s \in Slots : s # o => (Blackens(h, s) => Blackens(k, s)) /\ (Grayens(h, s) => Grayens(k, s))
      BY <1>4 DEF Blackens, Grayens, Traversed
    <3> QED BY <3>1, <1>1, <1>2 DEF Lists
  <2>3. Range(InLists(n)) = {} /\ IsInjective(InLists(n))
    BY <2>1, <1>2, Empty
  <2> QED BY <2>1, <2>2, <2>3, <1>2 DEF Lists
<1>19. Cycle(k, n, tmu)
  <2>1. /\ SweptStrings(h, m, Cardinality(Texts)) /\ SweptList(h, m, m.sweepgc)
        /\ m.sweepgc \in 1..Len(m.rootgc) + 1 /\ DeadFinalized(h, m)
    BY <1>1 DEF Cycle
  <2>2. SweptStrings(k, n, Cardinality(Texts))
    <3>1. \A s \in Slots : k[s].tt = "string" => s # o /\ k[s] = h[s]
      BY <1>4, <1>5
    <3> QED BY <2>1, <3>1, <1>7 DEF SweptStrings
  <2>3. DeadFinalized(k, n)
    <3>1. \A s \in Slots : k[s].tt = "userdata" => s # o /\ k[s] = h[s]
      BY <1>4, <1>5
    <3> QED BY <2>1, <3>1, <1>7 DEF DeadFinalized
  <2>4. PICK p \in 1..Len(m.rootgc) : m.rootgc[p] = o
    BY <1>15, SeqParts
  <2>5. /\ Len(n.rootgc) = Len(m.rootgc) - 1
        /\ \A j \in 1..Len(n.rootgc) : n.rootgc[j] = IF j < p THEN m.rootgc[j] ELSE m.rootgc[j + 1]
    <3>1. n.rootgc = Those(m.rootgc, Slots \ {m.rootgc[p]})
      BY <2>4, <1>2
    <3> QED BY <3>1, <1>15, Without
  <2>6. /\ DOMAIN m.rootgc = 1..Len(m.rootgc) /\ DOMAIN n.rootgc = 1..Len(n.rootgc) /\ Len(m.rootgc) \in Nat
        /\ m.sweepgc \in Nat /\ Len(n.rootgc) \in Nat
    BY <2>1, <1>15, SeqParts
  <2>7. ~(p < m.sweepgc)
    BY <2>1, <2>4, <2>6, <1>7 DEF SweptList
  <2>8. n.sweepgc \in 1..Len(n.rootgc) + 1
    BY <2>1, <2>5, <2>6, <2>7, <1>2
  <2>9. SweptList(k, n, n.sweepgc)
    <3> SUFFICES ASSUME NEW j \in DOMAIN n.rootgc, j < n.sweepgc
                 PROVE  /\ Swept(n, n.rootgc[j])
                        /\ k[n.rootgc[j]].tt = "thread" => \A x \in Range(k[n.rootgc[j]].openupval) : Swept(n, x)
      BY DEF SweptList
    <3> DEFINE q == m.rootgc[j]
    <3>1. j < p /\ n.rootgc[j] = q /\ j \in DOMAIN m.rootgc /\ j < m.sweepgc
      <4>1. j \in 1..Len(n.rootgc) /\ j < m.sweepgc /\ p \in Nat /\ j \in Nat
        BY <2>6, <1>2
      <4>2. j < p
        BY <2>6, <2>7, <4>1
      <4>3. j \in 1..Len(m.rootgc)
        BY <2>5, <2>6, <4>1
      <4> QED BY <2>5, <2>6, <4>1, <4>2, <4>3
    <3>2. /\ Swept(m, q) /\ (h[q].tt = "thread" => \A x \in Range(h[q].openupval) : Swept(m, x))
      BY <2>1, <3>1 DEF SweptList
    <3>3. q \in Slots
      BY <3>1, <1>1, ListsAreOfSlots
    <3> HIDE DEF q
    <3>4. q # o /\ k[q] = h[q]
      BY <3>2, <3>3, <1>4, <1>7
    <3>5. h[q].tt = "thread" => \A x \in Range(h[q].openupval) : x \in Slots /\ x # o
      <4>1. h[q].tt = "thread" => \A x \in Range(h[q].openupval) : x \in Slots
        BY <3>3, <1>1, Kinds, KindsAre, SeqParts
      <4> QED BY <4>1, <3>2, <1>7
    <3>6. Swept(n, q) /\ (k[q].tt = "thread" => \A x \in Range(k[q].openupval) : Swept(n, x))
      BY <3>2, <3>3, <3>4, <3>5, <1>7
    <3> QED BY <3>1, <3>6
  <2> QED BY <2>2, <2>3, <2>8, <2>9, <1>1, <1>2 DEF Cycle
<1> QED BY <1>8, <1>12, <1>13, <1>16, <1>17, <1>18, <1>19 DEF Good, HeapInv

(* The collector goes on to another stage, the marks being as they were.   *)
Restage(m, n) ==
  /\ n \in Collectors /\ n.marked = m.marked /\ n.currentwhite = m.currentwhite /\ n.rootgc = m.rootgc
  /\ InLists(n) = InLists(m) \/ InLists(n) = <<>>
  /\ n.gcstate # "propagate" => InLists(n) = <<>>

(* The invariant holds when the part for the new stage does.               *)
LEMMA Restaged ==
  ASSUME NEW h, NEW m, NEW tmu, NEW cs, NEW p, Good(h, m, tmu, cs, p), NEW n, Restage(m, n),
         p = "open" => Cycle(h, n, tmu)
  PROVE  Good(h, n, tmu, cs, p)
<1>1. /\ n \in Collectors /\ n.marked = m.marked /\ n.currentwhite = m.currentwhite /\ n.rootgc = m.rootgc
      /\ InLists(n) = InLists(m) \/ InLists(n) = <<>>
      /\ n.gcstate # "propagate" => InLists(n) = <<>>
  BY DEF Restage
<1>2. \A s \in Slots : Live(n, s) <=> Live(m, s)
  BY <1>1 DEF Live, OtherWhite
<1>3. Typed(h, n) /\ Typed(h, m) /\ Lists(h, m)
  BY <1>1 DEF Good, Typed, HeapInv
<1>4. Lists(h, n)
  <2>1. IsInjective(InLists(n)) /\ \A s \in Range(InLists(n)) : n.marked[s] = "gray" /\ Traversed(h, s)
    <3>1. CASE InLists(n) = InLists(m)
      BY <3>1, <1>1, <1>3 DEF Lists
    <3>2. CASE InLists(n) = <<>>
      BY <3>2, Empty
    <3> QED BY <3>1, <3>2, <1>1
  <2>2. \A s \in Slots : /\ n.marked[s] = "black" => Blackens(h, s)
                         /\ n.marked[s] = "gray" => Grayens(h, s)
    BY <1>1, <1>3 DEF Lists
  <2> QED BY <2>1, <2>2, <1>1 DEF Lists
<1>5. \A s \in Slots : Live(m, s) => Live(n, s)
  BY <1>2
<1>6. \A s \in Slots : Live(n, s) => Live(m, s) \/ Sound(h, m, s)
  BY <1>2
<1> QED BY <1>1, <1>3, <1>4, <1>5, <1>6, Recoloured

(* The pointer of the sweep goes past an object it has whitened.           *)
Advance(m, n) == n = [m EXCEPT !.sweepgc = @ + 1]

(* That keeps the invariant.                                               *)
LEMMA Advanced ==
  ASSUME NEW h, NEW m, NEW tmu, NEW cs, Good(h, m, tmu, cs, "open"), m.gcstate = "sweep",
         m.sweepgc \in DOMAIN m.rootgc, NEW o, o = m.rootgc[m.sweepgc], Swept(m, o),
         h[o].tt = "thread" => \A x \in Range(h[o].openupval) : Swept(m, x),
         NEW n, Advance(m, n)
  PROVE  Good(h, n, tmu, cs, "open") /\ n.gcstate = "sweep"
<1>1. m \in Collectors /\ Lists(h, m) /\ Cycle(h, m, tmu) /\ m.sweepgc \in Nat /\ m.rootgc \in Seq(Slots)
  BY DEF Good, Typed, HeapInv, Collectors, SlotSeqs
<1>2. /\ n \in Collectors /\ n.marked = m.marked /\ n.currentwhite = m.currentwhite /\ n.rootgc = m.rootgc
      /\ n.gcstate = "sweep" /\ n.sweepgc = m.sweepgc + 1 /\ InLists(n) = InLists(m)
  <2> DEFINE at == m.sweepgc + 1
  <2>1. at \in Nat /\ n = [m EXCEPT !.sweepgc = at]
    BY <1>1 DEF Advance
  <2>2. at = m.sweepgc + 1
    OBVIOUS
  <2> HIDE DEF at
  <2>3. n \in Collectors
    BY <1>1, <2>1 DEF Collectors
  <2>4. /\ n.marked = m.marked /\ n.currentwhite = m.currentwhite /\ n.rootgc = m.rootgc
        /\ n.gcstate = m.gcstate /\ n.sweepgc = at
        /\ n.gray = m.gray /\ n.grayagain = m.grayagain /\ n.weak = m.weak
    BY <1>1, <2>1 DEF Collectors
  <2> QED BY <2>2, <2>3, <2>4 DEF InLists
<1>3. Restage(m, n)
  BY <1>1, <1>2 DEF Restage, Lists
<1>4. /\ SweptStrings(h, m, Cardinality(Texts)) /\ SweptList(h, m, m.sweepgc) /\ DeadFinalized(h, m)
      /\ m.sweepgc \in 1..Len(m.rootgc) + 1
  BY <1>1 DEF Cycle
<1>5. \A s : (Swept(n, s) <=> Swept(m, s)) /\ (IsDead(n, s) <=> IsDead(m, s))
  BY <1>2 DEF Swept, IsDead, OtherWhite
<1>6. SweptStrings(h, n, Cardinality(Texts)) /\ DeadFinalized(h, n)
  BY <1>4, <1>5 DEF SweptStrings, DeadFinalized
<1>7. SweptList(h, n, n.sweepgc)
  <2> SUFFICES ASSUME NEW j \in DOMAIN m.rootgc, j < m.sweepgc + 1
               PROVE  /\ Swept(m, m.rootgc[j])
                      /\ h[m.rootgc[j]].tt = "thread" => \A x \in Range(h[m.rootgc[j]].openupval) : Swept(m, x)
    BY <1>2, <1>5 DEF SweptList
  <2>1. j < m.sweepgc \/ j = m.sweepgc
    BY <1>1
  <2>2. CASE j < m.sweepgc
    BY <2>2, <1>4 DEF SweptList
  <2>3. CASE j = m.sweepgc
    BY <2>3
  <2> QED BY <2>1, <2>2, <2>3
<1>8. n.sweepgc \in 1..Len(n.rootgc) + 1
  <2>1. m.sweepgc \in 1..Len(m.rootgc) /\ Len(m.rootgc) \in Nat
    BY <1>1
  <2> QED BY <2>1, <1>2
<1>9. Cycle(h, n, tmu)
  BY <1>2, <1>6, <1>7, <1>8 DEF Cycle
<1> QED BY <1>2, <1>3, <1>9, Restaged

(* The open upvalues of a thread are swept with it.                        *)
Visited(h, m, t, o, tmu, cs) ==
  /\ t \in [heap : [Slots -> Objects], g : Collectors]
  /\ Good(t.heap, t.g, tmu, cs, "open")
  /\ t.g.rootgc = m.rootgc /\ t.g.sweepgc = m.sweepgc /\ t.g.gcstate = m.gcstate
  /\ t.g.currentwhite = m.currentwhite /\ t.g.marked[o] = m.marked[o] /\ t.heap[o].tt = h[o].tt
  /\ h[o].tt = "thread" => \A x \in Range(t.heap[o].openupval) : Swept(t.g, x)

(* sweepwholelist for a thread's openupval.                                *)
LEMMA OpenUpvalsSwept ==
  ASSUME NEW h, NEW m, NEW tmu, NEW cs, Good(h, m, tmu, cs, "open"), m.gcstate # "propagate",
         NEW th \in Slots, h[th].tt = "thread", NEW t, t = SweepOpenUpvals([heap |-> h, g |-> m], th)
  PROVE  Visited(h, m, t, th, tmu, cs)
<1> DEFINE open == h[th].openupval
           dead == {u \in Range(open) : IsDead(m, u)}
           left == Those(open, Slots \ dead)
           y == [h[th] EXCEPT !.openupval = left]
           k == [s \in Slots |-> IF s \in dead THEN Free ELSE IF s = th THEN y ELSE h[s]]
           n == PaintAll(PaintAll(m, dead, "none"), Range(left), m.currentwhite)
<1>1. Typed(h, m) /\ h \in [Slots -> Objects] /\ m \in Collectors /\ UpvalsOK(h)
  BY DEF Good, Typed, HeapInv
<1>2. h[th] \in ThreadObjects /\ open \in Seq(Slots) /\ IsInjective(open) /\ Range(open) \subseteq Slots
  BY <1>1, Kinds, KindsAre, SeqParts DEF UpvalsOK
<1>3. \A u \in Range(open) : u \in Slots /\ OpenIn(h, th, u) /\ u # th /\ h[u] # Free
  BY <1>1, <1>2 DEF UpvalsOK, OpenIn, Free
<1>4. left \in Seq(Slots) /\ IsInjective(left) /\ Range(left) = Range(open) \ dead
  <2>1. left \in Seq(Slots) /\ Range(left) = Range(open) \cap (Slots \ dead) /\ IsInjective(left)
    BY <1>2, Filtered
  <2> QED BY <2>1, <1>2
<1>5. t = [heap |-> k, g |-> n]
  BY DEF SweepOpenUpvals
<1> HIDE DEF left
<1>6. y \in ThreadObjects /\ y.stack = h[th].stack /\ y.resumed = h[th].resumed /\ y.openupval = left
  BY <1>2, <1>4 DEF ThreadObjects
<1> HIDE DEF y
<1>7. y \in Objects /\ y.tt = "thread" /\ Free \in Objects
  BY <1>6, KindsAre
<1>8. /\ k \in [Slots -> Objects] /\ \A s \in dead : k[s] = Free
      /\ k[th] = y /\ \A s \in Slots \ dead : s # th => k[s] = h[s]
  BY <1>1, <1>3, <1>7
<1> HIDE DEF k
<1>9. m.currentwhite \in Marks /\ m.marked \in [Slots -> Marks]
  BY <1>1 DEF Collectors, Marks, Colours, Whites
<1>10. n = [m EXCEPT !.marked = [s \in Slots |-> IF s \in Range(left) THEN m.currentwhite
                                                 ELSE IF s \in dead THEN "none" ELSE m.marked[s]]]
  BY <1>1 DEF PaintAll, Collectors
<1>11. /\ n \in Collectors /\ n.rootgc = m.rootgc /\ n.currentwhite = m.currentwhite /\ n.gcstate = m.gcstate
       /\ n.full = m.full /\ n.sweepgc = m.sweepgc /\ n.sweepstrgc = m.sweepstrgc
       /\ n.gray = m.gray /\ n.grayagain = m.grayagain /\ n.weak = m.weak
       /\ n.marked = [s \in Slots |-> IF s \in Range(left) THEN m.currentwhite
                                      ELSE IF s \in dead THEN "none" ELSE m.marked[s]]
  <2> DEFINE marks == [s \in Slots |-> IF s \in Range(left) THEN m.currentwhite
                                       ELSE IF s \in dead THEN "none" ELSE m.marked[s]]
  <2>1. marks \in [Slots -> Marks]
    BY <1>9 DEF Marks
  <2>2. n = [m EXCEPT !.marked = marks]
    BY <1>10
  <2> HIDE DEF marks, n
  <2>3. /\ n \in Collectors /\ n.rootgc = m.rootgc /\ n.currentwhite = m.currentwhite /\ n.gcstate = m.gcstate
        /\ n.full = m.full /\ n.sweepgc = m.sweepgc /\ n.sweepstrgc = m.sweepstrgc
        /\ n.gray = m.gray /\ n.grayagain = m.grayagain /\ n.weak = m.weak /\ n.marked = marks
    BY <2>1, <2>2, <1>1 DEF Collectors
  <2> QED BY <2>3 DEF marks
<1> HIDE DEF n
<1>12. \A u \in Range(left) : Live(m, u)
  BY <1>1, <1>3, <1>4 DEF Typed, Live, IsDead
<1>13. FreedUpvals(h, m, k, n, th, dead, Range(left))
  <2>1. /\ \A s \in dead : n.marked[s] = "none"
        /\ \A s \in Range(left) : n.marked[s] = m.currentwhite
        /\ \A s \in Slots \ (dead \cup Range(left)) : n.marked[s] = m.marked[s]
    BY <1>2, <1>4, <1>11
  <2>2. InLists(n) = InLists(m)
    BY <1>11 DEF InLists
  <2>3. dead \subseteq Range(open) /\ Range(left) \subseteq Range(open) /\ \A u \in dead : IsDead(m, u)
    BY <1>4
  <2>4. k[th].tt = "thread" /\ k[th].stack = h[th].stack /\ k[th].resumed = h[th].resumed
        /\ IsInjective(k[th].openupval) /\ Range(k[th].openupval) = Range(h[th].openupval) \ dead
    BY <1>4, <1>6, <1>7, <1>8
  <2> HIDE DEF dead
  <2> QED BY <2>1, <2>2, <2>3, <2>4, <1>8, <1>11, <1>12 DEF FreedUpvals
<1>14. Good(k, n, tmu, cs, "open")
  BY <1>13, UpvalsFreed
<1>15. t.heap = k /\ t.g = n /\ t \in [heap : [Slots -> Objects], g : Collectors]
  BY <1>5, <1>8, <1>11
<1>16. n.marked[th] = m.marked[th]
  BY <1>3, <1>4, <1>11
<1>17. k[th].tt = "thread" /\ \A x \in Range(k[th].openupval) : Swept(n, x)
  BY <1>2, <1>4, <1>6, <1>7, <1>8, <1>11 DEF Swept
<1> QED BY <1>11, <1>14, <1>15, <1>16, <1>17 DEF Visited

(* A dead object the sweep meets is freed, a coroutine's upvalues closed.  *)
SweepsOn(x, tmu, cs) ==
  /\ x \in [heap : [Slots -> Objects], g : Collectors]
  /\ Good(x.heap, x.g, tmu, cs, "open") /\ x.g.gcstate = "sweep"

Unlinks(h, m, d, o) ==
  d = [heap |-> [h EXCEPT ![o] = Free], g |-> [Paint(m, o, "none") EXCEPT !.rootgc = Those(@, Slots \ {o})]]

(* The object is freed and leaves the list of objects.                     *)
LEMMA Unlinking ==
  ASSUME NEW h, NEW m, NEW tmu, NEW cs, Good(h, m, tmu, cs, "open"), m.gcstate = "sweep",
         NEW o \in Range(m.rootgc), IsDead(m, o), h[o].tt = "thread" => Range(h[o].openupval) = {},
         NEW d, Unlinks(h, m, d, o)
  PROVE  SweepsOn(d, tmu, cs)
<1> DEFINE k == [h EXCEPT ![o] = Free]
           b == Paint(m, o, "none")
           list == Those(m.rootgc, Slots \ {o})
           n == [b EXCEPT !.rootgc = list]
<1>1. Typed(h, m) /\ h \in [Slots -> Objects] /\ m \in Collectors /\ m.rootgc \in Seq(Slots)
  BY ListsAreOfSlots DEF Good, Typed
<1>2. o \in Slots
  BY <1>1, ListsAreOfSlots
<1>3. Painted(m, b, o, "none")
  BY <1>1, <1>2, PaintIs DEF Marks
<1> HIDE DEF b
<1>4. b \in Collectors /\ b.rootgc = m.rootgc
  BY <1>3 DEF Painted
<1>5. list \in SlotSeqs
  BY <1>1, Filtered DEF SlotSeqs
<1>6. d = [heap |-> k, g |-> n]
  BY <1>4 DEF b, Unlinks
<1> HIDE DEF list
<1>7. /\ n \in Collectors /\ n.marked = b.marked /\ n.rootgc = list /\ n.currentwhite = b.currentwhite
      /\ n.gcstate = b.gcstate /\ n.full = b.full /\ n.sweepgc = b.sweepgc /\ n.sweepstrgc = b.sweepstrgc
      /\ n.gray = b.gray /\ n.grayagain = b.grayagain /\ n.weak = b.weak
  BY <1>4, <1>5 DEF Collectors
<1> HIDE DEF n
<1>8. /\ n.marked[o] = "none" /\ \A s \in Slots : s # o => n.marked[s] = m.marked[s]
      /\ n.currentwhite = m.currentwhite /\ n.gcstate = m.gcstate
      /\ n.full = m.full /\ n.sweepgc = m.sweepgc /\ n.sweepstrgc = m.sweepstrgc /\ InLists(n) = InLists(m)
  BY <1>3, <1>7 DEF Painted, InLists
<1>9. Unlinked(h, m, k, n, o)
  BY <1>7, <1>8 DEF Unlinked, list
<1> HIDE DEF k
<1>10. Good(k, n, tmu, cs, "open")
  BY <1>9, Removed
<1>11. k \in [Slots -> Objects]
  BY <1>10 DEF Good, Typed
<1>12. d.heap = k /\ d.g = n /\ d \in [heap : [Slots -> Objects], g : Collectors]
  BY <1>6, <1>7, <1>11
<1> QED BY <1>8, <1>10, <1>12 DEF SweepsOn

(* freeobj: a thread closes its upvalues first.                            *)
LEMMA Freeing ==
  ASSUME NEW h, NEW m, NEW tmu, NEW cs, Good(h, m, tmu, cs, "open"), m.gcstate = "sweep",
         NEW o \in Range(m.rootgc), IsDead(m, o)
  PROVE  SweepsOn(FreeObject([heap |-> h, g |-> m], o), tmu, cs)
<1> DEFINE c == CloseUpvals([heap |-> h, g |-> m], o, 0)
<1>1. Typed(h, m) /\ Placed(h, m, tmu) /\ RootsLive(h, m, tmu, cs) /\ h \in [Slots -> Objects] /\ o \in Slots
  BY ListsAreOfSlots DEF Good, HeapInv, Typed
<1>2. CASE h[o].tt # "thread"
  BY <1>2, Unlinking DEF FreeObject, Unlinks
<1>3. CASE h[o].tt = "thread"
  <2> DEFINE k == c.heap
             l == c.g
  <2>1. ClosedAll(h, m, c, o, 0, tmu, cs)
    BY <1>1, <1>3, CloseUpvalsStep
  <2>2. Unlinks(k, l, FreeObject([heap |-> h, g |-> m], o), o)
    BY <1>3 DEF FreeObject, Unlinks
  <2> HIDE DEF c
  <2>3. /\ Good(k, l, tmu, cs, "open") /\ l.gcstate = "sweep" /\ l.currentwhite = m.currentwhite
        /\ k[o].tt = "thread" /\ l.marked[o] = m.marked[o]
        /\ \A u \in Range(k[o].openupval) : u \in Range(h[o].openupval) /\ ~(h[u].level >= 0)
    BY <2>1 DEF ClosedAll
  <2> HIDE DEF k, l
  <2>4. IsDead(l, o)
    BY <2>3 DEF IsDead, OtherWhite
  <2>5. o \in Range(l.rootgc)
    <3>1. o \notin Range(tmu)
      BY <1>1 DEF RootsLive, Live, IsDead
    <3>2. Listed(k, o)
      BY <2>3 DEF Listed
    <3>3. Range(l.rootgc) \cup Range(tmu) = {s \in Slots : Listed(k, s)}
      BY <2>3 DEF Good, HeapInv, Placed
    <3> QED BY <3>1, <3>2, <3>3, <1>1
  <2>6. Range(k[o].openupval) = {}
    <3>1. \A u \in Range(h[o].openupval) : u \in Slots /\ h[u].tt = "upval"
      <4>1. Range(h[o].openupval) \subseteq Slots /\ UpvalsOK(h)
        BY <1>1, <1>3, Kinds, KindsAre, SeqParts DEF Good, HeapInv
      <4> QED BY <4>1, <1>1, <1>3 DEF UpvalsOK, OpenIn
    <3>2. \A u \in Range(h[o].openupval) : h[u].level \in Registers
      BY <3>1, OpenUpvalThread
    <3>3. \A r \in Registers : r >= 0
      <4>1. Cardinality(Registers) \in Nat /\ Registers = 1..Cardinality(Registers)
        BY HeapAssumption, FS_CardinalityType
      <4> QED BY <4>1
    <3>4. \A u \in Range(h[o].openupval) : h[u].level >= 0
      BY <3>2, <3>3
    <3> QED BY <2>3, <3>4
  <2> QED BY <2>2, <2>3, <2>4, <2>5, <2>6, Unlinking
<1> QED BY <1>2, <1>3

IsWhitened(m, n, s) ==
  /\ n.marked = [m.marked EXCEPT ![s] = m.currentwhite]
  /\ n.rootgc = m.rootgc /\ n.currentwhite = m.currentwhite /\ n.gcstate = m.gcstate
  /\ n.full = m.full /\ n.sweepgc = m.sweepgc /\ n.sweepstrgc = m.sweepstrgc /\ InLists(n) = InLists(m)
  /\ n \in Collectors

(* makewhite is that change.                                               *)
LEMMA MakeWhiteDoes ==
  ASSUME NEW h, NEW m, NEW s \in Slots, Typed(h, m), h[s] # Free
  PROVE  IsWhitened(m, MakeWhite(m, s), s)
<1> DEFINE n == MakeWhite(m, s)
<1>1. /\ n.marked = [m.marked EXCEPT ![s] = m.currentwhite]
      /\ n.rootgc = m.rootgc /\ n.currentwhite = m.currentwhite /\ n.gcstate = m.gcstate
      /\ n.full = m.full /\ n.sweepgc = m.sweepgc /\ n.sweepstrgc = m.sweepstrgc /\ InLists(n) = InLists(m)
      /\ Typed(h, n)
  BY MakeWhiteIs
<1> HIDE DEF n
<1> QED BY <1>1 DEF IsWhitened, Typed, n

(* One iteration of sweeplist.                                             *)
LEMMA SweepOneStep ==
  ASSUME NEW tmu, NEW cs, NEW x, SweepsOn(x, tmu, cs)
  PROVE  SweepsOn(SweepOne(x), tmu, cs)
<1> DEFINE h == x.heap
           m == x.g
           o == m.rootgc[m.sweepgc]
           t == IF h[o].tt = "thread" THEN SweepOpenUpvals(x, o) ELSE x
<1>1. /\ x = [heap |-> h, g |-> m] /\ Good(h, m, tmu, cs, "open") /\ m.gcstate = "sweep"
      /\ x \in [heap : [Slots -> Objects], g : Collectors]
  BY DEF SweepsOn
<1>2. CASE m.sweepgc > Len(m.rootgc)
  BY <1>2 DEF SweepOne
<1>3. CASE ~(m.sweepgc > Len(m.rootgc))
  <2>1. SweepOne(x) = IF IsDead(t.g, o) /\ o # Main THEN FreeObject(t, o)
                      ELSE [t EXCEPT !.g = [MakeWhite(t.g, o) EXCEPT !.sweepgc = @ + 1]]
    BY <1>3 DEF SweepOne
  <2>2. Typed(h, m) /\ Cycle(h, m, tmu) /\ Placed(h, m, tmu)
    BY <1>1 DEF Good, HeapInv
  <2>3. m.sweepgc \in DOMAIN m.rootgc
    <3>1. m.rootgc \in Seq(Slots) /\ m.sweepgc \in 1..Len(m.rootgc) + 1
      BY <1>1, <2>2, ListsAreOfSlots DEF Cycle
    <3> QED BY <3>1, <1>3
  <2>4. o \in Slots /\ o \in Range(m.rootgc) /\ Listed(h, o)
    <3>1. o \in Slots /\ o \in Range(m.rootgc)
      BY <2>2, <2>3, ListsAreOfSlots DEF Range
    <3> HIDE DEF o
    <3> QED BY <3>1, <2>2 DEF Placed
  <2> HIDE DEF h, m
  <2>5. Visited(h, m, t, o, tmu, cs)
    <3>1. CASE h[o].tt = "thread"
      <4>1. t = SweepOpenUpvals([heap |-> h, g |-> m], o)
        BY <3>1, <1>1
      <4> HIDE DEF o, t
      <4>2. m.gcstate # "propagate"
        BY <1>1
      <4> QED BY <3>1, <4>1, <4>2, <1>1, <2>4, OpenUpvalsSwept
    <3>2. CASE h[o].tt # "thread"
      <4>1. t.heap = h /\ t.g = m /\ t = x
        BY <3>2 DEF h, m
      <4> HIDE DEF o, t
      <4> QED BY <3>2, <4>1, <1>1 DEF Visited
    <3> QED BY <3>1, <3>2
  <2> DEFINE k == t.heap
             n == t.g
  <2>6. o = m.rootgc[m.sweepgc]
    OBVIOUS
  <2> HIDE DEF t, o
  <2>7. /\ Good(k, n, tmu, cs, "open") /\ n.rootgc = m.rootgc /\ n.sweepgc = m.sweepgc /\ n.gcstate = "sweep"
        /\ k[o].tt = h[o].tt /\ t = [heap |-> k, g |-> n]
        /\ k[o].tt = "thread" => \A u \in Range(k[o].openupval) : Swept(n, u)
    BY <2>5, <1>1 DEF Visited
  <2>8. CASE IsDead(n, o) /\ o # Main
    <3>1. SweepOne(x) = FreeObject([heap |-> k, g |-> n], o)
      BY <2>1, <2>7, <2>8
    <3> HIDE DEF k, n
    <3> QED BY <3>1, <2>4, <2>7, <2>8, Freeing
  <2>9. CASE ~(IsDead(n, o) /\ o # Main)
    <3> DEFINE w == MakeWhite(n, o)
               a == [w EXCEPT !.sweepgc = @ + 1]
    <3>1. SweepOne(x) = [heap |-> k, g |-> a]
      BY <2>1, <2>7, <2>9
    <3> HIDE DEF k, n
    <3>2. Typed(k, n) /\ Closed(k, n) /\ RootsLive(k, n, tmu, cs) /\ Lists(k, n)
      BY <2>7 DEF Good, HeapInv
    <3>3. k[o] # Free /\ Live(n, o)
      <4>1. k[o] # Free
        BY <2>4, <2>7 DEF Listed, Free
      <4>2. n.marked[o] # "none"
        BY <4>1, <3>2, <2>4 DEF Typed
      <4> QED BY <4>1, <4>2, <3>2, <2>9 DEF RootsLive, Live, IsDead
    <3>4. Sound(k, n, o) /\ o \notin Range(InLists(n))
      <4>1. InLists(n) = <<>>
        BY <3>2, <2>7 DEF Lists
      <4> QED BY <4>1, <3>2, <3>3, <2>4, Empty DEF Closed
    <3>5. Good(k, w, tmu, cs, "open")
      <4>1. ~("open" = "open" /\ n.gcstate = "propagate")
        BY <2>7
      <4> QED BY <3>3, <3>4, <4>1, <2>4, <2>7, Whitened
    <3>6. /\ w.marked = [n.marked EXCEPT ![o] = n.currentwhite] /\ w.rootgc = n.rootgc /\ w.sweepgc = n.sweepgc
          /\ w.gcstate = n.gcstate /\ w.currentwhite = n.currentwhite
      <4>1. IsWhitened(n, w, o)
        BY <3>2, <3>3, <2>4, MakeWhiteDoes
      <4> QED BY <4>1 DEF IsWhitened
    <3>7. n.marked \in [Slots -> Marks]
      BY <3>2 DEF Typed, Collectors
    <3> HIDE DEF w
    <3>8. Swept(w, o) /\ \A s \in Slots : Swept(n, s) => Swept(w, s)
      BY <3>6, <3>7, <2>4 DEF Swept
    <3>9. k[o].tt = "thread" => \A u \in Range(k[o].openupval) : u \in Slots
      BY <3>2, <2>4, Kinds, KindsAre, ListsAreOfSlots, SeqParts
    <3>10. Advance(w, a)
      BY DEF Advance
    <3>11. w.gcstate = "sweep" /\ w.sweepgc \in DOMAIN w.rootgc /\ o = w.rootgc[w.sweepgc]
           /\ (k[o].tt = "thread" => \A u \in Range(k[o].openupval) : Swept(w, u))
      BY <2>3, <2>6, <2>7, <3>6, <3>8, <3>9
    <3> HIDE DEF a
    <3>12. Good(k, a, tmu, cs, "open") /\ a.gcstate = "sweep"
      BY <3>5, <3>8, <3>10, <3>11, Advanced
    <3>13. k \in [Slots -> Objects] /\ a \in Collectors
      BY <3>12 DEF Good, Typed
    <3> QED BY <3>1, <3>12, <3>13 DEF SweepsOn
  <2> QED BY <2>8, <2>9
<1> QED BY <1>2, <1>3

(* sweeplist, over GCSWEEPMAX objects.                                     *)
LEMMA SweepListStep ==
  ASSUME NEW h, NEW m, NEW tmu, NEW cs, Good(h, m, tmu, cs, "open"), m.gcstate = "sweep"
  PROVE  SweepsOn(SweepList(h, m), tmu, cs)
<1> DEFINE M == {x \in [heap : [Slots -> Objects], g : Collectors] : SweepsOn(x, tmu, cs)}
           c == [heap |-> h, g |-> m]
           n == SweepMax
<1>1. \A x : x \in M <=> SweepsOn(x, tmu, cs)
  BY DEF SweepsOn
<1>2. h \in [Slots -> Objects] /\ m \in Collectors
  BY DEF Good, Typed
<1>3. c \in M
  BY <1>1, <1>2 DEF SweepsOn
<1> HIDE DEF M
<1>4. \A x \in M, i \in 1..n : SweepOne(x) \in M
  BY <1>1, SweepOneStep
<1>5. n \in Nat /\ n = SweepMax
  BY GcAssumption
<1> HIDE DEF n
<1>6. PICK W : SweepTrace(h, m, c, M, n, W)
  BY <1>3, <1>4, <1>5, SweepSteps
<1>7. SweepList(h, m) = W[n] /\ \A i \in 0..n : W[i] \in M
  BY <1>6 DEF SweepTrace
<1>8. n \in 0..n
  BY <1>5
<1> QED BY <1>1, <1>7, <1>8

(* A bucket of the string table is swept.                                  *)
BucketSwept(h, m, k, n, S, D) ==
  /\ S \subseteq {s \in Slots : h[s].tt = "string"} /\ D \subseteq S
  /\ \A s \in D : IsDead(m, s)
  /\ \A s \in S \ D : Live(m, s)
  /\ k \in [Slots -> Objects] /\ \A s \in Slots : k[s] = IF s \in D THEN Free ELSE h[s]
  /\ n \in Collectors
  /\ \A s \in Slots : n.marked[s] = IF s \in D THEN "none" ELSE IF s \in S THEN m.currentwhite ELSE m.marked[s]
  /\ n.rootgc = m.rootgc /\ n.currentwhite = m.currentwhite /\ n.sweepgc = m.sweepgc
  /\ InLists(n) = InLists(m) /\ n.gcstate \in {"sweepstring", "sweep"}
  /\ \A s \in Slots : h[s].tt = "string" /\ h[s].text \in 1..n.sweepstrgc => s \in S \/ Swept(m, s)
  /\ n.gcstate = "sweep" => Cardinality(Texts) <= n.sweepstrgc

(* That keeps the invariant.                                               *)
LEMMA StringsFreed ==
  ASSUME NEW h, NEW m, NEW tmu, NEW cs, Good(h, m, tmu, cs, "open"), m.gcstate = "sweepstring",
         NEW k, NEW n, NEW S, NEW D, BucketSwept(h, m, k, n, S, D)
  PROVE  Good(k, n, tmu, cs, "open")
<1>1. /\ Typed(h, m) /\ Closed(h, m) /\ UpvalsOK(h) /\ Placed(h, m, tmu) /\ RootsLive(h, m, tmu, cs)
      /\ Lists(h, m) /\ Cycle(h, m, tmu) /\ h \in [Slots -> Objects] /\ m \in Collectors
      /\ m.currentwhite \in Whites /\ OtherWhite(m) \in Whites /\ m.currentwhite # OtherWhite(m)
  BY MarksAre DEF Good, HeapInv, Typed
<1>2. /\ S \subseteq {s \in Slots : h[s].tt = "string"} /\ D \subseteq S
      /\ \A s \in D : IsDead(m, s)
      /\ \A s \in S \ D : Live(m, s)
      /\ k \in [Slots -> Objects] /\ \A s \in Slots : k[s] = IF s \in D THEN Free ELSE h[s]
      /\ n \in Collectors
      /\ \A s \in Slots : n.marked[s] = IF s \in D THEN "none" ELSE IF s \in S THEN m.currentwhite ELSE m.marked[s]
      /\ n.rootgc = m.rootgc /\ n.currentwhite = m.currentwhite /\ n.sweepgc = m.sweepgc
      /\ InLists(n) = InLists(m) /\ n.gcstate \in {"sweepstring", "sweep"}
      /\ \A s \in Slots : h[s].tt = "string" /\ h[s].text \in 1..n.sweepstrgc => s \in S \/ Swept(m, s)
      /\ n.gcstate = "sweep" => Cardinality(Texts) <= n.sweepstrgc
      /\ OtherWhite(n) = OtherWhite(m)
  BY DEF BucketSwept, OtherWhite
<1>3. \A s \in D : s \in Slots /\ h[s].tt = "string" /\ ~Live(m, s)
  BY <1>1, <1>2 DEF IsDead, Live
<1>4. /\ \A s \in Slots : h[s].tt # "string" => k[s] = h[s]
      /\ \A s \in Slots : s \in D => k[s] = Free
      /\ \A s \in Slots : s \notin D => k[s] = h[s]
  BY <1>2, <1>3
<1>5. Free.tt = "free"
  BY KindsAre
<1>6. /\ \A s \in Slots : Live(n, s) <=> Live(m, s)
      /\ \A s \in Slots : Live(m, s) => s \notin D
      /\ \A s \in Slots : s \in S \ D => Swept(n, s)
      /\ \A s \in Slots : s \notin D /\ Swept(m, s) => Swept(n, s)
      /\ \A s \in Slots : IsDead(n, s) => IsDead(m, s) /\ s \notin D
  BY <1>1, <1>2, <1>3 DEF Live, Swept, IsDead, Whites
<1>7. Typed(k, n)
  <2> SUFFICES ASSUME NEW s \in Slots PROVE n.marked[s] = "none" <=> k[s] = Free
    BY <1>2 DEF Typed
  <2>1. m.marked[s] = "none" <=> h[s] = Free
    BY <1>1 DEF Typed
  <2>2. CASE s \in D
    BY <2>2, <1>2
  <2>3. CASE s \in S \ D
    <3>1. n.marked[s] # "none" /\ h[s] # Free
      BY <2>1, <2>3, <1>1, <1>2, <1>5 DEF Whites
    <3> QED BY <2>3, <3>1, <1>2
  <2>4. CASE s \notin D /\ s \notin S
    BY <2>1, <2>4, <1>2
  <2> QED BY <2>2, <2>3, <2>4
<1>8. \A s \in Slots : h[s].tt = "upval" /\ h[s].open => h[s].thread \in Slots /\ h[h[s].thread].tt = "thread"
  BY OpenUpvalThread
<1>9. \A s \in Slots : h[s].tt = "upval" => UpvalValue(k, s) = UpvalValue(h, s)
  BY <1>4, <1>8 DEF UpvalValue
<1>10. \A v : /\ Fine(h, m, v) => Fine(k, n, v)
              /\ FineMeta(h, m, v) => FineMeta(k, n, v)
              /\ (v \in Slots /\ FineUpval(h, m, v)) => FineUpval(k, n, v)
  BY <1>4, <1>6 DEF Fine, FineMeta, FineUpval
<1>11. Closed(k, n)
  <2> SUFFICES ASSUME NEW s \in Slots, Live(n, s) PROVE Sound(k, n, s)
    BY DEF Closed
  <2>1. Sound(h, m, s) /\ k[s] = h[s]
    BY <1>1, <1>4, <1>6 DEF Closed
  <2>2. CASE h[s].tt = "upval"
    BY <2>1, <2>2, <1>9, <1>10 DEF Sound
  <2>3. CASE h[s].tt # "upval"
    <3>1. h[s].tt = "function" => \A x \in Range(h[s].upvals) : x \in Slots
      BY <1>1, Kinds, KindsAre, SeqParts
    <3> QED BY <2>1, <2>3, <3>1, <1>10 DEF Sound
  <2> QED BY <2>2, <2>3
<1>12. UpvalsOK(k)
  <2> SUFFICES ASSUME NEW s \in Slots
               PROVE  /\ k[s].tt = "thread" => /\ IsInjective(k[s].openupval)
                                               /\ \A x \in Range(k[s].openupval) : OpenIn(k, s, x)
                      /\ (k[s].tt = "upval" /\ k[s].open) => /\ k[k[s].thread].tt = "thread"
                                                             /\ s \in Range(k[k[s].thread].openupval)
    BY DEF UpvalsOK
  <2>1. ASSUME k[s].tt = "thread"
        PROVE  IsInjective(k[s].openupval) /\ \A x \in Range(k[s].openupval) : OpenIn(k, s, x)
    <3>1. k[s] = h[s] /\ h[s].tt = "thread"
      BY <2>1, <1>4, <1>5
    <3>2. IsInjective(h[s].openupval) /\ \A x \in Range(h[s].openupval) : x \in Slots /\ OpenIn(h, s, x)
      <4>1. Range(h[s].openupval) \subseteq Slots
        BY <3>1, <1>1, Kinds, KindsAre, SeqParts
      <4> QED BY <3>1, <4>1, <1>1 DEF UpvalsOK
    <3> QED BY <3>1, <3>2, <1>4 DEF OpenIn
  <2>2. ASSUME k[s].tt = "upval", k[s].open
        PROVE  k[k[s].thread].tt = "thread" /\ s \in Range(k[k[s].thread].openupval)
    <3>1. k[s] = h[s] /\ h[s].tt = "upval" /\ h[s].open
      BY <2>2, <1>4, <1>5
    <3>2. h[s].thread \in Slots /\ h[h[s].thread].tt = "thread" /\ s \in Range(h[h[s].thread].openupval)
      BY <3>1, <1>1, <1>8 DEF UpvalsOK
    <3> QED BY <3>1, <3>2, <1>4
  <2> QED BY <2>1, <2>2
<1>13. \A s \in Slots : Listed(k, s) <=> Listed(h, s)
  BY <1>3, <1>4, <1>5 DEF Listed
<1>14. Placed(k, n, tmu)
  <2>1. /\ tmu \in SlotSeqs /\ IsInjective(m.rootgc) /\ IsInjective(tmu)
        /\ Range(m.rootgc) \cap Range(tmu) = {}
        /\ Range(m.rootgc) \cup Range(tmu) = {s \in Slots : Listed(h, s)}
        /\ \A x \in Range(tmu) : h[x].tt = "userdata" /\ h[x].finalized
        /\ h[Main].tt = "thread" /\ h[Globals].tt = "table"
    BY <1>1 DEF Placed
  <2>2. {s \in Slots : Listed(k, s)} = {s \in Slots : Listed(h, s)}
    BY <1>13
  <2>3. \A x \in Range(tmu) : k[x].tt = "userdata" /\ k[x].finalized
    <3>1. \A x \in Range(tmu) : x \in Slots /\ h[x].tt # "string"
      BY <2>1
    <3> QED BY <2>1, <3>1, <1>4
  <2>4. k[Main].tt = "thread" /\ k[Globals].tt = "table"
    BY <2>1, <1>4, HeapAssumption
  <2> QED BY <2>1, <2>2, <2>3, <2>4, <1>2 DEF Placed
<1>15. RootsLive(k, n, tmu, cs)
  <2>1. /\ Live(m, Main) /\ Live(m, Globals)
        /\ \A x \in Range(tmu) : Live(m, x)
        /\ cs \in SlotSeqs /\ cs # <<>> /\ cs[1] = Main /\ IsInjective(cs)
        /\ \A i \in DOMAIN cs : Live(m, cs[i]) /\ h[cs[i]].tt = "thread"
        /\ \A i \in 1..Len(cs) - 1 : h[cs[i]].resumed = cs[i + 1]
    BY <1>1 DEF RootsLive
  <2>2. \A i \in DOMAIN cs : cs[i] \in Slots /\ k[cs[i]] = h[cs[i]]
    BY <2>1, <1>4, SeqParts DEF SlotSeqs
  <2>3. Range(tmu) \subseteq Slots
    BY <1>1 DEF Placed
  <2>4. \A i \in 1..Len(cs) - 1 : i \in DOMAIN cs
    <3>1. Len(cs) \in Nat /\ DOMAIN cs = 1..Len(cs)
      BY <2>1 DEF SlotSeqs
    <3> QED BY <3>1
  <2>5. \A i \in DOMAIN cs : Live(n, cs[i]) /\ k[cs[i]].tt = "thread"
    BY <2>1, <2>2, <1>6
  <2>6. \A i \in 1..Len(cs) - 1 : k[cs[i]].resumed = cs[i + 1]
    BY <2>1, <2>2, <2>4
  <2>7. Live(n, Main) /\ Live(n, Globals) /\ \A x \in Range(tmu) : Live(n, x)
    BY <2>1, <2>3, <1>6, HeapAssumption
  <2> QED BY <2>1, <2>5, <2>6, <2>7 DEF RootsLive
<1>16. Lists(k, n)
  <2>1. InLists(m) = <<>>
    BY <1>1 DEF Lists
  <2>2. \A s \in Slots : /\ n.marked[s] = "black" => Blackens(k, s)
                         /\ n.marked[s] = "gray" => Grayens(k, s)
    <3>1. \A s \in Slots : s \notin D => (Blackens(h, s) => Blackens(k, s)) /\ (Grayens(h, s) => Grayens(k, s))
      BY <1>4 DEF Blackens, Grayens, Traversed
    <3>2. \A s \in Slots : n.marked[s] \in {"black", "gray"} => s \notin D /\ n.marked[s] = m.marked[s]
      BY <1>1, <1>2 DEF Whites
    <3> QED BY <3>1, <3>2, <1>1 DEF Lists
  <2>3. Range(InLists(n)) = {} /\ IsInjective(InLists(n))
    BY <2>1, <1>2, Empty
  <2> QED BY <2>1, <2>2, <2>3, <1>2 DEF Lists
<1>17. Cycle(k, n, tmu)
  <2>1. m.sweepgc = 1 /\ DeadFinalized(h, m)
    BY <1>1 DEF Cycle
  <2>2. SweptStrings(k, n, n.sweepstrgc)
    <3> SUFFICES ASSUME NEW s \in Slots, k[s].tt = "string", k[s].text \in 1..n.sweepstrgc PROVE Swept(n, s)
      BY DEF SweptStrings
    <3>1. s \notin D /\ k[s] = h[s]
      BY <1>4, <1>5
    <3>2. s \in S \/ Swept(m, s)
      BY <3>1, <1>2
    <3> QED BY <3>1, <3>2, <1>6
  <2>3. DeadFinalized(k, n)
    <3>1. \A s \in Slots : k[s].tt = "userdata" => k[s] = h[s]
      BY <1>4, <1>5
    <3> QED BY <2>1, <3>1, <1>6 DEF DeadFinalized
  <2>4. n.gcstate = "sweep" => SweptStrings(k, n, Cardinality(Texts))
    <3>1. n.sweepstrgc \in Nat /\ Cardinality(Texts) \in Nat
      BY <1>2, GcAssumption, FS_CardinalityType DEF Collectors
    <3>2. Cardinality(Texts) <= n.sweepstrgc => \A i \in 1..Cardinality(Texts) : i \in 1..n.sweepstrgc
      BY <3>1
    <3> QED BY <2>2, <3>2, <1>2 DEF SweptStrings
  <2>5. SweptList(k, n, n.sweepgc) /\ n.sweepgc \in 1..Len(n.rootgc) + 1
    <3>1. n.rootgc \in Seq(Slots) /\ n.sweepgc = 1
      BY <2>1, <1>1, <1>2, ListsAreOfSlots
    <3>2. \A i \in DOMAIN n.rootgc : ~(i < 1)
      BY <3>1
    <3> QED BY <3>1, <3>2 DEF SweptList
  <2> QED BY <2>1, <2>2, <2>3, <2>4, <2>5, <1>2 DEF Cycle
<1> QED BY <1>7, <1>11, <1>12, <1>14, <1>15, <1>16, <1>17 DEF Good, HeapInv

(* The steps of the sweep.                                                 *)
LEMMA SweepStringStep ==
  ASSUME NEW h, NEW m, NEW tmu, NEW cs, Good(h, m, tmu, cs, "open"), m.gcstate = "sweepstring",
         NEW s, s = SweepBucket(h, m, m.sweepstrgc + 1),
         NEW state, state = IF m.sweepstrgc + 1 >= Cardinality(Texts) THEN "sweep" ELSE "sweepstring"
  PROVE  Good(s.heap, [s.g EXCEPT !.sweepstrgc = @ + 1, !.gcstate = state], tmu, cs, "open")
<1> DEFINE b == m.sweepstrgc + 1
           S == {x \in Slots : IsA(h, x, "string") /\ h[x].text = b}
           D == {x \in S : IsDead(m, x)}
           k == [x \in Slots |-> IF x \in D THEN Free ELSE h[x]]
           e == PaintAll(PaintAll(m, D, "none"), S \ D, m.currentwhite)
           n == [e EXCEPT !.sweepstrgc = @ + 1, !.gcstate = state]
           marks == [x \in Slots |-> IF x \in S \ D THEN m.currentwhite ELSE IF x \in D THEN "none" ELSE m.marked[x]]
<1>1. Typed(h, m) /\ Cycle(h, m, tmu) /\ Lists(h, m) /\ h \in [Slots -> Objects] /\ m \in Collectors /\ m.sweepstrgc \in Nat
  BY ListsAreOfSlots DEF Good, HeapInv, Typed
<1>2. s = [heap |-> k, g |-> e]
  BY DEF SweepBucket
<1>3. e = [m EXCEPT !.marked = marks]
  BY <1>1 DEF PaintAll, Collectors
<1>4. marks \in [Slots -> Marks]
  <2>1. m.currentwhite \in Marks /\ m.marked \in [Slots -> Marks] /\ "none" \in Marks
    BY <1>1 DEF Collectors, Marks, Colours, Whites
  <2> QED BY <2>1
<1>5. \A x \in Slots : marks[x] = IF x \in D THEN "none" ELSE IF x \in S THEN m.currentwhite ELSE m.marked[x]
  OBVIOUS
<1>6. \A x \in S : x \in Slots /\ h[x].tt = "string"
  BY DEF IsA
<1>7. k \in [Slots -> Objects] /\ \A x \in Slots : k[x] = IF x \in D THEN Free ELSE h[x]
  <2>1. Free \in Objects
    BY KindsAre
  <2> QED BY <2>1, <1>1
<1> HIDE DEF marks, e, k
<1>8. b \in Nat /\ state \in {"sweepstring", "sweep"} /\ (state = "sweep" => Cardinality(Texts) <= b)
  <2>1. Cardinality(Texts) \in Nat
    BY GcAssumption, FS_CardinalityType
  <2> QED BY <2>1, <1>1
<1>9. /\ n \in Collectors /\ n.marked = marks /\ n.sweepstrgc = b /\ n.gcstate = state
      /\ n.rootgc = m.rootgc /\ n.currentwhite = m.currentwhite /\ n.sweepgc = m.sweepgc
      /\ n.gray = m.gray /\ n.grayagain = m.grayagain /\ n.weak = m.weak
  <2>1. n = [m EXCEPT !.marked = marks, !.sweepstrgc = b, !.gcstate = state]
    BY <1>1, <1>3 DEF Collectors
  <2>2. state \in GcStates
    BY <1>8 DEF GcStates
  <2> HIDE DEF n, b
  <2> QED BY <2>1, <2>2, <1>1, <1>4, <1>8 DEF Collectors
<1> HIDE DEF n
<1>10. BucketSwept(h, m, k, n, S, D)
  <2>1. \A x \in S \ D : Live(m, x)
    <3>1. \A x \in S : h[x] # Free
      BY <1>6 DEF Free
    <3> QED BY <3>1, <1>1, <1>6 DEF Typed, Live, IsDead
  <2>2. \A x \in Slots : h[x].tt = "string" /\ h[x].text \in 1..n.sweepstrgc => x \in S \/ Swept(m, x)
    <3> SUFFICES ASSUME NEW x \in Slots, h[x].tt = "string", h[x].text \in 1..b PROVE x \in S \/ Swept(m, x)
      BY <1>9
    <3>1. h[x].text = b \/ h[x].text \in 1..m.sweepstrgc
      BY <1>1
    <3>2. h[x].text = b => x \in S
      BY DEF IsA
    <3>3. h[x].text \in 1..m.sweepstrgc => Swept(m, x)
      BY <1>1 DEF Cycle, SweptStrings
    <3> QED BY <3>1, <3>2, <3>3
  <2>3. S \subseteq {x \in Slots : h[x].tt = "string"} /\ D \subseteq S /\ \A x \in D : IsDead(m, x)
    BY <1>6
  <2>4. InLists(n) = InLists(m)
    BY <1>9 DEF InLists
  <2> HIDE DEF S, D, b
  <2> QED BY <2>1, <2>2, <2>3, <2>4, <1>5, <1>7, <1>8, <1>9 DEF BucketSwept
<1>11. Good(k, n, tmu, cs, "open")
  BY <1>10, StringsFreed
<1>12. s.heap = k /\ s.g = e
  BY <1>2
<1> QED BY <1>11, <1>12 DEF n

(* When the cursor is at the end of the list everything has been swept.    *)
LEMMA SweptAtLast ==
  ASSUME NEW h, NEW m, NEW tmu, NEW cs, Good(h, m, tmu, cs, "open"), m.gcstate = "sweep",
         m.sweepgc > Len(m.rootgc)
  PROVE  AllSwept(h, m, tmu)
<1>1. /\ Typed(h, m) /\ UpvalsOK(h) /\ Placed(h, m, tmu) /\ m.rootgc \in Seq(Slots)
      /\ h \in [Slots -> Objects]
  BY ListsAreOfSlots DEF Good, HeapInv, Typed
<1>2. /\ SweptStrings(h, m, Cardinality(Texts)) /\ SweptList(h, m, m.sweepgc) /\ m.sweepgc \in 1..Len(m.rootgc) + 1
  BY DEF Good, Cycle
<1>3. \A i \in DOMAIN m.rootgc : i < m.sweepgc
  BY <1>1, <1>2
<1>4. ASSUME NEW s \in Slots, Listed(h, s), s \notin Range(tmu)
      PROVE  Swept(m, s) /\ (h[s].tt = "thread" => \A x \in Range(h[s].openupval) : Swept(m, x))
  <2>1. s \in Range(m.rootgc)
    BY <1>1, <1>4 DEF Placed
  <2>2. PICK i \in DOMAIN m.rootgc : m.rootgc[i] = s
    BY <2>1 DEF Range
  <2> QED BY <2>2, <1>2, <1>3 DEF SweptList
<1>5. ASSUME NEW s \in Slots, s \notin Range(tmu), h[s].tt # "free" PROVE Swept(m, s)
  <2>1. CASE h[s].tt = "string"
    <3>1. h[s].text \in Texts /\ Texts = 1..Cardinality(Texts)
      BY <2>1, <1>1, Kinds, KindsAre, GcAssumption
    <3> QED BY <2>1, <3>1, <1>2 DEF SweptStrings
  <2>2. CASE h[s].tt = "upval" /\ h[s].open
    <3> DEFINE th == h[s].thread
    <3>1. th \in Slots /\ h[th].tt = "thread" /\ s \in Range(h[th].openupval)
      BY <2>2, <1>1, OpenUpvalThread DEF UpvalsOK
    <3>2. Listed(h, th) /\ th \notin Range(tmu)
      BY <3>1, <1>1 DEF Listed, Placed
    <3> HIDE DEF th
    <3> QED BY <3>1, <3>2, <1>4
  <2>3. CASE Listed(h, s)
    BY <2>3, <1>4, <1>5
  <2> QED BY <2>1, <2>2, <2>3, <1>5 DEF Listed
<1> QED BY <1>5 DEF AllSwept

(* The sweep is over at the end of the list.                               *)
SweepEnds(m) == [m EXCEPT !.gcstate = IF m.sweepgc > Len(m.rootgc) THEN "finalize" ELSE @,
                          !.sweepgc = IF m.sweepgc > Len(m.rootgc) THEN 0 ELSE @]

(* singlestep's GCSsweep.                                                  *)
LEMMA SweepStep ==
  ASSUME NEW h, NEW m, NEW tmu, NEW cs, Good(h, m, tmu, cs, "open"), m.gcstate = "sweep",
         NEW s, s = SweepList(h, m)
  PROVE  Good(s.heap, SweepEnds(s.g), tmu, cs, "open")
<1> DEFINE k == s.heap
           l == s.g
           over == l.sweepgc > Len(l.rootgc)
           n == [l EXCEPT !.gcstate = IF over THEN "finalize" ELSE @, !.sweepgc = IF over THEN 0 ELSE @]
<1>1. Good(k, l, tmu, cs, "open") /\ l.gcstate = "sweep" /\ l \in Collectors
  BY SweepListStep DEF SweepsOn
<1>2. SweepEnds(s.g) = n
  BY DEF SweepEnds
<1> HIDE DEF k, l
<1>3. CASE ~over
  <2>1. n = l
    BY <1>1, <1>3 DEF Collectors
  <2> QED BY <2>1, <1>1, <1>2 DEF k, l
<1>4. CASE over
  <2>1. AllSwept(k, l, tmu)
    BY <1>1, <1>2, <1>4, SweptAtLast
  <2>2. /\ n \in Collectors /\ n.marked = l.marked /\ n.currentwhite = l.currentwhite /\ n.rootgc = l.rootgc
        /\ n.gray = l.gray /\ n.grayagain = l.grayagain /\ n.weak = l.weak /\ n.gcstate = "finalize"
    BY <1>1, <1>4 DEF Collectors, GcStates
  <2> HIDE DEF n
  <2>3. InLists(n) = InLists(l) /\ InLists(l) = <<>>
    BY <2>2, <1>1 DEF InLists, Good, HeapInv, Lists
  <2>4. Restage(l, n)
    BY <2>2, <2>3 DEF Restage
  <2>5. Cycle(k, n, tmu)
    BY <2>1, <2>2 DEF Cycle, AllSwept, Swept
  <2>6. Good(k, n, tmu, cs, "open")
    BY <2>4, <2>5, <1>1, Restaged
  <2> QED BY <2>6, <1>2 DEF n, k, l
<1> QED BY <1>3, <1>4

-----------------------------------------------------------------------------
(* An object enters the list of objects, in the current white.             *)
Linked(m, n, s) ==
  /\ n \in Collectors /\ n.marked = [m.marked EXCEPT ![s] = m.currentwhite]
  /\ n.currentwhite = m.currentwhite /\ n.gcstate = m.gcstate /\ n.full = m.full
  /\ n.sweepstrgc = m.sweepstrgc /\ InLists(n) = InLists(m) /\ Entered(m, n, s)
Replaces(m, e, list, at) == e = [m EXCEPT !.rootgc = list, !.sweepgc = at]

(* What entering the list at any place, whitened, does.                    *)
LEMMA EntersWhite ==
  ASSUME NEW m \in Collectors, NEW s \in Slots, NEW i \in 1..Len(m.rootgc) + 1, NEW e,
         e.rootgc \in Seq(Slots) /\ IsInserted(m.rootgc, e.rootgc, i, s),
         e.sweepgc = (IF m.sweepgc <= i THEN m.sweepgc ELSE m.sweepgc + 1),
         e \in Collectors, e.marked = m.marked, e.currentwhite = m.currentwhite,
         e.gcstate = m.gcstate, e.full = m.full, e.sweepstrgc = m.sweepstrgc, InLists(e) = InLists(m)
  PROVE  Linked(m, MakeWhite(e, s), s)
<1> DEFINE n == MakeWhite(e, s)
<1>1. Painted(e, n, s, e.currentwhite)
  <2>1. e.currentwhite \in Marks
    BY DEF Collectors, Whites, Marks, Colours
  <2> QED BY <2>1, PaintIs DEF MakeWhite
<1> HIDE DEF n
<1>2. n \in Collectors
  BY <1>1 DEF Painted
<1>3. n.marked = [m.marked EXCEPT ![s] = m.currentwhite]
  <2>1. n.marked \in [Slots -> Marks] /\ m.marked \in [Slots -> Marks]
    BY <1>2 DEF Collectors
  <2> QED BY <2>1, <1>1 DEF Painted
<1>4. Entered(m, n, s)
  <2>1. n.rootgc = e.rootgc /\ n.sweepgc = e.sweepgc
    BY <1>1 DEF Painted
  <2> QED BY <2>1 DEF Entered
<1>5. n.currentwhite = m.currentwhite /\ n.gcstate = m.gcstate /\ n.full = m.full
      /\ n.sweepstrgc = m.sweepstrgc /\ InLists(n) = InLists(m)
  BY <1>1 DEF Painted
<1>6. Linked(m, n, s)
  BY <1>2, <1>3, <1>4, <1>5 DEF Linked
<1> QED BY <1>6 DEF n

(* A record of the collector with its list and its cursor replaced.        *)
LEMMA ListReplaced ==
  ASSUME NEW m \in Collectors, NEW list \in Seq(Slots), NEW at \in Nat,
         NEW e, Replaces(m, e, list, at)
  PROVE  /\ e \in Collectors /\ e.rootgc = list /\ e.sweepgc = at
         /\ e.marked = m.marked /\ e.currentwhite = m.currentwhite /\ e.gcstate = m.gcstate
         /\ e.full = m.full /\ e.sweepstrgc = m.sweepstrgc /\ InLists(e) = InLists(m)
         /\ e.gray = m.gray /\ e.grayagain = m.grayagain /\ e.weak = m.weak
BY DEF Collectors, InLists, SlotSeqs, Replaces

(* luaC_link: a new object is the head of rootgc.                          *)
LEMMA LinkIs ==
  ASSUME NEW m \in Collectors, NEW s \in Slots
  PROVE  Linked(m, Link(m, s), s)
<1>1. m.rootgc \in Seq(Slots) /\ m.sweepgc \in Nat
  BY DEF Collectors, SlotSeqs
<1> DEFINE list == <<s>> \o m.rootgc
           at == IF m.sweepgc <= 1 THEN m.sweepgc ELSE m.sweepgc + 1
           e == [m EXCEPT !.rootgc = list, !.sweepgc = at]
<1>2. list \in Seq(Slots) /\ IsInserted(m.rootgc, list, 1, s) /\ at \in Nat
  BY <1>1, Prepended
<1>3. Link(m, s) = MakeWhite(e, s)
  BY DEF Link
<1>4. 1 \in 1..Len(m.rootgc) + 1
  BY <1>1
<1>5. at = (IF m.sweepgc <= 1 THEN m.sweepgc ELSE m.sweepgc + 1)
  OBVIOUS
<1> HIDE DEF list, at
<1>6. Replaces(m, e, list, at)
  BY DEF Replaces
<1> HIDE DEF e
<1>7. /\ e \in Collectors /\ e.rootgc = list /\ e.sweepgc = at
      /\ e.marked = m.marked /\ e.currentwhite = m.currentwhite /\ e.gcstate = m.gcstate
      /\ e.full = m.full /\ e.sweepstrgc = m.sweepstrgc /\ InLists(e) = InLists(m)
  BY <1>2, <1>6, ListReplaced
<1>8. e.rootgc \in Seq(Slots) /\ IsInserted(m.rootgc, e.rootgc, 1, s)
      /\ e.sweepgc = (IF m.sweepgc <= 1 THEN m.sweepgc ELSE m.sweepgc + 1)
  BY <1>2, <1>7, <1>5
<1> QED BY <1>3, <1>4, <1>7, <1>8, EntersWhite

(* A userdata is linked after the main thread, which is in rootgc.         *)
LEMMA LinkUserdataIs ==
  ASSUME NEW m \in Collectors, NEW s \in Slots, Main \in Range(m.rootgc)
  PROVE  Linked(m, LinkUserdata(m, s), s)
<1>1. m.rootgc \in Seq(Slots) /\ m.sweepgc \in Nat
  BY DEF Collectors, SlotSeqs
<1>2. MainAt(m) \in 1..Len(m.rootgc)
  <2>1. \E i \in DOMAIN m.rootgc : m.rootgc[i] = Main
    BY <1>1, SeqParts
  <2>2. MainAt(m) \in DOMAIN m.rootgc
    BY <2>1, Zenon DEF MainAt
  <2> QED BY <1>1, <2>2, SeqParts
<1> DEFINE i == MainAt(m) + 1
           list == InsertAt(m.rootgc, i, s)
           at == IF m.sweepgc <= i THEN m.sweepgc ELSE m.sweepgc + 1
           e == [m EXCEPT !.rootgc = list, !.sweepgc = at]
<1>3. i \in 1..Len(m.rootgc) + 1
  <2>1. Len(m.rootgc) \in Nat
    BY <1>1
  <2> HIDE DEF list, at, e
  <2> QED BY <1>2, <2>1
<1>4. LinkUserdata(m, s) = MakeWhite(e, s)
  BY DEF LinkUserdata
<1> HIDE DEF i
<1>5. list \in Seq(Slots) /\ IsInserted(m.rootgc, list, i, s)
  BY <1>1, <1>3, Inserted
<1>6. at \in Nat
  BY <1>1
<1>7. at = (IF m.sweepgc <= i THEN m.sweepgc ELSE m.sweepgc + 1)
  OBVIOUS
<1> HIDE DEF list, at
<1>8. Replaces(m, e, list, at)
  BY DEF Replaces
<1> HIDE DEF e
<1>9. /\ e \in Collectors /\ e.rootgc = list /\ e.sweepgc = at
      /\ e.marked = m.marked /\ e.currentwhite = m.currentwhite /\ e.gcstate = m.gcstate
      /\ e.full = m.full /\ e.sweepstrgc = m.sweepstrgc /\ InLists(e) = InLists(m)
  BY <1>5, <1>6, <1>8, ListReplaced
<1>10. e.rootgc \in Seq(Slots) /\ IsInserted(m.rootgc, e.rootgc, i, s)
       /\ e.sweepgc = (IF m.sweepgc <= i THEN m.sweepgc ELSE m.sweepgc + 1)
  BY <1>5, <1>9, <1>7
<1> QED BY <1>4, <1>9, <1>10, <1>3, EntersWhite

(* GCTM: the userdata comes back to the list of objects; its finalizer may *)
(* have kept it in a register of the running thread.                       *)
LEMMA FinalizeStep ==
  ASSUME NEW h, NEW m, NEW tmu, NEW cs, NEW p, Good(h, m, tmu, cs, p), tmu # <<>>,
         p = "open" => m.gcstate = "finalize", NEW u, u = Head(tmu)
  PROVE  /\ Good(h, LinkUserdata(m, u), Tail(tmu), cs, p)
         /\ \A th \in Slots, r \in Registers : h[th].tt = "thread" =>
              Good([h EXCEPT ![th].stack[r] = u], LinkUserdata(m, u), Tail(tmu), cs, p)
<1>1. Typed(h, m) /\ Placed(h, m, tmu) /\ RootsLive(h, m, tmu, cs)
  BY DEF Good, HeapInv
<1>2. u \in Slots /\ u \in Range(tmu) /\ h[u].tt = "userdata" /\ Live(m, u)
  <2>1. tmu \in Seq(Slots)
    BY <1>1 DEF Placed, SlotSeqs
  <2>2. u \in Range(tmu) /\ u \in Slots
    BY <2>1, Cut
  <2> QED BY <2>2, <1>1 DEF Placed, RootsLive
<1>3. Main \in Range(m.rootgc)
  <2>1. Main \notin Range(tmu) /\ h[Main].tt = "thread"
    BY <1>1 DEF Placed
  <2>2. Main \in {s \in Slots : Listed(h, s)}
    BY <2>1, HeapAssumption DEF Listed
  <2> QED BY <1>1, <2>1, <2>2 DEF Placed
<1> DEFINE n == LinkUserdata(m, u)
<1>4. Linked(m, n, u)
  <2>1. m \in Collectors
    BY <1>1 DEF Typed
  <2> QED BY <2>1, <1>2, <1>3, LinkUserdataIs
<1> HIDE DEF n
<1>5. ASSUME NEW k, Good(k, m, tmu, cs, p) PROVE Good(k, n, Tail(tmu), cs, p)
  <2>1. /\ n \in Collectors /\ n.marked = [m.marked EXCEPT ![u] = m.currentwhite]
        /\ n.currentwhite = m.currentwhite /\ n.gcstate = m.gcstate
        /\ InLists(n) = InLists(m) /\ Entered(m, n, u)
    BY <1>4 DEF Linked
  <2> QED BY <1>5, <2>1, Relinked
<1>6. ASSUME NEW th \in Slots, NEW r \in Registers, h[th].tt = "thread"
      PROVE  Good([h EXCEPT ![th].stack[r] = u], m, tmu, cs, p)
  <2>1. u \in Values /\ Fine(h, m, u)
    BY <1>2 DEF Values, Fine, FirstClass
  <2> QED BY <1>6, <2>1, StackWritten
<1>7. Good(h, n, Tail(tmu), cs, p)
  BY <1>5
<1>8. \A th \in Slots, r \in Registers : h[th].tt = "thread" =>
              Good([h EXCEPT ![th].stack[r] = u], n, Tail(tmu), cs, p)
  BY <1>5, <1>6
<1> QED BY <1>7, <1>8 DEF n

(* The cycle is over, when no finalizer is left to call.                   *)
LEMMA FinalizeOver ==
  ASSUME NEW h, NEW m, NEW cs, Good(h, m, <<>>, cs, "open"), m.gcstate = "finalize"
  PROVE  Good(h, [m EXCEPT !.gcstate = "pause", !.full = "no"], <<>>, cs, "open")
<1> DEFINE n == [m EXCEPT !.gcstate = "pause", !.full = "no"]
<1>1. m \in Collectors /\ Lists(h, m) /\ AllSwept(h, m, <<>>)
  BY DEF Good, HeapInv, Typed, Cycle
<1>2. n \in Collectors /\ n.marked = m.marked /\ n.currentwhite = m.currentwhite /\ n.rootgc = m.rootgc
      /\ InLists(n) = InLists(m) /\ n.gcstate = "pause"
  BY <1>1 DEF Collectors, InLists, GcStates, Fulls
<1> HIDE DEF n
<1>3. Restage(m, n)
  <2>1. InLists(m) = <<>>
    BY <1>1 DEF Lists
  <2> QED BY <1>2, <2>1 DEF Restage
<1>4. Cycle(h, n, <<>>)
  BY <1>1, <1>2 DEF Cycle, AllSwept, Swept
<1>5. Good(h, n, <<>>, cs, "open")
  BY <1>3, <1>4, Restaged
<1> QED BY <1>5 DEF n

(* luaC_fullgc gives the cycle up, or only asks for the sweep to be        *)
(* finished.                                                               *)
LEMMA FullGcStep ==
  ASSUME NEW h, NEW m, NEW tmu, NEW cs, Good(h, m, tmu, cs, "open")
  PROVE  Good(h, IF m.gcstate \notin {"pause", "propagate"} THEN [m EXCEPT !.full = "sweep"]
                   ELSE [m EXCEPT !.full = "sweep", !.gcstate = "sweepstring", !.sweepstrgc = 0,
                                  !.sweepgc = 1, !.gray = <<>>, !.grayagain = <<>>, !.weak = <<>>],
              tmu, cs, "open")
<1>1. m \in Collectors /\ Lists(h, m) /\ Typed(h, m) /\ Cycle(h, m, tmu)
  BY DEF Good, HeapInv, Typed
<1>2. ASSUME m.gcstate \notin {"pause", "propagate"}
      PROVE  Good(h, [m EXCEPT !.full = "sweep"], tmu, cs, "open")
  <2> DEFINE n == [m EXCEPT !.full = "sweep"]
  <2>1. n \in Collectors /\ n.marked = m.marked /\ n.currentwhite = m.currentwhite /\ n.rootgc = m.rootgc
        /\ InLists(n) = InLists(m) /\ n.gcstate = m.gcstate /\ n.sweepgc = m.sweepgc
        /\ n.sweepstrgc = m.sweepstrgc
    BY <1>1 DEF Collectors, InLists, Fulls
  <2> HIDE DEF n
  <2>2. InLists(m) = <<>>
    BY <1>1, <1>2 DEF Lists
  <2>3. Restage(m, n)
    BY <2>1, <2>2 DEF Restage
  <2>4. Cycle(h, n, tmu)
    <3>1. OtherWhite(n) = OtherWhite(m)
      BY <2>1 DEF OtherWhite
    <3> QED BY <1>1, <1>2, <2>1, <3>1 DEF Cycle, AllSwept, Swept, SweptStrings, SweptList, DeadFinalized, IsDead
  <2>5. Good(h, n, tmu, cs, "open")
    BY <2>3, <2>4, Restaged
  <2> QED BY <2>5 DEF n
<1>3. ASSUME m.gcstate \in {"pause", "propagate"}
      PROVE  Good(h, [m EXCEPT !.full = "sweep", !.gcstate = "sweepstring", !.sweepstrgc = 0,
                               !.sweepgc = 1, !.gray = <<>>, !.grayagain = <<>>, !.weak = <<>>], tmu, cs, "open")
  <2> DEFINE n == [m EXCEPT !.full = "sweep", !.gcstate = "sweepstring", !.sweepstrgc = 0,
                            !.sweepgc = 1, !.gray = <<>>, !.grayagain = <<>>, !.weak = <<>>]
  <2>1. <<>> \in Seq(Slots)
    BY Empty
  <2>2. n \in Collectors /\ n.marked = m.marked /\ n.currentwhite = m.currentwhite /\ n.rootgc = m.rootgc
        /\ n.gcstate = "sweepstring" /\ n.sweepgc = 1 /\ n.sweepstrgc = 0
        /\ n.gray = <<>> /\ n.grayagain = <<>> /\ n.weak = <<>>
    BY <1>1, <2>1 DEF Collectors, Fulls, GcStates, SlotSeqs
  <2> HIDE DEF n
  <2>3. InLists(n) = <<>>
    BY <2>2, <2>1 DEF InLists
  <2>4. Restage(m, n)
    BY <2>2, <2>3 DEF Restage
  <2>5. \A s \in Slots : h[s].tt = "userdata" /\ IsDead(m, s) => h[s].finalized
    <3> SUFFICES ASSUME NEW s \in Slots, h[s].tt = "userdata", IsDead(m, s) PROVE h[s].finalized
      OBVIOUS
    <3>1. CASE m.gcstate = "propagate"
      BY <1>1, <3>1 DEF Cycle, Marking
    <3>2. CASE m.gcstate = "pause"
      <4>1. tmu = <<>> /\ AllSwept(h, m, tmu)
        BY <1>1, <3>2 DEF Cycle
      <4>2. Swept(m, s)
        BY <4>1, Empty DEF AllSwept
      <4> QED BY <4>2, <1>1, MarksAre DEF Swept, IsDead
    <3> QED BY <3>1, <3>2, <1>3
  <2>6. Cycle(h, n, tmu)
    <3>1. OtherWhite(n) = OtherWhite(m)
      BY <2>2 DEF OtherWhite
    <3>2. SweptStrings(h, n, 0)
      BY DEF SweptStrings
    <3> QED BY <2>2, <2>5, <3>1, <3>2 DEF Cycle, DeadFinalized, IsDead
  <2>7. Good(h, n, tmu, cs, "open")
    BY <2>4, <2>6, Restaged
  <2> QED BY <2>7 DEF n
<1> QED BY <1>2, <1>3

-----------------------------------------------------------------------------
(* A heap whose tables hold less and whose userdata are flagged: what the  *)
(* end of the mark phase makes of the heap.                                *)
Lessened(h, k) ==
  /\ k \in [Slots -> Objects]
  /\ \A s \in Slots :
       /\ k[s].tt = h[s].tt
       /\ h[s].tt \notin {"table", "userdata"} => k[s] = h[s]
       /\ h[s].tt \in {"table", "userdata"} => k[s].meta = h[s].meta
       /\ h[s].tt = "table" =>
            /\ k[s].flags = h[s].flags
            /\ DOMAIN k[s].entries \subseteq DOMAIN h[s].entries
            /\ \A x \in DOMAIN k[s].entries : k[s].entries[x] = h[s].entries[x]
       /\ (h[s].tt = "userdata" /\ h[s].finalized) => k[s].finalized

(* The same slots are free.                                                *)
LEMMA LessFree ==
  ASSUME NEW h \in [Slots -> Objects], NEW k, Lessened(h, k)
  PROVE  \A s \in Slots : k[s] = Free <=> h[s] = Free
<1>1. \A s \in Slots : h[s] \in Objects /\ k[s] \in Objects /\ k[s].tt = h[s].tt
  BY DEF Lessened
<1> QED BY <1>1, Kinds

(* The upvalues have the same values.                                      *)
LEMMA LessUpvals ==
  ASSUME NEW h \in [Slots -> Objects], NEW k, Lessened(h, k),
         \A s \in Slots : IsOpen(h, s) => h[h[s].thread].tt = "thread"
  PROVE  \A s \in Slots : h[s].tt = "upval" => UpvalValue(k, s) = UpvalValue(h, s)
<1> SUFFICES ASSUME NEW s \in Slots, h[s].tt = "upval" PROVE UpvalValue(k, s) = UpvalValue(h, s)
  OBVIOUS
<1>1. k[s] = h[s] /\ h[s].thread \in Slots
  BY Kinds, KindsAre DEF Lessened
<1>2. h[s].open => k[h[s].thread] = h[h[s].thread]
  BY <1>1 DEF Lessened, IsOpen
<1> QED BY <1>1, <1>2 DEF UpvalValue

(* An object holds no more than before.                                    *)
LEMMA LessHeld ==
  ASSUME NEW h \in [Slots -> Objects], NEW k, Lessened(h, k),
         \A s \in Slots : IsOpen(h, s) => h[h[s].thread].tt = "thread"
  PROVE  \A s \in Slots : Held(k, s) \subseteq Held(h, s)
<1> SUFFICES ASSUME NEW s \in Slots PROVE Held(k, s) \subseteq Held(h, s)
  OBVIOUS
<1>1. k[s].tt = h[s].tt
  BY DEF Lessened
<1>2. CASE h[s].tt = "table"
  <2>1. k[s].meta = h[s].meta /\ DOMAIN k[s].entries \subseteq DOMAIN h[s].entries
        /\ Range(k[s].entries) \subseteq Range(h[s].entries)
    BY <1>2 DEF Lessened, Range
  <2> QED BY <1>1, <1>2, <2>1 DEF Held
<1>3. CASE h[s].tt = "userdata"
  <2>1. k[s].meta = h[s].meta
    BY <1>3 DEF Lessened
  <2> QED BY <1>1, <1>3, <2>1 DEF Held
<1>4. CASE h[s].tt = "upval"
  BY <1>1, <1>4, LessUpvals DEF Held
<1>5. CASE h[s].tt \notin {"table", "userdata", "upval"}
  <2>1. k[s] = h[s]
    BY <1>5 DEF Lessened
  <2> QED BY <1>5, <2>1 DEF Held
<1> QED BY <1>2, <1>3, <1>4, <1>5

(* A sound object stays sound.                                             *)
LEMMA LessSound ==
  ASSUME NEW h \in [Slots -> Objects], NEW k, Lessened(h, k),
         \A s \in Slots : IsOpen(h, s) => h[h[s].thread].tt = "thread",
         NEW m, NEW s \in Slots, Sound(h, m, s)
  PROVE  Sound(k, m, s)
<1>1. \A v : Fine(h, m, v) => Fine(k, m, v)
  BY DEF Fine, Lessened
<1>2. \A v : FineMeta(h, m, v) => FineMeta(k, m, v)
  BY DEF FineMeta, Lessened
<1>3. \A v \in Slots : FineUpval(h, m, v) => FineUpval(k, m, v)
  BY DEF FineUpval, Lessened
<1>4. k[s].tt = h[s].tt
  BY DEF Lessened
<1>5. h[s].tt \in {"table", "userdata"} => FineMeta(k, m, k[s].meta)
  BY <1>2 DEF Sound, Lessened
<1>6. h[s].tt = "table" => \A x \in DOMAIN k[s].entries : Fine(k, m, x) /\ Fine(k, m, k[s].entries[x])
  BY <1>1 DEF Sound, Lessened
<1>7. h[s].tt = "function" => /\ k[s].upvals # <<>>
                              /\ \A u \in Range(k[s].upvals) : FineUpval(k, m, u)
  <2> SUFFICES ASSUME h[s].tt = "function" 
               PROVE  k[s].upvals # <<>> /\ \A u \in Range(k[s].upvals) : FineUpval(k, m, u)
    OBVIOUS
  <2>1. k[s] = h[s]
    BY DEF Lessened
  <2>2. Range(h[s].upvals) \subseteq Slots
    BY Kinds, KindsAre, SeqParts
  <2> QED BY <2>1, <2>2, <1>3 DEF Sound
<1>8. h[s].tt = "upval" => Fine(k, m, UpvalValue(k, s))
  BY <1>1, LessUpvals DEF Sound
<1>9. h[s].tt = "thread" => /\ \A r \in Registers : Fine(k, m, k[s].stack[r])
                            /\ Fine(k, m, k[s].resumed)
  BY <1>1 DEF Sound, Lessened
<1> QED BY <1>4, <1>5, <1>6, <1>7, <1>8, <1>9 DEF Sound

(* The lists of open upvalues are right.                                   *)
LEMMA LessUpvalsOK ==
  ASSUME NEW h \in [Slots -> Objects], NEW k, Lessened(h, k), UpvalsOK(h)
  PROVE  UpvalsOK(k)
<1>1. \A s \in Slots : h[s].tt = "thread" => k[s] = h[s] /\ Range(h[s].openupval) \subseteq Slots
  BY Kinds, KindsAre, SeqParts DEF Lessened
<1>2. \A s \in Slots : h[s].tt = "upval" => k[s] = h[s] /\ h[s].thread \in Slots
  BY Kinds, KindsAre DEF Lessened
<1>3. \A s \in Slots : k[s].tt = h[s].tt
  BY DEF Lessened
<1> QED BY <1>1, <1>2, <1>3 DEF UpvalsOK, OpenIn

(* The lists of the mark phase are right.                                  *)
LEMMA LessLists ==
  ASSUME NEW h \in [Slots -> Objects], NEW k, Lessened(h, k), NEW m, Typed(h, m), Lists(h, m)
  PROVE  Lists(k, m)
<1>1. \A s \in Slots : k[s].tt = h[s].tt /\ (h[s].tt = "upval" => k[s].open = h[s].open)
  BY DEF Lessened
<1>2. Range(InLists(m)) \subseteq Slots
  BY ListsAreOfSlots
<1>3. \A s \in Slots : /\ Blackens(h, s) => Blackens(k, s)
                       /\ Grayens(h, s) => Grayens(k, s)
                       /\ Traversed(h, s) => Traversed(k, s)
  BY <1>1 DEF Blackens, Grayens, Traversed
<1> QED BY <1>2, <1>3 DEF Lists

-----------------------------------------------------------------------------
(* luaC_separateudata.                                                     *)
Separates(h, m, tmu, all, sep) ==
  /\ Lessened(h, sep.heap) /\ sep.g \in Collectors
  /\ sep.g.marked = m.marked /\ sep.g.currentwhite = m.currentwhite /\ sep.g.gcstate = m.gcstate
  /\ sep.g.full = m.full /\ sep.g.gray = m.gray /\ sep.g.grayagain = m.grayagain /\ sep.g.weak = m.weak
  /\ Placed(sep.heap, sep.g, tmu \o sep.separated)
  /\ Range(tmu \o sep.separated) = Range(tmu) \cup Range(sep.separated)
  /\ sep.separated \in Seq(Slots)
  /\ \A u \in Range(sep.separated) : u \in Slots /\ h[u].tt = "userdata" /\ ~h[u].finalized
  /\ \A u \in Slots : (h[u].tt = "userdata" /\ (all \/ IsWhite(m, u))) => sep.heap[u].finalized

(* luaC_separateudata flags the white userdata, or all of them, and takes  *)
(* those with a finalizer out of rootgc.                                   *)
LEMMA SeparateStep ==
  ASSUME NEW h, NEW m, NEW tmu, Typed(h, m), Placed(h, m, tmu), NEW all \in BOOLEAN
  PROVE  Separates(h, m, tmu, all, Separate(h, m, all))
<1> DEFINE con == Considered(h, m, all)
           fin == {u \in con : HasGc(h, u)}
           k == [s \in Slots |-> IF s \in con THEN [h[s] EXCEPT !.finalized = TRUE] ELSE h[s]]
           n == [m EXCEPT !.rootgc = Those(@, Slots \ fin)]
           separated == Those(m.rootgc, fin)
           sep == Separate(h, m, all)
<1>1. sep.heap = k /\ sep.g = n /\ sep.separated = separated
  BY DEF Separate
<1>2. h \in [Slots -> Objects] /\ m \in Collectors /\ m.rootgc \in Seq(Slots) /\ Range(m.rootgc) \subseteq Slots
  BY ListsAreOfSlots DEF Typed
<1>3. \A u \in con : u \in Slots /\ u \in Range(m.rootgc) /\ h[u] \in UserdataObjects /\ h[u].tt = "userdata"
                     /\ ~h[u].finalized
  <2>1. \A u \in con : u \in Slots /\ u \in Range(m.rootgc) /\ h[u].tt = "userdata" /\ ~h[u].finalized
    BY <1>2 DEF Considered, IsA
  <2> HIDE DEF con
  <2> QED BY <2>1, <1>2, Kinds
<1>4. \A u \in Range(m.rootgc) : (h[u].tt = "userdata" /\ ~h[u].finalized /\ (all \/ IsWhite(m, u))) => u \in con
  BY <1>2 DEF Considered, IsA
<1>5. \A s \in Slots : s \in con => k[s] \in UserdataObjects /\ k[s].meta = h[s].meta /\ k[s].finalized
  <2> SUFFICES ASSUME NEW s \in Slots, s \in con
               PROVE  k[s] \in UserdataObjects /\ k[s].meta = h[s].meta /\ k[s].finalized
    OBVIOUS
  <2>1. k[s] = [h[s] EXCEPT !.finalized = TRUE] /\ h[s] \in UserdataObjects
    BY <1>3
  <2> HIDE DEF k
  <2> QED BY <2>1 DEF UserdataObjects
<1>6. \A s \in Slots : s \notin con => k[s] = h[s]
  OBVIOUS
<1>7. k = [s \in Slots |-> k[s]]
  OBVIOUS
<1>8. n \in Collectors /\ n.marked = m.marked /\ n.currentwhite = m.currentwhite /\ n.gcstate = m.gcstate
      /\ n.full = m.full /\ n.gray = m.gray /\ n.grayagain = m.grayagain /\ n.weak = m.weak
      /\ n.rootgc = Those(m.rootgc, Slots \ fin)
  <2>1. Those(m.rootgc, Slots \ fin) \in Seq(Slots)
    BY <1>2, Filtered
  <2> QED BY <1>2, <2>1 DEF Collectors, SlotSeqs
<1> HIDE DEF k, n, con
<1>9. k \in [Slots -> Objects]
  BY <1>2, <1>5, <1>6, <1>7, KindsAre
<1>10. Lessened(h, k)
  <2> SUFFICES ASSUME NEW s \in Slots
               PROVE  /\ k[s].tt = h[s].tt
                      /\ h[s].tt \notin {"table", "userdata"} => k[s] = h[s]
                      /\ h[s].tt \in {"table", "userdata"} => k[s].meta = h[s].meta
                      /\ h[s].tt = "table" =>
                           /\ k[s].flags = h[s].flags
                           /\ DOMAIN k[s].entries \subseteq DOMAIN h[s].entries
                           /\ \A x \in DOMAIN k[s].entries : k[s].entries[x] = h[s].entries[x]
                      /\ (h[s].tt = "userdata" /\ h[s].finalized) => k[s].finalized
    BY <1>9 DEF Lessened
  <2>1. CASE s \in con
    <3>1. k[s].tt = "userdata" /\ h[s].tt = "userdata"
      BY <2>1, <1>3, <1>5, KindsAre
    <3> QED BY <2>1, <3>1, <1>3, <1>5
  <2>2. CASE s \notin con
    BY <2>2, <1>6
  <2> QED BY <2>1, <2>2
<1>11. separated \in Seq(Slots) /\ Range(separated) = fin /\ IsInjective(separated)
       /\ Range(n.rootgc) = Range(m.rootgc) \ fin /\ IsInjective(n.rootgc)
  <2>1. IsInjective(m.rootgc)
    BY DEF Placed
  <2>2. fin \subseteq Range(m.rootgc)
    BY <1>3
  <2> HIDE DEF fin
  <2>3. separated \in Seq(Slots) /\ Range(separated) = Range(m.rootgc) \cap fin /\ IsInjective(separated)
    BY <1>2, <2>1, Filtered
  <2>4. Range(n.rootgc) = Range(m.rootgc) \cap (Slots \ fin) /\ IsInjective(n.rootgc)
    BY <1>2, <1>8, <2>1, Filtered
  <2> QED BY <1>2, <2>2, <2>3, <2>4
<1>12. \A u \in fin : u \in con /\ u \in Slots /\ u \in Range(m.rootgc)
  BY <1>3
<1> HIDE DEF fin, separated
<1>13. /\ tmu \o separated \in Seq(Slots) /\ Range(tmu \o separated) = Range(tmu) \cup fin
       /\ IsInjective(tmu \o separated)
  <2>1. tmu \in Seq(Slots) /\ IsInjective(tmu) /\ Range(tmu) \cap fin = {}
    BY <1>12 DEF Placed, SlotSeqs
  <2> QED BY <2>1, <1>11, Joined
<1>14. Placed(k, n, tmu \o separated)
  <2>1. \A s \in Slots : k[s].tt = h[s].tt /\ (Listed(k, s) <=> Listed(h, s))
    BY <1>10 DEF Lessened, Listed
  <2>2. Range(n.rootgc) \cap (Range(tmu) \cup fin) = {}
    BY <1>11 DEF Placed
  <2>3. Range(n.rootgc) \cup (Range(tmu) \cup fin) = {s \in Slots : Listed(k, s)}
    <3>1. {s \in Slots : Listed(k, s)} = {s \in Slots : Listed(h, s)}
      BY <2>1
    <3> QED BY <1>11, <1>12, <3>1 DEF Placed
  <2>4. \A u \in Range(tmu) \cup fin : k[u].tt = "userdata" /\ k[u].finalized
    <3>1. \A u \in Range(tmu) : u \in Slots /\ h[u].tt = "userdata" /\ h[u].finalized
      BY DEF Placed
    <3>2. \A u \in Range(tmu) : k[u].tt = "userdata" /\ k[u].finalized
      BY <3>1, <1>10 DEF Lessened
    <3>3. \A u \in fin : k[u].tt = "userdata" /\ k[u].finalized
      BY <1>5, <1>12, KindsAre
    <3> QED BY <3>2, <3>3
  <2>5. k[Main].tt = "thread" /\ k[Globals].tt = "table"
    BY <2>1, HeapAssumption DEF Placed
  <2> QED BY <1>11, <1>13, <2>2, <2>3, <2>4, <2>5 DEF Placed, SlotSeqs
<1>15. \A u \in Slots : (h[u].tt = "userdata" /\ (all \/ IsWhite(m, u))) => k[u].finalized
  <2> SUFFICES ASSUME NEW u \in Slots, h[u].tt = "userdata", all \/ IsWhite(m, u) PROVE k[u].finalized
    OBVIOUS
  <2>1. Range(m.rootgc) \cup Range(tmu) = {s \in Slots : Listed(h, s)}
        /\ \A o \in Range(tmu) : h[o].finalized
    BY DEF Placed
  <2>2. Listed(h, u)
    BY DEF Listed
  <2>3. CASE u \in Range(tmu)
    BY <2>1, <2>3, <1>10 DEF Lessened
  <2>4. CASE u \in Range(m.rootgc) /\ ~h[u].finalized
    BY <2>4, <1>4, <1>5
  <2>5. CASE u \in Range(m.rootgc) /\ h[u].finalized
    BY <2>5, <1>10 DEF Lessened
  <2> QED BY <2>1, <2>2, <2>3, <2>4, <2>5
<1>16. \A u \in fin : u \in Slots /\ h[u].tt = "userdata" /\ ~h[u].finalized
  BY <1>3, <1>12
<1> HIDE DEF sep
<1>17. Separates(h, m, tmu, all, sep)
  BY <1>1, <1>8, <1>10, <1>11, <1>13, <1>14, <1>15, <1>16 DEF Separates
<1> QED BY <1>17 DEF sep

-----------------------------------------------------------------------------
(* A userdata that was not separated yet is not dead.                      *)
LEMMA UnfinalizedLive ==
  ASSUME NEW h, NEW m, NEW tmu, NEW cs, Good(h, m, tmu, cs, "open"), NEW u \in Slots,
         h[u].tt = "userdata", ~h[u].finalized
  PROVE  Live(m, u)
<1>1. Typed(h, m) /\ Placed(h, m, tmu) /\ Cycle(h, m, tmu) /\ m.gcstate \in GcStates
  BY DEF Good, HeapInv, Typed, Collectors
<1>2. ~IsDead(m, u) => Live(m, u)
  <2>1. h[u] # Free
    BY <1>1, KindsAre
  <2>2. m.marked[u] # "none"
    BY <1>1, <2>1 DEF Typed
  <2> QED BY <2>2 DEF IsDead, Live
<1>3. CASE m.gcstate = "propagate"
  BY <1>1, <1>2, <1>3 DEF Cycle, Marking
<1>4. CASE m.gcstate \in {"sweepstring", "sweep"}
  BY <1>1, <1>2, <1>4 DEF Cycle, DeadFinalized
<1>5. CASE m.gcstate \in {"pause", "finalize"}
  <2>1. AllSwept(h, m, tmu)
    BY <1>1, <1>5 DEF Cycle
  <2>2. u \notin Range(tmu)
    BY <1>1 DEF Placed
  <2>3. Swept(m, u)
    BY <2>1, <2>2 DEF AllSwept
  <2> QED BY <2>3, <1>1, MarksAre DEF Swept
<1> QED BY <1>1, <1>3, <1>4, <1>5 DEF GcStates

(* lua_close empties the stack of the main thread.                         *)
Empties(h, k) == k = [h EXCEPT ![Main].stack = [r \in Registers |-> Nil], ![Main].resumed = Nil]

(* The invariant holds with nothing on that stack, outside the cycle.      *)
LEMMA StackEmptied ==
  ASSUME NEW h, NEW m, NEW tmu, NEW cs, NEW p, Good(h, m, tmu, cs, p), p # "open",
         NEW k, Empties(h, k)
  PROVE  Good(k, m, tmu, <<Main>>, p) /\ \A s \in Slots : s # Main => k[s] = h[s]
<1>1. Typed(h, m) /\ Closed(h, m) /\ Placed(h, m, tmu) /\ RootsLive(h, m, tmu, cs)
  BY DEF Good, HeapInv
<1>2. Main \in Slots /\ Nil \notin Slots /\ Nil \in Values /\ Nil \in Pointers /\ h[Main] \in ThreadObjects
  BY <1>1, HeapAssumption, ListsAreOfSlots, Kinds DEF Placed, Values, Pointers
<1> DEFINE x == [[h[Main] EXCEPT !.stack = [r \in Registers |-> Nil]] EXCEPT !.resumed = Nil]
<1>3. x \in ThreadObjects /\ x.openupval = h[Main].openupval /\ x.stack = [r \in Registers |-> Nil]
      /\ x.resumed = Nil /\ x.tt = "thread" /\ h[Main].tt = "thread"
  BY <1>2 DEF ThreadObjects
<1>4. h \in [Slots -> Objects]
  BY <1>1 DEF Typed
<1>5. k = [h EXCEPT ![Main] = x]
  BY <1>2, <1>4 DEF Empties
<1> HIDE DEF x
<1>6. k[Main] = x /\ \A s \in Slots : s # Main => k[s] = h[s]
  BY <1>2, <1>4, <1>5
<1>7. k \in [Slots -> Objects]
  BY <1>3, <1>4, <1>5, KindsAre
<1>8. Shape(h, k)
  BY <1>3, <1>6 DEF Shape
<1>9. \A s \in Slots : h[s].tt = "upval" => UpvalValue(k, s) = UpvalValue(h, s) \/ UpvalValue(k, s) = Nil
  <2> SUFFICES ASSUME NEW s \in Slots, h[s].tt = "upval"
               PROVE  UpvalValue(k, s) = UpvalValue(h, s) \/ UpvalValue(k, s) = Nil
    OBVIOUS
  <2>1. k[s] = h[s] /\ h[s].thread \in Slots /\ h[s].level \in Registers
    BY <1>3, <1>4, <1>6, Kinds, KindsAre
  <2>2. ASSUME h[s].open, h[s].thread = Main PROVE UpvalValue(k, s) = Nil
    <3>1. UpvalValue(k, s) = k[Main].stack[h[s].level]
      BY <2>1, <2>2 DEF UpvalValue
    <3> QED BY <3>1, <2>1, <1>3, <1>6
  <2>3. ASSUME h[s].open, h[s].thread # Main PROVE UpvalValue(k, s) = UpvalValue(h, s)
    <3>1. k[h[s].thread] = h[h[s].thread]
      BY <2>1, <2>3, <1>6
    <3> QED BY <2>1, <3>1 DEF UpvalValue
  <2>4. ASSUME ~h[s].open PROVE UpvalValue(k, s) = UpvalValue(h, s)
    BY <2>1, <2>4 DEF UpvalValue
  <2> QED BY <2>2, <2>3, <2>4
<1>10. Closed(k, m)
  <2> SUFFICES ASSUME NEW s \in Slots, Live(m, s) PROVE Sound(k, m, s)
    BY DEF Closed
  <2>1. Sound(h, m, s)
    BY <1>1 DEF Closed
  <2>2. CASE s = Main
    BY <2>2, <1>2, <1>3, <1>6 DEF Sound, Fine
  <2>3. CASE s # Main
    <3>1. k[s] = h[s] /\ h[s] \in Objects
      BY <2>3, <1>4, <1>6
    <3>2. h[s].tt = "upval" => Fine(h, m, UpvalValue(k, s))
      BY <1>2, <1>9, <2>1 DEF Sound, Fine
    <3> QED BY <1>8, <2>1, <3>1, <3>2, StillSound
  <2> QED BY <2>2, <2>3
<1>11. RootsLive(k, m, tmu, <<Main>>)
  <2>1. <<Main>> \in Seq(Slots) /\ <<Main>>[1] = Main /\ IsInjective(<<Main>>) /\ DOMAIN <<Main>> = {1}
        /\ Len(<<Main>>) = 1 /\ <<Main>> # <<>>
    BY <1>2, Single
  <2>2. k[Main].tt = "thread"
    BY <1>3, <1>6
  <2>3. 1..Len(<<Main>>) - 1 = {}
    BY <2>1
  <2> QED BY <1>1, <2>1, <2>2, <2>3 DEF RootsLive, SlotSeqs
<1>12. Good(k, m, tmu, <<Main>>, p)
  BY <1>7, <1>8, <1>10, <1>11, Reshaped
<1> QED BY <1>6, <1>12

(* lua_close closes the upvalues, empties the stack and separates all      *)
(* userdata.                                                               *)
LEMMA CloseStateStep ==
  ASSUME NEW h, NEW m, NEW tmu, NEW cs, Good(h, m, tmu, cs, "open"),
         NEW d, d = CloseUpvals([heap |-> h, g |-> m], Main, 0),
         NEW e, Empties(d.heap, e),
         NEW sep, sep = Separate(e, d.g, TRUE)
  PROVE  Good(sep.heap, sep.g, tmu \o sep.separated, <<Main>>, "closing")
<1>1. Main \in Slots /\ h[Main].tt = "thread"
  BY HeapAssumption DEF Good, HeapInv, Placed
<1>2. ClosedAll(h, m, d, Main, 0, tmu, cs)
  BY <1>1, CloseUpvalsStep
<1>3. Good(d.heap, d.g, tmu, cs, "open")
  BY <1>2 DEF ClosedAll
<1>4. Good(d.heap, d.g, tmu, cs, "closing")
  BY <1>3 DEF Good
<1>5. Good(e, d.g, tmu, <<Main>>, "closing") /\ \A s \in Slots : s # Main => e[s] = d.heap[s]
  BY <1>4, StackEmptied
<1> DEFINE n == d.g
           k == sep.heap
           t2 == tmu \o sep.separated
<1>6. Typed(e, n) /\ Closed(e, n) /\ UpvalsOK(e) /\ Placed(e, n, tmu) /\ RootsLive(e, n, tmu, <<Main>>) /\ Lists(e, n)
  BY <1>5 DEF Good, HeapInv
<1>7. Separates(e, n, tmu, TRUE, sep)
  BY <1>6, SeparateStep
<1>8. e \in [Slots -> Objects] /\ Lessened(e, k)
  BY <1>6, <1>7 DEF Typed, Separates
<1>9. \A s \in Slots : IsOpen(e, s) => e[e[s].thread].tt = "thread"
  BY <1>6 DEF UpvalsOK, IsOpen
<1>10. /\ sep.g \in Collectors
       /\ sep.g.marked = n.marked /\ sep.g.currentwhite = n.currentwhite /\ sep.g.gcstate = n.gcstate
       /\ InLists(sep.g) = InLists(n)
  BY <1>7 DEF Separates, InLists
<1>11. \A s \in Slots : Live(sep.g, s) <=> Live(n, s)
  BY <1>10 DEF Live, OtherWhite
<1>12. Typed(k, sep.g)
  <2>1. \A s \in Slots : k[s] = Free <=> e[s] = Free
    BY <1>8, LessFree
  <2>2. \A s \in Slots : n.marked[s] = "none" <=> e[s] = Free
    BY <1>6 DEF Typed
  <2>3. k \in [Slots -> Objects]
    BY <1>8 DEF Lessened
  <2>4. \A s \in Slots : sep.g.marked[s] = "none" <=> k[s] = Free
    BY <2>1, <2>2, <1>10
  <2> QED BY <1>10, <2>3, <2>4 DEF Typed
<1>13. Closed(k, sep.g)
  <2> SUFFICES ASSUME NEW s \in Slots, Live(sep.g, s) PROVE Sound(k, sep.g, s)
    BY DEF Closed
  <2>1. Sound(e, n, s)
    BY <1>6, <1>11 DEF Closed
  <2>2. Sound(k, n, s)
    BY <1>8, <1>9, <2>1, LessSound
  <2>3. k[s] \in Objects
    BY <1>8 DEF Lessened
  <2> QED BY <1>11, <2>2, <2>3, LiveSound
<1>14. UpvalsOK(k)
  BY <1>6, <1>8, LessUpvalsOK
<1>15. Placed(k, sep.g, t2)
  BY <1>7 DEF Separates
<1>16. RootsLive(k, sep.g, t2, <<Main>>)
  <2>1. \A u \in Range(sep.separated) : Live(n, u)
    <3> SUFFICES ASSUME NEW u \in Range(sep.separated) PROVE Live(n, u)
      OBVIOUS
    <3>1. u \in Slots /\ e[u].tt = "userdata" /\ ~e[u].finalized
      BY <1>7 DEF Separates
    <3>2. e[u] = d.heap[u]
      BY <1>5, <1>6, <3>1 DEF Placed
    <3> QED BY <1>3, <3>1, <3>2, UnfinalizedLive
  <2>2. Range(t2) = Range(tmu) \cup Range(sep.separated) /\ Range(tmu) \subseteq Slots /\ Range(sep.separated) \subseteq Slots
    BY <1>6, <1>7 DEF Separates, Placed
  <2>3. \A u \in Range(t2) : Live(sep.g, u)
    BY <1>6, <1>11, <2>1, <2>2 DEF RootsLive
  <2>4. Live(sep.g, Main) /\ Live(sep.g, Globals)
    BY <1>6, <1>11, HeapAssumption DEF RootsLive
  <2>5. k[Main].tt = "thread"
    BY <1>15 DEF Placed
  <2>6. <<Main>> \in Seq(Slots) /\ <<Main>>[1] = Main /\ IsInjective(<<Main>>) /\ DOMAIN <<Main>> = {1}
        /\ Len(<<Main>>) = 1 /\ <<Main>> # <<>>
    BY <1>1, Single
  <2>7. 1..Len(<<Main>>) - 1 = {}
    BY <2>6
  <2> QED BY <2>3, <2>4, <2>5, <2>6, <2>7 DEF RootsLive, SlotSeqs
<1>17. Lists(k, sep.g)
  <2>1. Lists(k, n)
    BY <1>6, <1>8, LessLists
  <2> QED BY <2>1, <1>10 DEF Lists
<1> QED BY <1>12, <1>13, <1>14, <1>15, <1>16, <1>17 DEF Good, HeapInv

(* lua_close frees everything but the main thread.                         *)
LEMMA AllFreed ==
  ASSUME NEW h, NEW m, Typed(h, m), h[Main].tt = "thread",
         NEW k, k = [s \in Slots |-> IF s = Main THEN h[s] ELSE Free]
  PROVE  /\ Typed(k, [PaintAll(m, Slots \ {Main}, "none") EXCEPT
                        !.rootgc = <<Main>>, !.gcstate = "pause", !.full = "no"])
         /\ [PaintAll(m, Slots \ {Main}, "none") EXCEPT
                        !.rootgc = <<Main>>, !.gcstate = "pause", !.full = "no"].gcstate = "pause"
<1> DEFINE marked == [s \in Slots |-> IF s \in Slots \ {Main} THEN "none" ELSE m.marked[s]]
           n == [PaintAll(m, Slots \ {Main}, "none") EXCEPT
                        !.rootgc = <<Main>>, !.gcstate = "pause", !.full = "no"]
<1>1. m \in Collectors /\ h \in [Slots -> Objects] /\ Main \in Slots
  BY HeapAssumption DEF Typed
<1>2. marked \in [Slots -> Marks] /\ <<Main>> \in Seq(Slots)
  BY <1>1 DEF Collectors, Marks
<1>3. n = [m EXCEPT !.marked = marked, !.rootgc = <<Main>>, !.gcstate = "pause", !.full = "no"]
  BY <1>1 DEF PaintAll, Collectors
<1>4. \A s \in Slots : marked[s] = IF s = Main THEN m.marked[s] ELSE "none"
  OBVIOUS
<1> HIDE DEF marked, n
<1>5. n \in Collectors /\ n.marked = marked /\ n.gcstate = "pause"
  BY <1>1, <1>2, <1>3 DEF Collectors, SlotSeqs, GcStates, Fulls
<1>6. k \in [Slots -> Objects]
  BY <1>1, KindsAre
<1>7. \A s \in Slots : n.marked[s] = "none" <=> k[s] = Free
  BY <1>4, <1>5 DEF Typed
<1>8. Typed(k, n)
  BY <1>5, <1>6, <1>7 DEF Typed
<1> QED BY <1>5, <1>8 DEF n

-----------------------------------------------------------------------------
(* What marking established is kept by a lessened heap.                    *)
LEMMA LessMode ==
  ASSUME NEW h \in [Slots -> Objects], NEW k, Lessened(h, k), WellFormed(h)
  PROVE  \A s \in Slots : h[s].tt = "table" => Mode(k, s) = Mode(h, s)
<1> SUFFICES ASSUME NEW s \in Slots, h[s].tt = "table" PROVE Mode(k, s) = Mode(h, s)
  OBVIOUS
<1>1. k[s].meta = h[s].meta /\ h[s].meta \in Slots \cup {Nil}
  BY Kinds, KindsAre DEF Lessened, Pointers
<1>2. h[s].meta \in Slots => h[h[s].meta].tt = "table"
  BY DEF WellFormed
<1>3. h[s].meta \in Slots => k[h[s].meta].flags = h[h[s].meta].flags
  BY <1>2 DEF Lessened
<1> QED BY <1>1, <1>3 DEF Mode

(* What the objects point to is of the right kind.                         *)
LEMMA LessWellFormed ==
  ASSUME NEW h, NEW k, Lessened(h, k), WellFormed(h),
         \A s \in Slots : IsOpen(h, s) => h[h[s].thread].tt = "thread"
  PROVE  WellFormed(k)
<1>1. h \in [Slots -> Objects] /\ k \in [Slots -> Objects]
  BY DEF WellFormed, Lessened
<1>2. \A s \in Slots : k[s].tt = h[s].tt
  BY DEF Lessened
<1>3. \A s \in Slots : h[s].tt = "upval" => UpvalValue(k, s) = UpvalValue(h, s)
  BY <1>1, LessUpvals
<1>4. \A s \in Slots : h[s].tt \in {"table", "userdata"} => k[s].meta = h[s].meta
  BY DEF Lessened
<1> QED BY <1>1, <1>2, <1>3, <1>4 DEF WellFormed

(* MarkInv holds of the lessened heap.                                     *)
LEMMA LessMarkInv ==
  ASSUME NEW h, NEW k, Lessened(h, k), WellFormed(h),
         \A s \in Slots : IsOpen(h, s) => h[h[s].thread].tt = "thread",
         NEW m, NEW ex, NEW stage, MarkInv(h, m, ex, {}, stage)
  PROVE  MarkInv(k, m, ex, {}, stage)
<1>1. h \in [Slots -> Objects] /\ k \in [Slots -> Objects]
  BY DEF WellFormed, Lessened
<1>2. \A s \in Slots : /\ k[s].tt = h[s].tt /\ (k[s] = Free <=> h[s] = Free)
                       /\ h[s].tt = "upval" => k[s] = h[s] /\ UpvalValue(k, s) = UpvalValue(h, s)
  BY <1>1, LessFree, LessUpvals DEF Lessened
<1>3. \A s \in Slots : AllMarked(h, m, s) => AllMarked(k, m, s)
  BY <1>1, LessHeld DEF AllMarked
<1>4. \A s \in Slots : h[s].tt = "table" /\ StrongMarked(h, m, s) => StrongMarked(k, m, s)
  <2> SUFFICES ASSUME NEW s \in Slots, h[s].tt = "table", StrongMarked(h, m, s) PROVE StrongMarked(k, m, s)
    OBVIOUS
  <2>1. Mode(k, s) = Mode(h, s)
    BY <1>1, LessMode
  <2>2. k[s].meta = h[s].meta /\ DOMAIN k[s].entries \subseteq DOMAIN h[s].entries
        /\ \A x \in DOMAIN k[s].entries : k[s].entries[x] = h[s].entries[x]
    BY DEF Lessened
  <2> QED BY <2>1, <2>2 DEF StrongMarked
<1>5. \A s \in Slots : /\ Blackens(k, s) <=> Blackens(h, s)
                       /\ Grayens(k, s) <=> Grayens(h, s)
                       /\ IsOpen(k, s) <=> IsOpen(h, s)
                       /\ Traversed(k, s) <=> Traversed(h, s)
  BY <1>2 DEF Blackens, Grayens, IsOpen, Traversed
<1>6. \A s \in Slots : Right(k, m, ex, stage, s)
  <2> SUFFICES ASSUME NEW s \in Slots PROVE Right(k, m, ex, stage, s)
    OBVIOUS
  <2>1. Right(h, m, ex, stage, s)
    BY DEF MarkInv
  <2>2. BlackRight(k, m, ex, s)
    BY <2>1, <1>3, <1>5 DEF Right, BlackRight
  <2>3. GrayRight(k, m, s)
    BY <2>1, <1>2, <1>5 DEF Right, GrayRight
  <2>4. StageRight(k, m, stage, s)
    <3>1. StageRight(h, m, stage, s)
      BY <2>1 DEF Right
    <3>2. (stage >= 1 /\ m.marked[s] = "gray" /\ IsOpen(k, s)) => Marked(m, UpvalValue(k, s))
      <4>1. IsOpen(h, s) => h[s].tt = "upval"
        BY DEF IsOpen
      <4> QED BY <3>1, <4>1, <1>2, <1>5 DEF StageRight
    <3>3. (stage >= 2 /\ s \in Range(m.weak)) => k[s].tt = "table" /\ StrongMarked(k, m, s)
      BY <3>1, <1>2, <1>4 DEF StageRight
    <3>4. (stage >= 3 /\ s \in Range(m.grayagain)) => AllMarked(k, m, s)
      BY <3>1, <1>3 DEF StageRight
    <3> QED BY <3>2, <3>3, <3>4 DEF StageRight
  <2> QED BY <2>1, <2>2, <2>3, <2>4 DEF Right
<1>7. \A s \in Slots : m.marked[s] = "none" <=> k[s] = Free
  BY <1>2 DEF MarkInv
<1>8. \A s \in Pending(m) : s \in Slots /\ Traversed(k, s) /\ ~IsWhite(m, s)
  BY <1>5 DEF MarkInv
<1> QED BY <1>6, <1>7, <1>8 DEF MarkInv

(* The objects are where the sweep will find them.                         *)
LEMMA LessPlaced ==
  ASSUME NEW h, NEW k, Lessened(h, k), NEW m, NEW n, NEW tmu, Placed(h, m, tmu), n.rootgc = m.rootgc
  PROVE  Placed(k, n, tmu)
<1>1. \A s \in Slots : k[s].tt = h[s].tt /\ (Listed(k, s) <=> Listed(h, s))
  BY DEF Lessened, Listed
<1>2. {s \in Slots : Listed(k, s)} = {s \in Slots : Listed(h, s)}
  BY <1>1
<1>3. Range(tmu) \subseteq Slots
  BY DEF Placed
<1>4. \A u \in Range(tmu) : k[u].tt = "userdata" /\ k[u].finalized
  BY <1>3 DEF Placed, Lessened
<1>5. k[Main].tt = "thread" /\ k[Globals].tt = "table"
  BY <1>1, HeapAssumption DEF Placed
<1> QED BY <1>2, <1>4, <1>5 DEF Placed

(* The marks and the lists are all MarkInv looks at.                       *)
SameMarks(m, n) ==
  /\ n \in Collectors /\ n.marked = m.marked
  /\ n.gray = m.gray /\ n.grayagain = m.grayagain /\ n.weak = m.weak

(* MarkInv depends on nothing else of the collector.                       *)
LEMMA MarkInvSame ==
  ASSUME NEW h, NEW m, NEW ex, NEW e2, NEW stage, MarkInv(h, m, ex, {}, stage), ex \subseteq e2,
         NEW n, SameMarks(m, n)
  PROVE  MarkInv(h, n, e2, {}, stage)
<1>1. \A s : IsWhite(n, s) <=> IsWhite(m, s)
  BY DEF SameMarks, IsWhite
<1>2. /\ \A s : Marked(m, s) <=> Marked(n, s)
      /\ \A s : AllMarked(h, m, s) <=> AllMarked(h, n, s)
      /\ \A s : StrongMarked(h, m, s) <=> StrongMarked(h, n, s)
  BY <1>1 DEF Marked, AllMarked, StrongMarked
<1>3. Pending(n) = Pending(m) /\ (OnceListed(n) <=> OnceListed(m))
  BY DEF SameMarks, Pending, OnceListed
<1>4. \A s \in Slots : Right(h, n, e2, stage, s)
  <2> SUFFICES ASSUME NEW s \in Slots PROVE Right(h, n, e2, stage, s)
    OBVIOUS
  <2>1. Right(h, m, ex, stage, s)
    BY DEF MarkInv
  <2>2. BlackRight(h, n, e2, s) /\ GrayRight(h, n, s) /\ StageRight(h, n, stage, s)
    BY <2>1, <1>2, <1>3 DEF Right, BlackRight, GrayRight, StageRight, SameMarks
  <2> QED BY <2>1, <2>2, <1>3 DEF Right, SameMarks
<1>5. n \in Collectors /\ \A s \in Slots : n.marked[s] = "none" <=> h[s] = Free
  BY DEF SameMarks, MarkInv
<1> QED BY <1>1, <1>3, <1>4, <1>5 DEF MarkInv

-----------------------------------------------------------------------------
(* The atomic end of the mark phase, up to the separation of the userdata: *)
(* the values of the gray open upvalues are marked, then the weak tables   *)
(* and the objects of grayagain traversed again.                           *)
LEMMA UpvalsRemarked ==
  ASSUME NEW h, NEW m, NEW ex, MarkInv(h, m, ex, {}, 0), WellFormed(h)
  PROVE  MarkInv(h, RemarkUpvals(h, m), ex, {}, 1) /\ Further(m, RemarkUpvals(h, m))
<1> DEFINE G == {v \in OpenUpvals(h) : m.marked[v] = "gray"}
           S == {UpvalValue(h, u) : u \in G}
           seq == SetToSeq(S)
           r == RemarkUpvals(h, m)
<1>1. h \in [Slots -> Objects] /\ m \in Collectors /\ \A s \in Slots : h[s] \in Objects
  BY DEF WellFormed, MarkInv
<1>2. \A s \in G : s \in Slots /\ IsOpen(h, s) /\ m.marked[s] = "gray"
  BY DEF OpenUpvals, IsA, IsOpen
<1>3. \A s \in Slots : IsOpen(h, s) /\ m.marked[s] = "gray" => s \in G
  BY DEF OpenUpvals, IsA, IsOpen
<1>4. IsFiniteSet(S)
  <2>1. \A s \in Slots : h[s].tt = "upval" /\ h[s].open /\ h[h[s].thread].tt = "thread" => UpvalValue(h, s) \in Values
    <3> SUFFICES ASSUME NEW s \in Slots, h[s].tt = "upval", h[s].open, h[h[s].thread].tt = "thread"
                 PROVE  UpvalValue(h, s) \in Values
      OBVIOUS
    <3>1. h[s].thread \in Slots /\ h[s].level \in Registers
      BY <1>1, Kinds, KindsAre
    <3>2. h[h[s].thread].stack \in [Registers -> Values]
      BY <1>1, <3>1, Kinds, KindsAre
    <3> QED BY <3>1, <3>2 DEF UpvalValue
  <2>2. IsFiniteSet(Slots)
    BY HeapAssumption
  <2>3. IsFiniteSet(G)
    BY <1>2, <2>2, FS_Subset
  <2>4. [u \in G |-> UpvalValue(h, u)] \in Surjection(G, S)
    BY DEF Surjection
  <2> QED BY <2>3, <2>4, FS_Surjection
<1> HIDE DEF G
<1>5. MarkInv(h, m, ex, G, 1)
  <2>1. G \in SUBSET Slots
    BY <1>2
  <2>2. \A s \in Slots \ G : Right(h, m, ex, 1, s)
    <3> SUFFICES ASSUME NEW s \in Slots, s \notin G PROVE Right(h, m, ex, 1, s)
      OBVIOUS
    <3>1. Right(h, m, ex, 0, s)
      BY DEF MarkInv
    <3>2. StageRight(h, m, 1, s)
      BY <1>3 DEF StageRight
    <3> QED BY <3>1, <3>2 DEF Right
  <2>3. \A s \in G : ~IsWhite(m, s) /\ h[s] # Free
    <3>1. \A s \in G : h[s].tt = "upval" /\ m.marked[s] = "gray"
      BY <1>2 DEF IsOpen
    <3> QED BY <3>1, <1>2, KindsAre DEF IsWhite
  <2>4. 1 \in 0..3
    OBVIOUS
  <2> QED BY <2>1, <2>2, <2>3, <2>4 DEF MarkInv
<1>6. seq \in Seq(S) /\ DOMAIN seq = 1..Cardinality(S) /\ Cardinality(S) \in Nat
      /\ \A x \in S : \E i \in DOMAIN seq : seq[i] = x
  <2> HIDE DEF S
  <2> QED BY <1>4, SetAsList
<1>7. r = MarkAll(h, m, seq)
  BY DEF RemarkUpvals, G
<1>8. \A s \in G : UpvalValue(h, s) \in S
  OBVIOUS
<1> HIDE DEF S, seq, r
<1>9. AllMarkedBy(h, m, r, seq, ex, G, 1)
  BY <1>5, <1>6, <1>7, MarkAllStep
<1>10. MarkInv(h, r, ex, G, 1) /\ Further(m, r) /\ Keeping(m, r) /\ \A i \in DOMAIN seq : Marked(r, seq[i])
  BY <1>9 DEF AllMarkedBy
<1>11. \A s \in G : Right(h, r, ex, 1, s)
  <2> SUFFICES ASSUME NEW s \in G PROVE Right(h, r, ex, 1, s)
    OBVIOUS
  <2>1. r.marked[s] = "gray" /\ s \in Slots
    BY <1>2, <1>10 DEF Keeping, IsWhite
  <2>2. Marked(r, UpvalValue(h, s))
    BY <1>6, <1>8, <1>10
  <2>3. Grayens(h, s) /\ IsOpen(h, s)
    BY <1>2 DEF Grayens, IsOpen
  <2> QED BY <2>1, <2>2, <2>3 DEF Right, BlackRight, GrayRight, StageRight
<1>12. MarkInv(h, r, ex, {}, 1)
  BY <1>10, <1>11 DEF MarkInv
<1> QED BY <1>10, <1>12 DEF r

Regrays(m, n, stage) ==
  /\ n \in Collectors /\ n.marked = m.marked
  /\ n.rootgc = m.rootgc /\ n.currentwhite = m.currentwhite /\ n.gcstate = m.gcstate
  /\ n.full = m.full /\ n.sweepgc = m.sweepgc /\ n.sweepstrgc = m.sweepstrgc
  /\ m.gray = <<>>
  /\ \/ stage = 1 /\ n.gray = m.weak /\ n.weak = <<>> /\ n.grayagain = m.grayagain
     \/ stage = 2 /\ n.gray = m.grayagain /\ n.grayagain = <<>> /\ n.weak = m.weak

(* A list becomes the list gray: its objects are traversed again.          *)
LEMMA Regrayed ==
  ASSUME NEW h, NEW m, NEW ex, NEW stage \in 1..2, MarkInv(h, m, ex, {}, stage), NEW n, Regrays(m, n, stage)
  PROVE  MarkInv(h, n, ex, {}, stage + 1) /\ Further(m, n)
<1>1. \A s : IsWhite(n, s) <=> IsWhite(m, s)
  BY DEF Regrays, IsWhite
<1>2. /\ \A s : Marked(m, s) <=> Marked(n, s)
      /\ \A s : AllMarked(h, m, s) <=> AllMarked(h, n, s)
      /\ \A s : StrongMarked(h, m, s) <=> StrongMarked(h, n, s)
  BY <1>1 DEF Marked, AllMarked, StrongMarked
<1>3. Range(<<>>) = {} /\ IsInjective(<<>>)
  BY Empty
<1>4. Pending(n) = Pending(m)
  BY <1>3 DEF Regrays, Pending
<1>5. OnceListed(n)
  <2>1. OnceListed(m)
    BY DEF MarkInv
  <2> QED BY <1>3, <2>1 DEF Regrays, OnceListed
<1>6. \A s \in Slots : Right(h, n, ex, stage + 1, s)
  <2> SUFFICES ASSUME NEW s \in Slots PROVE Right(h, n, ex, stage + 1, s)
    OBVIOUS
  <2>1. Right(h, m, ex, stage, s)
    BY DEF MarkInv
  <2>2. BlackRight(h, n, ex, s) /\ GrayRight(h, n, s)
    BY <2>1, <1>2, <1>4 DEF Right, BlackRight, GrayRight, Regrays
  <2>3. (n.marked[s] = "gray" /\ IsOpen(h, s)) => Marked(n, UpvalValue(h, s))
    BY <2>1, <1>2 DEF Right, StageRight, Regrays
  <2>4. s \in Range(n.weak) => h[s].tt = "table" /\ StrongMarked(h, n, s)
    <3>1. CASE stage = 1
      BY <3>1, <1>3 DEF Regrays
    <3>2. CASE stage = 2
      BY <3>2, <2>1, <1>2 DEF Right, StageRight, Regrays
    <3> QED BY <3>1, <3>2
  <2>5. stage = 2 => s \notin Range(n.grayagain)
    BY <1>3 DEF Regrays
  <2>6. StageRight(h, n, stage + 1, s)
    BY <2>3, <2>4, <2>5 DEF StageRight
  <2> QED BY <2>1, <2>2, <2>6, <1>4 DEF Right, Regrays
<1>7. MarkInv(h, n, ex, {}, stage + 1)
  <2>1. n \in Collectors /\ \A s \in Slots : n.marked[s] = "none" <=> h[s] = Free
    BY DEF MarkInv, Regrays
  <2>2. stage + 1 \in 0..3
    OBVIOUS
  <2>3. \A s \in Pending(n) : s \in Slots /\ Traversed(h, s) /\ ~IsWhite(n, s)
    BY <1>1, <1>4 DEF MarkInv
  <2> QED BY <2>1, <2>2, <2>3, <1>5, <1>6 DEF MarkInv
<1>8. Further(m, n)
  BY <1>1 DEF Further, Regrays
<1> QED BY <1>7, <1>8

WeakGrayed(m, n) == n = [m EXCEPT !.gray = m.weak, !.weak = <<>>]
AgainGrayed(m, n) == n = [m EXCEPT !.gray = m.grayagain, !.grayagain = <<>>]

(* The two lists the atomic step moves.                                    *)
LEMMA ListsMoved ==
  ASSUME NEW m \in Collectors, m.gray = <<>>, NEW n
  PROVE  /\ WeakGrayed(m, n) => Regrays(m, n, 1)
         /\ AgainGrayed(m, n) => Regrays(m, n, 2)
<1>1. <<>> \in Seq(Slots)
  BY Empty
<1>2. WeakGrayed(m, n) => n \in Collectors
  BY <1>1 DEF WeakGrayed, Collectors, SlotSeqs
<1>3. AgainGrayed(m, n) => n \in Collectors
  BY <1>1 DEF AgainGrayed, Collectors, SlotSeqs
<1>4. WeakGrayed(m, n) => Regrays(m, n, 1)
  BY <1>2 DEF WeakGrayed, Collectors, Regrays
<1>5. AgainGrayed(m, n) => Regrays(m, n, 2)
  BY <1>3 DEF AgainGrayed, Collectors, Regrays
<1> QED BY <1>4, <1>5

Remarks(h, m, th, upvals, weak, again) ==
  /\ upvals = PropagateAll(h, RemarkUpvals(h, m))
  /\ weak = PropagateAll(h, Mark(h, [upvals EXCEPT !.gray = upvals.weak, !.weak = <<>>], th))
  /\ again = PropagateAll(h, [weak EXCEPT !.gray = weak.grayagain, !.grayagain = <<>>])

(* The three waves of marking, remarkupvals, the list weak and the list    *)
(* grayagain, lead to stage 3.                                             *)
LEMMA Remarked ==
  ASSUME NEW h, NEW m, NEW ex, MarkInv(h, m, ex, {}, 0), WellFormed(h), NEW th,
         NEW upvals, NEW weak, NEW again, Remarks(h, m, th, upvals, weak, again)
  PROVE  MarkInv(h, again, ex, {}, 3) /\ Further(m, again) /\ again.gray = <<>>
<1> DEFINE r == RemarkUpvals(h, m)
<1>1. MarkInv(h, r, ex, {}, 1) /\ Further(m, r)
  BY UpvalsRemarked
<1>2. upvals = PropagateAll(h, r)
  BY DEF Remarks
<1> HIDE DEF r
<1>3. MarkInv(h, upvals, ex, {}, 1) /\ Further(r, upvals) /\ upvals.gray = <<>>
  BY <1>1, <1>2, PropagateAllStep
<1> DEFINE w == [upvals EXCEPT !.gray = upvals.weak, !.weak = <<>>]
           v == Mark(h, w, th)
<1>4. WeakGrayed(upvals, w)
  BY DEF WeakGrayed
<1>5. weak = PropagateAll(h, v)
  BY DEF Remarks
<1> HIDE DEF w
<1>6. MarkInv(h, w, ex, {}, 1 + 1) /\ Further(upvals, w)
  <2>1. Regrays(upvals, w, 1)
    BY <1>3, <1>4, ListsMoved DEF MarkInv
  <2> QED BY <2>1, <1>3, Regrayed
<1>7. MarkInv(h, w, ex, {}, 2)
  <2>1. 1 + 1 = 2
    OBVIOUS
  <2> QED BY <1>6, <2>1
<1>8. MarkInv(h, v, ex, {}, 2) /\ Further(w, v)
  <2>1. MarkedBy(h, w, v, th, ex, {}, 2)
    BY <1>7, MarkStep
  <2> QED BY <2>1 DEF MarkedBy
<1> HIDE DEF v
<1>9. MarkInv(h, weak, ex, {}, 2) /\ Further(v, weak) /\ weak.gray = <<>>
  BY <1>5, <1>8, PropagateAllStep
<1> DEFINE a == [weak EXCEPT !.gray = weak.grayagain, !.grayagain = <<>>]
<1>10. AgainGrayed(weak, a)
  BY DEF AgainGrayed
<1>11. again = PropagateAll(h, a)
  BY DEF Remarks
<1> HIDE DEF a
<1>12. MarkInv(h, a, ex, {}, 2 + 1) /\ Further(weak, a)
  <2>1. Regrays(weak, a, 2)
    BY <1>9, <1>10, ListsMoved DEF MarkInv
  <2> QED BY <2>1, <1>9, Regrayed
<1>13. MarkInv(h, a, ex, {}, 3)
  <2>1. 2 + 1 = 3
    OBVIOUS
  <2> QED BY <1>12, <2>1
<1>14. MarkInv(h, again, ex, {}, 3) /\ Further(a, again) /\ again.gray = <<>>
  BY <1>11, <1>13, PropagateAllStep
<1>15. Further(m, again)
  BY <1>1, <1>3, <1>6, <1>8, <1>9, <1>12, <1>14, FurtherTransitive
<1> QED BY <1>14, <1>15

-----------------------------------------------------------------------------
(* marktmu: the userdata that wait for their finalizers turn white, and    *)
(* black at once, and their metatables are marked.                         *)
LEMMA PaintedBlack ==
  ASSUME NEW h, NEW m, NEW ex, NEW stage, MarkInv(h, m, ex, {}, stage), NEW u \in ex, u \in Slots,
         h[u].tt = "userdata", NEW n, Painted(m, n, u, "black")
  PROVE  MarkInv(h, n, ex, {}, stage) /\ Further(m, n)
<1>1. \A s \in Slots : s # u => (IsWhite(n, s) <=> IsWhite(m, s))
  BY DEF Painted, IsWhite
<1>2. ~IsWhite(n, u)
  BY DEF Painted, IsWhite
<1>3. \A s \in Slots : ~IsWhite(m, s) => ~IsWhite(n, s)
  BY <1>1, <1>2
<1>4. /\ \A v : Marked(m, v) => Marked(n, v)
      /\ \A s : AllMarked(h, m, s) => AllMarked(h, n, s)
      /\ \A s : StrongMarked(h, m, s) => StrongMarked(h, n, s)
  BY <1>3, FurtherMarked
<1>5. Pending(n) = Pending(m) /\ (OnceListed(m) => OnceListed(n))
      /\ n.gray = m.gray /\ n.weak = m.weak /\ n.grayagain = m.grayagain
  BY DEF Painted, Pending, OnceListed
<1>6. u \notin Pending(m)
  BY DEF MarkInv, Traversed
<1>7. \A s \in Slots : Right(h, n, ex, stage, s)
  <2> SUFFICES ASSUME NEW s \in Slots PROVE Right(h, n, ex, stage, s)
    OBVIOUS
  <2>1. Right(h, m, ex, stage, s)
    BY DEF MarkInv
  <2>2. CASE s = u
    <3>1. n.marked[s] = "black" /\ Blackens(h, s) /\ s \notin Pending(n)
      BY <2>2, <1>5, <1>6 DEF Painted, Blackens
    <3>2. s \notin Range(n.weak) /\ s \notin Range(n.grayagain)
      BY <3>1 DEF Pending
    <3> QED BY <2>2, <3>1, <3>2 DEF Right, BlackRight, GrayRight, StageRight
  <2>3. CASE s # u
    <3>1. n.marked[s] = m.marked[s]
      BY <2>3 DEF Painted
    <3> QED BY <2>1, <3>1, <1>4, <1>5 DEF Right, BlackRight, GrayRight, StageRight
  <2> QED BY <2>2, <2>3
<1>8. MarkInv(h, n, ex, {}, stage)
  <2>1. \A s \in Slots : n.marked[s] = "none" <=> h[s] = Free
    <3> SUFFICES ASSUME NEW s \in Slots PROVE n.marked[s] = "none" <=> h[s] = Free
      OBVIOUS
    <3>1. CASE s = u
      <4>1. h[u] # Free
        BY KindsAre
      <4> QED BY <3>1, <4>1 DEF Painted
    <3>2. CASE s # u
      BY <3>2 DEF MarkInv, Painted
    <3> QED BY <3>1, <3>2
  <2>2. \A s \in Pending(n) : s \in Slots /\ Traversed(h, s) /\ ~IsWhite(n, s)
    BY <1>3, <1>5 DEF MarkInv
  <2>3. n \in Collectors
    BY DEF Painted
  <2> QED BY <2>1, <2>2, <2>3, <1>5, <1>7 DEF MarkInv
<1>9. Further(m, n)
  <2>1. \A s \in Slots : n.marked[s] \in {m.marked[s], "gray", "black"}
    BY DEF Painted
  <2> QED BY <2>1, <1>3 DEF Further, Painted
<1> QED BY <1>8, <1>9

(* One userdata of marktmu: marked, whatever its colour, with its          *)
(* metatable.                                                              *)
LEMMA MarkedAgainStep ==
  ASSUME NEW h, NEW m, NEW ex, MarkInv(h, m, ex, {}, 3), WellFormed(h), NEW u \in ex, u \in Slots,
         h[u].tt = "userdata", NEW n, n = MarkedAgain(h, m, u)
  PROVE  MarkInv(h, n, ex, {}, 3) /\ Further(m, n) /\ ~IsWhite(n, u) /\ AllMarked(h, n, u)
<1> DEFINE a == MakeWhite(m, u)
           b == Paint(a, u, "black")
<1>1. Painted(m, a, u, m.currentwhite)
  <2>1. m \in Collectors /\ m.currentwhite \in Marks
    BY DEF MarkInv, Collectors, Whites, Marks, Colours
  <2> QED BY <2>1, PaintIs DEF MakeWhite
<1>2. IsWhite(a, u)
  <2>1. m.currentwhite \in Whites
    BY DEF MarkInv, Collectors
  <2> HIDE DEF a
  <2> QED BY <1>1, <2>1 DEF Painted, IsWhite, Whites
<1>3. n = Mark(h, a, u)
  BY DEF MarkedAgain
<1> HIDE DEF a
<1>4. n = MarkSimple(h, b, h[u].meta)
  BY <1>2, <1>3 DEF Mark, MarkUserdata, IsA
<1>5. Painted(a, b, u, "black")
  <2>1. a \in Collectors /\ "black" \in Marks
    BY <1>1 DEF Painted, Marks, Colours
  <2> QED BY <2>1, PaintIs
<1> HIDE DEF b
<1>6. Painted(m, b, u, "black")
  BY <1>1, <1>5 DEF Painted
<1>7. MarkInv(h, b, ex, {}, 3) /\ Further(m, b)
  BY <1>6, PaintedBlack
<1>8. MarkedBy(h, b, n, h[u].meta, ex, {}, 3)
  <2>1. (h[u].meta \in Slots /\ IsWhite(b, h[u].meta)) => h[h[u].meta].tt \in {"table", "function", "thread", "string"}
    BY DEF WellFormed
  <2> QED BY <1>4, <1>7, <2>1, MarkSimpleStep
<1>9. MarkInv(h, n, ex, {}, 3) /\ Further(b, n) /\ Marked(n, h[u].meta)
  BY <1>8 DEF MarkedBy
<1>10. ~IsWhite(n, u)
  <2>1. ~IsWhite(b, u)
    BY <1>6 DEF Painted, IsWhite
  <2> QED BY <2>1, <1>9 DEF Further
<1>11. AllMarked(h, n, u)
  BY <1>9 DEF AllMarked, Held, Marked
<1> QED BY <1>7, <1>9, <1>10, <1>11, FurtherTransitive

(* marktmu: every userdata that waits is marked, and none points to a      *)
(* white object any more.                                                  *)
LEMMA MarkTmuStep ==
  ASSUME NEW h, NEW m, NEW tmu \in Seq(Slots), MarkInv(h, m, Range(tmu), {}, 3), WellFormed(h),
         \A u \in Range(tmu) : h[u].tt = "userdata", NEW n, n = MarkTmu(h, m, tmu)
  PROVE  /\ MarkInv(h, n, {}, {}, 3) /\ Further(m, n)
         /\ \A u \in Range(tmu) : ~IsWhite(n, u)
<1> DEFINE ex == Range(tmu)
           len == Len(tmu)
           M == {x \in Collectors : MarkInv(h, x, ex, {}, 3) /\ Further(m, x)}
           Done(x, u) == ~IsWhite(x, u) /\ AllMarked(h, x, u)
<1>1. /\ len \in Nat /\ DOMAIN tmu = 1..len /\ ex \subseteq Slots
      /\ \A i \in 1..len : tmu[i] \in Slots /\ tmu[i] \in ex
      /\ \A u \in ex : \E i \in 1..len : tmu[i] = u
  BY SeqParts
<1>2. m \in M
  BY FurtherReflexive DEF MarkInv
<1> HIDE DEF ex, len
<1>3. ASSUME NEW x \in M, NEW i \in 1..len
      PROVE  /\ MarkedAgain(h, x, tmu[i]) \in M /\ Further(x, MarkedAgain(h, x, tmu[i]))
             /\ Done(MarkedAgain(h, x, tmu[i]), tmu[i])
  <2> DEFINE y == MarkedAgain(h, x, tmu[i])
  <2>1. tmu[i] \in ex /\ tmu[i] \in Slots /\ h[tmu[i]].tt = "userdata"
    BY <1>1 DEF ex
  <2>2. MarkInv(h, x, ex, {}, 3) /\ Further(m, x)
    OBVIOUS
  <2> HIDE DEF M
  <2>3. y = MarkedAgain(h, x, tmu[i])
    OBVIOUS
  <2> HIDE DEF y
  <2>4. MarkInv(h, y, ex, {}, 3) /\ Further(x, y) /\ ~IsWhite(y, tmu[i]) /\ AllMarked(h, y, tmu[i])
    BY <2>1, <2>2, <2>3, MarkedAgainStep
  <2>5. Further(m, y)
    BY <2>2, <2>4, FurtherTransitive
  <2>6. y \in Collectors
    BY <2>4 DEF MarkInv
  <2>7. y \in M
    BY <2>4, <2>5, <2>6 DEF M
  <2> QED BY <2>4, <2>7 DEF y
<1> HIDE DEF M
<1>4. PICK W : MarkTmuTrace(h, m, tmu, M, len, W)
  BY <1>1, <1>2, <1>3, MarkTmuSteps
<1>5. /\ W[0] = m /\ n = W[len]
      /\ \A i \in 1..len : W[i] = MarkedAgain(h, W[i - 1], tmu[i])
      /\ \A i \in 0..len : W[i] \in M
  BY <1>4 DEF MarkTmuTrace
<1>6. \A i \in 1..len : Further(W[i - 1], W[i]) /\ Done(W[i], tmu[i])
  <2> SUFFICES ASSUME NEW i \in 1..len PROVE Further(W[i - 1], W[i]) /\ Done(W[i], tmu[i])
    OBVIOUS
  <2>1. i - 1 \in 0..len
    BY <1>1
  <2>2. W[i - 1] \in M /\ W[i] = MarkedAgain(h, W[i - 1], tmu[i])
    BY <1>5, <2>1
  <2> HIDE DEF Done
  <2> QED BY <1>3, <2>2
<1> DEFINE A == {j \in 0..len : \A i \in 1..j : Done(W[j], tmu[i])}
<1>7. 0 \in A
  BY <1>1
<1>8. \A j \in 1..len : j - 1 \in A => j \in A
  <2> SUFFICES ASSUME NEW j \in 1..len, j - 1 \in A PROVE j \in A
    OBVIOUS
  <2>1. j \in 0..len /\ \A i \in 1..j : i = j \/ i \in 1..(j - 1)
    BY <1>1
  <2>2. \A i \in 1..(j - 1) : Done(W[j], tmu[i])
    <3> SUFFICES ASSUME NEW i \in 1..(j - 1) PROVE Done(W[j], tmu[i])
      OBVIOUS
    <3>1. Done(W[j - 1], tmu[i])
      OBVIOUS
    <3>2. \A s \in Slots : ~IsWhite(W[j - 1], s) => ~IsWhite(W[j], s)
      BY <1>6 DEF Further
    <3>3. tmu[i] \in Slots
      BY <1>1
    <3>4. AllMarked(h, W[j - 1], tmu[i]) => AllMarked(h, W[j], tmu[i])
      BY <3>2, FurtherMarked
    <3> QED BY <3>1, <3>2, <3>3, <3>4
  <2>3. Done(W[j], tmu[j])
    BY <1>6
  <2> QED BY <2>1, <2>2, <2>3
<1>9. len \in A
  <2> HIDE DEF A
  <2>1. \A i \in 0..len : i \in A
    BY <1>1, <1>7, <1>8, Induct
  <2> QED BY <2>1, <1>1
<1>10. \A u \in ex : Done(n, u)
  <2>1. \A i \in 1..len : Done(n, tmu[i])
    <3> HIDE DEF Done
    <3> QED BY <1>5, <1>9
  <2> SUFFICES ASSUME NEW u \in ex PROVE Done(n, u)
    OBVIOUS
  <2>2. PICK i \in 1..len : tmu[i] = u
    BY <1>1
  <2> QED BY <2>1, <2>2
<1>11. MarkInv(h, n, ex, {}, 3) /\ Further(m, n)
  <2>1. n \in M
    BY <1>1, <1>5
  <2> QED BY <2>1 DEF M
<1>12. \A s \in Slots : Right(h, n, {}, 3, s)
  <2> SUFFICES ASSUME NEW s \in Slots PROVE Right(h, n, {}, 3, s)
    OBVIOUS
  <2>1. Right(h, n, ex, 3, s)
    BY <1>11 DEF MarkInv
  <2> QED BY <2>1, <1>10 DEF Right, BlackRight
<1>13. MarkInv(h, n, {}, {}, 3)
  BY <1>11, <1>12 DEF MarkInv
<1> QED BY <1>10, <1>11, <1>13 DEF ex

-----------------------------------------------------------------------------
(* cleartable: what is left in the weak tables is marked.                  *)
LEMMA StringsMarked ==
  ASSUME NEW h, NEW m \in Collectors, m.gray = <<>>, NEW n \in Nat, NEW seq, DOMAIN seq = 1..n,
         \A i \in 1..n : seq[i] \in Slots /\ h[seq[i]].tt = "string"
  PROVE  MarkAll(h, m, seq).gray = <<>>
<1> DEFINE M == {x \in Collectors : x.gray = <<>>}
<1>1. m \in M
  OBVIOUS
<1>2. ASSUME NEW x \in M, NEW i \in 1..n PROVE Mark(h, x, seq[i]) \in M
  <2> DEFINE s == seq[i]
  <2>1. s \in Slots /\ h[s].tt = "string" /\ x \in Collectors /\ x.gray = <<>>
    OBVIOUS
  <2>2. Painted(x, Paint(x, s, "gray"), s, "gray")
    BY <2>1, PaintIs DEF Marks, Colours
  <2>3. Paint(x, s, "gray") \in M
    BY <2>1, <2>2 DEF Painted
  <2> HIDE DEF M
  <2>4. Mark(h, x, s) \in {x, Paint(x, s, "gray")}
    BY <2>1 DEF Mark, MarkUserdata, MarkSimple, IsA
  <2> QED BY <2>3, <2>4
<1> HIDE DEF M
<1>3. PICK W : MarkAllTrace(h, m, seq, M, n, W)
  BY <1>1, <1>2, MarkAllSteps
<1>4. MarkAll(h, m, seq) \in M
  BY <1>3 DEF MarkAllTrace
<1> QED BY <1>4 DEF M

ClearedWell(h, m, k, n) ==
  /\ Lessened(h, k) /\ MarkInv(h, n, {}, {}, 3) /\ Further(m, n) /\ n.gray = <<>>
  /\ \A t \in Range(n.weak) : t \in Slots /\ AllMarked(k, n, t)

(* cleartable: nothing that is left in a weak table is white.              *)
LEMMA ClearTableStep ==
  ASSUME NEW h, NEW m, MarkInv(h, m, {}, {}, 3), WellFormed(h), m.gray = <<>>,
         NEW clear, clear = ClearTable(h, m)
  PROVE  ClearedWell(h, m, clear.heap, clear.g)
<1> DEFINE Left(t) == {k \in DOMAIN h[t].entries : ~Cleared(h, m, t, k)}
           strings == UNION {{v \in Left(t) \cup {h[t].entries[k] : k \in Left(t)} :
                                IsA(h, v, "string")} : t \in Range(m.weak)}
           c == [s \in Slots |-> IF s \notin Range(m.weak) THEN h[s]
                   ELSE [h[s] EXCEPT !.entries = [k \in Left(s) |-> @[k]]]]
           seq == SetToSeq(strings)
           n == MarkAll(h, m, seq)
<1>1. clear.heap = c /\ clear.g = n
  BY DEF ClearTable
<1>2. h \in [Slots -> Objects] /\ m \in Collectors /\ m.weak \in Seq(Slots) /\ Range(m.weak) \subseteq Slots
  <2>1. h \in [Slots -> Objects] /\ m \in Collectors /\ m.weak \in Seq(Slots)
    BY DEF MarkInv, WellFormed, Collectors, SlotSeqs
  <2> QED BY <2>1, SeqParts
<1>3. \A t \in Range(m.weak) : t \in Slots /\ h[t].tt = "table" /\ h[t] \in TableObjects /\ StrongMarked(h, m, t)
  <2>1. \A t \in Range(m.weak) : t \in Slots /\ h[t].tt = "table" /\ StrongMarked(h, m, t)
    BY <1>2 DEF MarkInv, Right, StageRight
  <2> QED BY <1>2, <2>1, Kinds
<1>4. \A x \in strings : x \in Slots /\ h[x].tt = "string"
  BY DEF IsA
<1>5. \A t \in Range(m.weak) : \A x \in Left(t) :
        /\ IsA(h, x, "string") => x \in strings
        /\ IsA(h, h[t].entries[x], "string") => h[t].entries[x] \in strings
  OBVIOUS
<1>6. IsFiniteSet(strings)
  <2> HIDE DEF strings
  <2> QED BY <1>4, HeapAssumption, FS_Subset
<1>7. \A t \in Range(m.weak) : c[t] = [h[t] EXCEPT !.entries = [k \in Left(t) |-> h[t].entries[k]]]
  BY <1>3
<1>8. \A s \in Slots : s \notin Range(m.weak) => c[s] = h[s]
  OBVIOUS
<1>9. c = [s \in Slots |-> c[s]]
  OBVIOUS
<1>10. \A t \in Range(m.weak) : Left(t) \subseteq DOMAIN h[t].entries
  OBVIOUS
<1>11. \A t \in Range(m.weak) : \A x \in Left(t) : x \in DOMAIN h[t].entries /\ ~Cleared(h, m, t, x)
  OBVIOUS
<1> HIDE DEF strings, c, n, seq, Left
<1>12. \A t \in Range(m.weak) :
         /\ c[t] \in TableObjects /\ c[t].meta = h[t].meta /\ c[t].flags = h[t].flags
         /\ DOMAIN c[t].entries = Left(t) /\ \A x \in Left(t) : c[t].entries[x] = h[t].entries[x]
  <2> SUFFICES ASSUME NEW t \in Range(m.weak)
               PROVE  /\ c[t] \in TableObjects /\ c[t].meta = h[t].meta /\ c[t].flags = h[t].flags
                      /\ DOMAIN c[t].entries = Left(t) /\ \A x \in Left(t) : c[t].entries[x] = h[t].entries[x]
    OBVIOUS
  <2> DEFINE e == [k \in Left(t) |-> h[t].entries[k]]
  <2>1. h[t] \in TableObjects /\ h[t].entries \in UNION {[D -> Values] : D \in SUBSET Values}
    BY <1>3, KindsAre
  <2>2. Left(t) \in SUBSET Values /\ e \in [Left(t) -> Values]
    BY <2>1, <1>10
  <2>3. DOMAIN e = Left(t) /\ \A x \in Left(t) : e[x] = h[t].entries[x]
    OBVIOUS
  <2>4. c[t] = [h[t] EXCEPT !.entries = e]
    BY <1>7
  <2> HIDE DEF e
  <2>5. c[t] \in TableObjects /\ c[t].meta = h[t].meta /\ c[t].flags = h[t].flags /\ c[t].entries = e
    BY <2>1, <2>2, <2>4 DEF TableObjects
  <2> QED BY <2>3, <2>5
<1>13. Lessened(h, c)
  <2>1. c \in [Slots -> Objects]
    BY <1>2, <1>8, <1>9, <1>12, KindsAre
  <2> SUFFICES ASSUME NEW s \in Slots
               PROVE  /\ c[s].tt = h[s].tt
                      /\ h[s].tt \notin {"table", "userdata"} => c[s] = h[s]
                      /\ h[s].tt \in {"table", "userdata"} => c[s].meta = h[s].meta
                      /\ h[s].tt = "table" =>
                           /\ c[s].flags = h[s].flags
                           /\ DOMAIN c[s].entries \subseteq DOMAIN h[s].entries
                           /\ \A x \in DOMAIN c[s].entries : c[s].entries[x] = h[s].entries[x]
                      /\ (h[s].tt = "userdata" /\ h[s].finalized) => c[s].finalized
    BY <2>1 DEF Lessened
  <2>2. CASE s \in Range(m.weak)
    <3>1. c[s].tt = "table" /\ h[s].tt = "table"
      BY <2>2, <1>3, <1>12, KindsAre
    <3> QED BY <2>2, <3>1, <1>10, <1>12
  <2>3. CASE s \notin Range(m.weak)
    BY <2>3, <1>8
  <2> QED BY <2>2, <2>3
<1>14. seq \in Seq(strings) /\ DOMAIN seq = 1..Cardinality(strings) /\ Cardinality(strings) \in Nat
       /\ \A x \in strings : \E i \in DOMAIN seq : seq[i] = x
  BY <1>6, SetAsList DEF seq
<1>15. AllMarkedBy(h, m, n, seq, {}, {}, 3)
  BY <1>14, MarkAllStep DEF n
<1>16. n.gray = <<>>
  <2>1. \A i \in 1..Cardinality(strings) : seq[i] \in Slots /\ h[seq[i]].tt = "string"
    BY <1>4, <1>14
  <2> QED BY <1>2, <1>14, <2>1, StringsMarked DEF n
<1>17. MarkInv(h, n, {}, {}, 3) /\ Further(m, n) /\ n.weak = m.weak /\ \A x \in strings : Marked(n, x)
  BY <1>14, <1>15 DEF AllMarkedBy, Keeping
<1>18. ASSUME NEW t \in Range(m.weak) PROVE AllMarked(c, n, t)
  <2>1. t \in Slots /\ h[t].tt = "table" /\ StrongMarked(h, m, t) /\ c[t].tt = "table"
    BY <1>3, <1>12, KindsAre
  <2>2. \A v : Marked(m, v) => Marked(n, v)
    BY <1>17, FurtherMarked DEF Further
  <2>3. \A v : (v \in Slots => h[v].tt = "string" \/ ~IsWhite(m, v)) /\ (IsA(h, v, "string") => v \in strings) => Marked(n, v)
    BY <1>17, <2>2 DEF IsA, Marked
  <2>4. ASSUME NEW x \in Left(t) PROVE Marked(n, x) /\ Marked(n, h[t].entries[x])
    <3>1. ~Cleared(h, m, t, x) /\ x \in DOMAIN h[t].entries
      BY <1>11
    <3>2. /\ IsA(h, x, "string") => x \in strings
          /\ IsA(h, h[t].entries[x], "string") => h[t].entries[x] \in strings
      BY <1>5
    <3>3. CASE x = Number
      <4>1. Marked(n, x)
        BY <3>3, HeapAssumption DEF Marked
      <4>2. CASE "v" \in Mode(h, t)
        <5>1. ~Collected(h, m, h[t].entries[x], FALSE)
          BY <3>1, <3>3, <4>2 DEF Cleared
        <5> QED BY <4>1, <5>1, <2>3, <3>2 DEF Collected
      <4>3. CASE "v" \notin Mode(h, t)
        BY <4>1, <4>3, <2>1, <2>2, <3>1 DEF StrongMarked
      <4> QED BY <4>2, <4>3
    <3>4. CASE x # Number
      <4>1. ~Collected(h, m, x, TRUE) /\ ~Collected(h, m, h[t].entries[x], FALSE)
        BY <3>1, <3>4 DEF Cleared
      <4> QED BY <4>1, <2>3, <3>2 DEF Collected
    <3> QED BY <3>3, <3>4
  <2>5. Marked(n, c[t].meta)
    BY <2>1, <2>2, <1>12 DEF StrongMarked
  <2>6. \A v \in Range(c[t].entries) : \E x \in Left(t) : v = h[t].entries[x]
    BY <1>12 DEF Range
  <2>7. \A v \in Held(c, t) : v = c[t].meta \/ v \in Left(t) \/ \E x \in Left(t) : v = h[t].entries[x]
    BY <2>1, <2>6, <1>12 DEF Held
  <2>8. \A v \in Held(c, t) : v \in Slots
    BY DEF Held
  <2> QED BY <2>4, <2>5, <2>7, <2>8 DEF AllMarked, Marked
<1>19. ClearedWell(h, m, c, n)
  BY <1>2, <1>13, <1>16, <1>17, <1>18 DEF ClearedWell
<1> QED BY <1>1, <1>19

-----------------------------------------------------------------------------
(* The atomic step as a whole: the other white is now the current one, and *)
(* what is still of the old one is dead.                                   *)
Flips(m, n) ==
  n = [m EXCEPT !.currentwhite = OtherWhite(m), !.grayagain = <<>>, !.weak = <<>>,
                !.sweepstrgc = 0, !.sweepgc = 1, !.gcstate = "sweepstring"]

(* What the flip changes.                                                  *)
LEMMA FlipIs ==
  ASSUME NEW m \in Collectors, m.gray = <<>>, NEW n, Flips(m, n)
  PROVE  /\ n \in Collectors /\ n.marked = m.marked /\ n.currentwhite = OtherWhite(m)
         /\ n.rootgc = m.rootgc /\ n.gcstate = "sweepstring" /\ n.sweepgc = 1 /\ n.sweepstrgc = 0
         /\ InLists(n) = <<>> /\ OtherWhite(n) = m.currentwhite
<1> DEFINE white == OtherWhite(m)
<1>1. white \in Whites /\ <<>> \in Seq(Slots)
  BY Empty DEF Collectors, Whites, OtherWhite
<1>2. n = [m EXCEPT !.currentwhite = white, !.grayagain = <<>>, !.weak = <<>>,
                !.sweepstrgc = 0, !.sweepgc = 1, !.gcstate = "sweepstring"]
  BY DEF Flips
<1>3. (IF white = "white0" THEN "white1" ELSE "white0") = m.currentwhite
  BY DEF OtherWhite, Collectors, Whites
<1> HIDE DEF white
<1>4. n \in Collectors
  BY <1>1, <1>2 DEF Collectors, SlotSeqs, GcStates
<1>5. /\ n.marked = m.marked /\ n.currentwhite = white
      /\ n.rootgc = m.rootgc /\ n.gcstate = "sweepstring" /\ n.sweepgc = 1 /\ n.sweepstrgc = 0
      /\ n.gray = <<>> /\ n.grayagain = <<>> /\ n.weak = <<>>
  BY <1>2 DEF Collectors
<1>6. InLists(n) = <<>>
  BY <1>5 DEF InLists
<1>7. OtherWhite(n) = m.currentwhite
  BY <1>3, <1>5 DEF OtherWhite
<1> QED BY <1>4, <1>5, <1>6, <1>7 DEF white

(* An object whose pointers all lead to live objects.                      *)
LEMMA SoundThere ==
  ASSUME NEW h, NEW m, NEW n, NEW s \in Slots, h[s] \in Objects, Sound(h, m, s),
         \A v \in Held(h, s) : Live(m, v) => Live(n, v)
  PROVE  Sound(h, n, s)
<1>1. \A v : (Fine(h, m, v) /\ (v \in Slots => v \in Held(h, s))) => Fine(h, n, v)
  BY DEF Fine
<1>2. \A v : (FineMeta(h, m, v) /\ (v \in Slots => v \in Held(h, s))) => FineMeta(h, n, v)
  BY DEF FineMeta
<1>3. \A v : (FineUpval(h, m, v) /\ v \in Held(h, s)) => FineUpval(h, n, v)
  BY DEF FineUpval
<1>4. h[s].tt \in {"table", "userdata"} => FineMeta(h, n, h[s].meta)
  BY <1>2 DEF Sound, Held
<1>5. h[s].tt = "table" => \A x \in DOMAIN h[s].entries : Fine(h, n, x) /\ Fine(h, n, h[s].entries[x])
  <2> SUFFICES ASSUME h[s].tt = "table", NEW x \in DOMAIN h[s].entries
               PROVE  Fine(h, n, x) /\ Fine(h, n, h[s].entries[x])
    OBVIOUS
  <2>1. h[s].entries[x] \in Range(h[s].entries)
    BY DEF Range
  <2>2. /\ x \in Slots => x \in Held(h, s)
        /\ h[s].entries[x] \in Slots => h[s].entries[x] \in Held(h, s)
    BY <2>1 DEF Held
  <2>3. Fine(h, m, x) /\ Fine(h, m, h[s].entries[x])
    BY DEF Sound
  <2> QED BY <1>1, <2>2, <2>3
<1>6. h[s].tt = "function" => /\ h[s].upvals # <<>>
                              /\ \A u \in Range(h[s].upvals) : FineUpval(h, n, u)
  <2> SUFFICES ASSUME h[s].tt = "function"
               PROVE  h[s].upvals # <<>> /\ \A u \in Range(h[s].upvals) : FineUpval(h, n, u)
    OBVIOUS
  <2>1. Range(h[s].upvals) \subseteq Slots
    BY Kinds, KindsAre, SeqParts
  <2>2. \A u \in Range(h[s].upvals) : u \in Held(h, s)
    BY <2>1 DEF Held
  <2> QED BY <2>2, <1>3 DEF Sound
<1>7. h[s].tt = "upval" => Fine(h, n, UpvalValue(h, s))
  BY <1>1 DEF Sound, Held
<1>8. h[s].tt = "thread" => /\ \A r \in Registers : Fine(h, n, h[s].stack[r])
                            /\ Fine(h, n, h[s].resumed)
  <2> SUFFICES ASSUME h[s].tt = "thread"
               PROVE  (\A r \in Registers : Fine(h, n, h[s].stack[r])) /\ Fine(h, n, h[s].resumed)
    OBVIOUS
  <2>1. DOMAIN h[s].stack = Registers
    BY Kinds, KindsAre
  <2>2. \A r \in Registers : h[s].stack[r] \in Range(h[s].stack)
    BY <2>1 DEF Range
  <2>3. /\ \A r \in Registers : h[s].stack[r] \in Slots => h[s].stack[r] \in Held(h, s)
        /\ h[s].resumed \in Slots => h[s].resumed \in Held(h, s)
    BY <2>2 DEF Held
  <2> QED BY <1>1, <2>3 DEF Sound
<1> QED BY <1>4, <1>5, <1>6, <1>7, <1>8 DEF Sound

(* What the mark phase leaves: k, n are the heap and the marks when it is  *)
(* over, before the white is flipped.                                      *)
MarkedUp(h, m, k, n, t2) ==
  /\ k \in [Slots -> Objects] /\ n \in Collectors /\ n.gray = <<>>
  /\ n.currentwhite = m.currentwhite
  /\ \A s \in Slots : n.marked[s] = "none" <=> k[s] = Free
  /\ \A s \in Slots : n.marked[s] \in {m.marked[s], "gray", "black"}
  /\ \A s \in Slots : (n.marked[s] = "black" => Blackens(k, s)) /\ (n.marked[s] = "gray" => Grayens(k, s))
  /\ \A s \in Slots : n.marked[s] \in {"gray", "black"} => AllMarked(k, n, s)
  /\ \A s \in Slots : Sound(h, m, s) => Sound(k, m, s)
  /\ \A s \in Slots : h[s].tt = "thread" => k[s] = h[s]
  /\ \A s \in Slots : h[s] = Free <=> k[s] = Free
  /\ UpvalsOK(k) /\ Placed(k, n, t2)
  /\ ~IsWhite(n, Main) /\ ~IsWhite(n, Globals)
  /\ \A u \in Range(t2) : ~IsWhite(n, u)
  /\ \A u \in Slots : (k[u].tt = "userdata" /\ IsWhite(n, u)) => k[u].finalized

(* The flip: the live objects are the marked ones, and they point to       *)
(* marked objects only.                                                    *)
LEMMA Flipped ==
  ASSUME NEW h, NEW m, NEW tmu, NEW cs, Good(h, m, tmu, cs, "open"), m.gcstate = "propagate",
         NEW k, NEW c, NEW t2, MarkedUp(h, m, k, c, t2), NEW n, Flips(c, n)
  PROVE  Good(k, n, t2, cs, "open")
<1>1. /\ n \in Collectors /\ n.marked = c.marked /\ n.currentwhite = OtherWhite(c)
      /\ n.rootgc = c.rootgc /\ n.gcstate = "sweepstring" /\ n.sweepgc = 1 /\ n.sweepstrgc = 0
      /\ InLists(n) = <<>> /\ OtherWhite(n) = c.currentwhite
  BY FlipIs DEF MarkedUp
<1>2. Typed(h, m) /\ Closed(h, m) /\ RootsLive(h, m, tmu, cs) /\ \A s \in Slots : ~IsDead(m, s)
  BY DEF Good, HeapInv, Cycle, Marking
<1>3. \A s \in Slots : h[s] # Free => Live(m, s)
  BY <1>2, NothingDeadIsWellFormed
<1>4. m.currentwhite \in Whites /\ c.currentwhite = m.currentwhite /\ OtherWhite(m) # m.currentwhite
      /\ OtherWhite(m) \in Whites
  BY <1>2, MarksAre DEF MarkedUp
<1>5. \A s \in Slots : c.marked[s] \in {"none", m.currentwhite, "gray", "black"}
  <2> SUFFICES ASSUME NEW s \in Slots PROVE c.marked[s] \in {"none", m.currentwhite, "gray", "black"}
    OBVIOUS
  <2>1. c.marked[s] \in {m.marked[s], "gray", "black"} /\ m.marked[s] \in Marks /\ m.marked[s] # OtherWhite(m)
    BY <1>2 DEF MarkedUp, IsDead, Typed, Collectors
  <2>2. m.marked[s] \in {m.currentwhite, OtherWhite(m), "gray", "black", "none"}
    BY <2>1, <1>4 DEF Marks, Colours, OtherWhite, Whites
  <2> QED BY <2>1, <2>2
<1>6. \A s \in Slots : Live(n, s) <=> c.marked[s] \in {"gray", "black"}
  <2>1. m.currentwhite \notin {"gray", "black"}
    BY <1>4 DEF Whites
  <2> QED BY <1>1, <1>4, <1>5, <2>1 DEF Live
<1>7. \A s \in Slots : (~IsWhite(c, s) /\ k[s] # Free) => Live(n, s)
  <2>1. m.currentwhite \in {"white0", "white1"}
    BY <1>4 DEF Whites
  <2> QED BY <1>5, <1>6, <2>1 DEF MarkedUp, IsWhite
<1>8. \A s \in Slots : Live(n, s) => (k[s] # Free /\ h[s] # Free /\ Live(m, s) /\ AllMarked(k, c, s))
  <2> SUFFICES ASSUME NEW s \in Slots, Live(n, s) PROVE k[s] # Free /\ h[s] # Free /\ Live(m, s) /\ AllMarked(k, c, s)
    OBVIOUS
  <2>1. c.marked[s] \in {"gray", "black"}
    BY <1>6
  <2> QED BY <2>1, <1>3 DEF MarkedUp
<1>9. \A s \in Slots : Live(m, s) => k[s] # Free
  <2>1. \A s \in Slots : Live(m, s) => h[s] # Free
    BY <1>2, MarksAre
  <2> QED BY <2>1 DEF MarkedUp
<1>10. Typed(k, n)
  BY <1>1 DEF MarkedUp, Typed
<1>11. Closed(k, n)
  <2> SUFFICES ASSUME NEW s \in Slots, Live(n, s) PROVE Sound(k, n, s)
    BY DEF Closed
  <2>1. Live(m, s) /\ AllMarked(k, c, s)
    BY <1>8
  <2>2. Sound(k, m, s)
    BY <1>2, <2>1 DEF Closed, MarkedUp
  <2>3. \A v \in Held(k, s) : Live(m, v) => Live(n, v)
    <3>1. \A v \in Held(k, s) : v \in Slots /\ ~IsWhite(c, v)
      BY <2>1 DEF AllMarked, Held
    <3> QED BY <3>1, <1>7, <1>9
  <2>4. k[s] \in Objects
    BY DEF MarkedUp
  <2> QED BY <2>2, <2>3, <2>4, SoundThere
<1>12. Placed(k, n, t2)
  BY <1>1 DEF MarkedUp, Placed
<1>13. RootsLive(k, n, t2, cs)
  <2>1. Live(n, Main) /\ Live(n, Globals)
    <3>1. k[Main] # Free /\ k[Globals] # Free
      <4>1. k[Main].tt = "thread" /\ k[Globals].tt = "table"
        BY <1>12 DEF Placed
      <4> QED BY <4>1, KindsAre
    <3> QED BY <3>1, <1>7, HeapAssumption DEF MarkedUp
  <2>2. \A u \in Range(t2) : Live(n, u)
    <3>1. \A u \in Range(t2) : u \in Slots /\ k[u].tt = "userdata"
      BY <1>12 DEF Placed
    <3>2. \A u \in Range(t2) : k[u] # Free
      BY <3>1, KindsAre
    <3> QED BY <3>1, <3>2, <1>7 DEF MarkedUp
  <2>3. /\ cs \in Seq(Slots) /\ cs # <<>> /\ cs[1] = Main /\ IsInjective(cs)
        /\ \A i \in DOMAIN cs : cs[i] \in Slots /\ h[cs[i]].tt = "thread"
        /\ \A i \in 1..Len(cs) - 1 : h[cs[i]].resumed = cs[i + 1]
        /\ DOMAIN cs = 1..Len(cs) /\ Len(cs) \in Nat
    BY <1>2, SeqParts DEF RootsLive, SlotSeqs
  <2>4. \A i \in DOMAIN cs : k[cs[i]] = h[cs[i]]
    BY <2>3 DEF MarkedUp
  <2> DEFINE A == {i \in 0..Len(cs) : i \in DOMAIN cs => Live(n, cs[i])}
  <2>5. 0 \in A
    BY <2>3
  <2>6. \A i \in 1..Len(cs) : i - 1 \in A => i \in A
    <3> SUFFICES ASSUME NEW i \in 1..Len(cs), i - 1 \in A PROVE Live(n, cs[i])
      BY <2>3
    <3>1. CASE i = 1
      BY <3>1, <2>1, <2>3
    <3>2. CASE i # 1
      <4>1. i - 1 \in 1..Len(cs) - 1 /\ i - 1 \in DOMAIN cs /\ (i - 1) + 1 = i /\ i \in DOMAIN cs
        BY <3>2, <2>3
      <4> DEFINE a == cs[i - 1]
                 b == cs[i]
      <4>2. a \in Slots /\ b \in Slots /\ k[a] = h[a] /\ h[a].tt = "thread" /\ h[a].resumed = b /\ h[b].tt = "thread"
        BY <4>1, <2>3, <2>4
      <4>3. Live(n, a)
        BY <4>1
      <4> HIDE DEF a
      <4>4. b \in Held(k, a)
        BY <4>2 DEF Held
      <4>5. ~IsWhite(c, b)
        BY <4>2, <4>3, <4>4, <1>8 DEF AllMarked
      <4>6. k[b] # Free
        <5>1. h[b] # Free
          BY <4>2, KindsAre
        <5> QED BY <5>1, <4>2 DEF MarkedUp
      <4> QED BY <4>2, <4>5, <4>6, <1>7
    <3> QED BY <3>1, <3>2
  <2>7. \A i \in DOMAIN cs : Live(n, cs[i])
    <3> HIDE DEF A
    <3>1. \A i \in 0..Len(cs) : i \in A
      BY <2>3, <2>5, <2>6, Induct
    <3> USE DEF A
    <3> QED BY <3>1, <2>3
  <2>8. /\ \A i \in DOMAIN cs : k[cs[i]].tt = "thread"
        /\ \A i \in 1..Len(cs) - 1 : k[cs[i]].resumed = cs[i + 1]
    <3>1. \A i \in 1..Len(cs) - 1 : i \in DOMAIN cs
      BY <2>3
    <3> QED BY <2>3, <2>4, <3>1
  <2> QED BY <2>1, <2>2, <2>3, <2>7, <2>8 DEF RootsLive, SlotSeqs
<1>14. Lists(k, n)
  <2>1. Range(<<>>) = {} /\ IsInjective(<<>>)
    BY Empty
  <2> QED BY <1>1, <2>1 DEF MarkedUp, Lists
<1>15. Cycle(k, n, t2)
  <2>1. DeadFinalized(k, n)
    BY <1>1, <1>4 DEF DeadFinalized, MarkedUp, IsDead, IsWhite, Whites
  <2>2. SweptStrings(k, n, 0)
    BY DEF SweptStrings
  <2> QED BY <1>1, <2>1, <2>2 DEF Cycle
<1>16. UpvalsOK(k)
  BY DEF MarkedUp
<1> QED BY <1>10, <1>11, <1>12, <1>13, <1>14, <1>15, <1>16 DEF Good, HeapInv

(* The atomic step.                                                        *)
Atomic(h, m, tmu, th, upvals, weak, again, sep, preserved, clear) ==
  /\ Remarks(h, m, th, upvals, weak, again)
  /\ sep = Separate(h, again, FALSE)
  /\ preserved = PropagateAll(sep.heap, MarkTmu(sep.heap, sep.g, tmu \o sep.separated))
  /\ clear = ClearTable(sep.heap, preserved)

(* What atomic establishes before the flip.                                *)
LEMMA AtomicMarks ==
  ASSUME NEW h, NEW m, NEW tmu, NEW cs, Good(h, m, tmu, cs, "open"), m.gcstate = "propagate",
         NEW th, NEW upvals, NEW weak, NEW again, NEW sep, NEW preserved, NEW clear,
         Atomic(h, m, tmu, th, upvals, weak, again, sep, preserved, clear)
  PROVE  MarkedUp(h, m, clear.heap, clear.g, tmu \o sep.separated)
<1> DEFINE ex == Range(tmu)
           t2 == tmu \o sep.separated
           k == sep.heap
           n == sep.g
           c == clear.heap
           f == clear.g
<1>1. MarkInv(h, m, ex, {}, 0) /\ WellFormed(h) /\ ~IsWhite(m, Main) /\ ~IsWhite(m, Globals)
  BY MarkingBegun
<1>2. Typed(h, m) /\ UpvalsOK(h) /\ Placed(h, m, tmu)
  BY DEF Good, HeapInv
<1>3. h \in [Slots -> Objects] /\ tmu \in Seq(Slots)
  BY <1>2 DEF Typed, Placed, SlotSeqs
<1>4. MarkInv(h, again, ex, {}, 3) /\ Further(m, again) /\ again.gray = <<>>
  BY <1>1, Remarked DEF Atomic
<1>5. Typed(h, again) /\ Placed(h, again, tmu)
  BY <1>2, <1>3, <1>4 DEF MarkInv, Further, Typed, Placed
<1>6. Separates(h, again, tmu, FALSE, sep)
  <2>1. sep = Separate(h, again, FALSE)
    BY DEF Atomic
  <2> QED BY <1>5, <2>1, SeparateStep
<1>7. /\ Lessened(h, k) /\ n \in Collectors
      /\ n.marked = again.marked /\ n.currentwhite = again.currentwhite
      /\ n.gray = again.gray /\ n.grayagain = again.grayagain /\ n.weak = again.weak
      /\ Placed(k, n, t2) /\ Range(t2) = Range(tmu) \cup Range(sep.separated)
      /\ sep.separated \in Seq(Slots)
      /\ \A u \in Slots : (h[u].tt = "userdata" /\ IsWhite(again, u)) => k[u].finalized
  BY <1>6 DEF Separates
<1>8. \A s \in Slots : IsOpen(h, s) => h[h[s].thread].tt = "thread"
  BY <1>2 DEF UpvalsOK, IsOpen
<1>9. t2 \in Seq(Slots) /\ \A u \in Range(t2) : u \in Slots /\ k[u].tt = "userdata"
  BY <1>7 DEF Placed, SlotSeqs
<1>10. preserved = PropagateAll(k, MarkTmu(k, n, t2)) /\ clear = ClearTable(k, preserved)
  BY DEF Atomic
<1>11. \A s \in Slots : IsWhite(n, s) <=> IsWhite(again, s)
  BY <1>7 DEF IsWhite
<1> HIDE DEF t2, k, n
<1>12. k \in [Slots -> Objects] /\ WellFormed(k) /\ \A s \in Slots : k[s].tt = h[s].tt
  BY <1>1, <1>7, <1>8, LessWellFormed DEF Lessened
<1>13. \A s \in Slots : IsOpen(k, s) => k[k[s].thread].tt = "thread"
  <2>1. UpvalsOK(k)
    BY <1>2, <1>3, <1>7, LessUpvalsOK
  <2> QED BY <2>1 DEF UpvalsOK, IsOpen
<1>14. MarkInv(k, n, Range(t2), {}, 3)
  <2>1. MarkInv(k, again, ex, {}, 3)
    BY <1>1, <1>4, <1>7, <1>8, LessMarkInv
  <2>2. SameMarks(again, n) /\ ex \subseteq Range(t2)
    BY <1>7 DEF SameMarks
  <2> QED BY <2>1, <2>2, MarkInvSame
<1> DEFINE t == MarkTmu(k, n, t2)
<1>15. MarkInv(k, t, {}, {}, 3) /\ Further(n, t) /\ \A u \in Range(t2) : ~IsWhite(t, u)
  BY <1>9, <1>12, <1>14, MarkTmuStep
<1> HIDE DEF t
<1>16. MarkInv(k, preserved, {}, {}, 3) /\ Further(t, preserved) /\ preserved.gray = <<>>
  <2>1. preserved = PropagateAll(k, t)
    BY <1>10 DEF t
  <2> QED BY <2>1, <1>12, <1>15, PropagateAllStep
<1>17. ClearedWell(k, preserved, c, f)
  BY <1>10, <1>12, <1>16, ClearTableStep
<1>18. /\ Lessened(k, c) /\ MarkInv(k, f, {}, {}, 3) /\ Further(preserved, f) /\ f.gray = <<>>
       /\ \A s \in Range(f.weak) : s \in Slots /\ AllMarked(c, f, s)
  BY <1>17 DEF ClearedWell
<1> HIDE DEF c, f
<1>19. Further(n, f)
  BY <1>15, <1>16, <1>18, FurtherTransitive
<1>20. \A s \in Slots : f.marked[s] \in {m.marked[s], "gray", "black"}
  <2>1. \A s \in Slots : again.marked[s] \in {m.marked[s], "gray", "black"}
    BY <1>4 DEF Further
  <2>2. \A s \in Slots : f.marked[s] \in {n.marked[s], "gray", "black"}
    BY <1>19 DEF Further
  <2> QED BY <2>1, <2>2, <1>7
<1>21. \A s \in Slots : ~IsWhite(n, s) => ~IsWhite(f, s)
  BY <1>19 DEF Further
<1>22. ~IsWhite(f, Main) /\ ~IsWhite(f, Globals)
  <2>1. ~IsWhite(again, Main) /\ ~IsWhite(again, Globals)
    BY <1>1, <1>4, HeapAssumption DEF Further
  <2> QED BY <2>1, <1>11, <1>21, HeapAssumption
<1>23. \A u \in Range(t2) : ~IsWhite(f, u)
  BY <1>9, <1>15, <1>16, <1>18 DEF Further
<1>24. \A s \in Slots : c[s].tt = h[s].tt /\ (c[s] = Free <=> h[s] = Free)
  <2>1. \A s \in Slots : k[s] = Free <=> h[s] = Free
    BY <1>3, <1>7, LessFree
  <2>2. \A s \in Slots : c[s] = Free <=> k[s] = Free
    BY <1>12, <1>18, LessFree
  <2> QED BY <2>1, <2>2, <1>12, <1>18 DEF Lessened
<1>25. \A s \in Slots : f.marked[s] \in {"gray", "black"} => AllMarked(c, f, s)
  <2> SUFFICES ASSUME NEW s \in Slots, f.marked[s] \in {"gray", "black"} PROVE AllMarked(c, f, s)
    OBVIOUS
  <2>1. MarkInv(c, f, {}, {}, 3)
    BY <1>12, <1>13, <1>18, LessMarkInv
  <2>2. Right(c, f, {}, 3, s)
    BY <2>1 DEF MarkInv
  <2>3. CASE f.marked[s] = "black"
    BY <2>2, <2>3 DEF Right, BlackRight
  <2>4. CASE f.marked[s] = "gray"
    <3>1. c[s].tt = "string" \/ IsOpen(c, s) \/ s \in Pending(f)
      BY <2>2, <2>4 DEF Right, GrayRight
    <3>2. CASE c[s].tt = "string"
      BY <3>2 DEF AllMarked, Held
    <3>3. CASE IsOpen(c, s)
      <4>1. Marked(f, UpvalValue(c, s)) /\ c[s].tt = "upval"
        BY <2>2, <2>4, <3>3 DEF Right, StageRight, IsOpen
      <4> QED BY <4>1 DEF AllMarked, Held, Marked
    <3>4. CASE s \in Pending(f)
      <4>1. s \in Range(f.grayagain) \/ s \in Range(f.weak)
        BY <3>4, <1>18, Empty DEF Pending
      <4>2. s \in Range(f.grayagain) => AllMarked(c, f, s)
        BY <2>2 DEF Right, StageRight
      <4> QED BY <4>1, <4>2, <1>18
    <3> QED BY <3>1, <3>2, <3>3, <3>4
  <2> QED BY <2>3, <2>4
<1>26. \A s \in Slots : (f.marked[s] = "black" => Blackens(c, s)) /\ (f.marked[s] = "gray" => Grayens(c, s))
  <2>1. MarkInv(c, f, {}, {}, 3)
    BY <1>12, <1>13, <1>18, LessMarkInv
  <2> QED BY <2>1 DEF MarkInv, Right, BlackRight, GrayRight
<1>27. \A s \in Slots : Sound(h, m, s) => Sound(c, m, s)
  <2> SUFFICES ASSUME NEW s \in Slots, Sound(h, m, s) PROVE Sound(c, m, s)
    OBVIOUS
  <2>1. Sound(k, m, s)
    BY <1>3, <1>7, <1>8, LessSound
  <2> QED BY <2>1, <1>12, <1>13, <1>18, LessSound
<1>28. \A s \in Slots : h[s].tt = "thread" => c[s] = h[s]
  BY <1>7, <1>18 DEF Lessened
<1>29. UpvalsOK(c)
  <2>1. UpvalsOK(k)
    BY <1>2, <1>3, <1>7, LessUpvalsOK
  <2> QED BY <2>1, <1>12, <1>18, LessUpvalsOK
<1>30. Placed(c, f, t2)
  <2>1. f.rootgc = n.rootgc
    BY <1>19 DEF Further
  <2> QED BY <2>1, <1>7, <1>18, LessPlaced
<1>31. \A u \in Slots : (c[u].tt = "userdata" /\ IsWhite(f, u)) => c[u].finalized
  <2> SUFFICES ASSUME NEW u \in Slots, c[u].tt = "userdata", IsWhite(f, u) PROVE c[u].finalized
    OBVIOUS
  <2>1. IsWhite(again, u)
    BY <1>11, <1>21
  <2>2. h[u].tt = "userdata" /\ k[u].tt = "userdata"
    BY <1>12, <1>24
  <2> QED BY <2>1, <2>2, <1>7, <1>18 DEF Lessened
<1>32. /\ c \in [Slots -> Objects] /\ f \in Collectors /\ f.currentwhite = m.currentwhite
       /\ \A s \in Slots : f.marked[s] = "none" <=> c[s] = Free
  <2>1. f.currentwhite = m.currentwhite
    BY <1>4, <1>7, <1>19 DEF Further
  <2>2. c \in [Slots -> Objects] /\ f \in Collectors
    BY <1>18 DEF Lessened, MarkInv
  <2>3. \A s \in Slots : f.marked[s] = "none" <=> k[s] = Free
    BY <1>18 DEF MarkInv
  <2>4. \A s \in Slots : k[s] = Free <=> c[s] = Free
    BY <1>12, <1>18, LessFree
  <2> QED BY <2>1, <2>2, <2>3, <2>4
<1>33. MarkedUp(h, m, c, f, t2)
  BY <1>18, <1>20, <1>22, <1>23, <1>24, <1>25, <1>26, <1>27, <1>28, <1>29, <1>30, <1>31, <1>32 DEF MarkedUp
<1> QED BY <1>33 DEF c, f, t2

(* atomic leads from the mark phase to the sweep, and keeps the invariant. *)
LEMMA AtomicStep ==
  ASSUME NEW h, NEW m, NEW tmu, NEW cs, Good(h, m, tmu, cs, "open"), m.gcstate = "propagate",
         NEW th, NEW upvals, NEW weak, NEW again, NEW sep, NEW preserved, NEW clear,
         Atomic(h, m, tmu, th, upvals, weak, again, sep, preserved, clear), NEW n, Flips(clear.g, n)
  PROVE  Good(clear.heap, n, tmu \o sep.separated, cs, "open")
BY AtomicMarks, Flipped

-----------------------------------------------------------------------------
(* The program's actions.  Now: the invariant while the state is open.     *)
Now == Good(heap, g, tmudata, callers, "open")
Then == Good(heap', g', tmudata', callers', "open")

(* The running thread is live, and so is what its registers hold.          *)
LEMMA Current ==
  ASSUME NEW h, NEW m, NEW tmu, NEW p, Good(h, m, tmu, callers, p)
  PROVE  /\ L \in Slots /\ h[L].tt = "thread" /\ Live(m, L) /\ h[L] \in ThreadObjects
         /\ \A r \in Registers : h[L].stack[r] \in Values /\ Fine(h, m, h[L].stack[r])
         /\ Len(callers) \in DOMAIN callers /\ callers \in Seq(Slots) /\ DOMAIN callers = 1..Len(callers)
<1>1. Typed(h, m) /\ Closed(h, m) /\ RootsLive(h, m, tmu, callers)
  BY DEF Good, HeapInv
<1>2. callers \in Seq(Slots) /\ callers # <<>>
  BY <1>1 DEF RootsLive, SlotSeqs
<1>3. Len(callers) \in DOMAIN callers /\ DOMAIN callers = 1..Len(callers)
  BY <1>2
<1>4. L \in Slots /\ h[L].tt = "thread" /\ Live(m, L)
  BY <1>1, <1>2, <1>3 DEF RootsLive, L
<1>5. h[L] \in ThreadObjects
  BY <1>1, <1>4, ListsAreOfSlots, Kinds
<1>6. \A r \in Registers : h[L].stack[r] \in Values
  BY <1>5, KindsAre
<1>7. \A r \in Registers : Fine(h, m, h[L].stack[r])
  BY <1>1, <1>4 DEF Closed, Sound
<1> QED BY <1>2, <1>3, <1>4, <1>5, <1>6, <1>7

(* A register of the running thread takes a value that is fine.            *)
LEMMA RegisterWritten ==
  ASSUME NEW h, NEW m, NEW tmu, NEW p, Good(h, m, tmu, callers, p), NEW r \in Registers,
         NEW v \in Values, Fine(h, m, v)
  PROVE  Good(InRegister(h, r, v), m, tmu, callers, p)
BY Current, StackWritten DEF InRegister

(* What is in a register, of a certain kind.                               *)
LEMMA HeldIs ==
  ASSUME Now, NEW tt, NEW o \in HeldOf(tt)
  PROVE  o \in Slots /\ heap[o].tt = tt /\ Live(g, o) /\ o \in Values /\ Fine(heap, g, o)
<1>1. o \in Slots /\ heap[o].tt = tt /\ o \in Range(heap[L].stack)
  BY DEF HeldOf
<1>2. heap[L].stack \in [Registers -> Values]
  BY Current, KindsAre DEF Now
<1>3. PICK r \in Registers : o = heap[L].stack[r]
  BY <1>1, <1>2 DEF Range
<1>4. Fine(heap, g, o) /\ o \in Values
  BY <1>3, Current DEF Now
<1> QED BY <1>1, <1>4 DEF Fine

(* A new object, linked, and held by a register.                           *)
LEMMA Creation ==
  ASSUME NEW h, NEW m, NEW tmu, NEW p, Good(h, m, tmu, callers, p), NEW s \in Slots, h[s] = Free,
         NEW x \in Objects, x.tt \in {"table", "userdata", "function", "thread"},
         x.tt = "thread" => x.openupval = <<>>,
         NEW n, Linked(m, n, s), Sound([h EXCEPT ![s] = x], n, s), NEW r \in Registers
  PROVE  Good(InRegister([h EXCEPT ![s] = x], r, s), n, tmu, callers, p)
<1> DEFINE k == [h EXCEPT ![s] = x]
<1>1. Typed(h, m)
  BY DEF Good
<1>2. k \in [Slots -> Objects] /\ k[s] = x /\ \A o \in Slots : o # s => k[o] = h[o]
  BY <1>1 DEF Typed
<1>3. x # Free
  BY KindsAre
<1>4. m.currentwhite # "none"
  BY <1>1 DEF Typed, Collectors, Whites
<1>5. /\ n \in Collectors /\ n.marked = [m.marked EXCEPT ![s] = m.currentwhite]
      /\ n.currentwhite = m.currentwhite /\ n.gcstate = m.gcstate /\ n.full = m.full
      /\ n.sweepstrgc = m.sweepstrgc /\ InLists(n) = InLists(m) /\ Entered(m, n, s)
  BY DEF Linked
<1>6. n.marked[s] = m.currentwhite /\ \A o \in Slots : o # s => n.marked[o] = m.marked[o]
  BY <1>1, <1>5 DEF Typed, Collectors
<1>7. k = [h EXCEPT ![s] = x] /\ Sound(k, n, s)
  OBVIOUS
<1> HIDE DEF k
<1>8. Typed(k, n)
  BY <1>1, <1>2, <1>3, <1>4, <1>5, <1>6 DEF Typed
<1>9. Good(k, n, tmu, callers, p)
  <2>1. x.tt # "free" /\ x.tt # "upval" /\ x.tt # "string"
    OBVIOUS
  <2>2. Adds(h, k, m, n, s, x)
    BY <1>5, <1>7, <1>8, <2>1 DEF Adds
  <2> QED BY <1>7, <2>1, <2>2, NewObject
<1>10. Fine(k, n, s) /\ s \in Values
  <2>1. Live(n, s)
    BY <1>5, <1>6, <1>8, MarksAre
  <2> QED BY <1>2, <2>1 DEF Fine, FirstClass, Values
<1>11. Good(InRegister(k, r, s), n, tmu, callers, p)
  BY <1>9, <1>10, RegisterWritten
<1> QED BY <1>11 DEF k

(* The slot a new object gets is free.                                     *)
LEMMA FreshIs ==
  ASSUME NEW S, S \subseteq Unused, S # {}, does \in Repertoires
  PROVE  (CHOOSE s \in S : TRUE) \in Slots /\ heap[CHOOSE s \in S : TRUE] = Free
         /\ (CHOOSE s \in S : TRUE) \in S
<1>1. (CHOOSE s \in S : TRUE) \in S
  BY Zenon
<1> QED BY <1>1, GcAssumption DEF Unused

(* The action CreateTable (luaH_new).                                      *)
LEMMA TableCreated ==
  ASSUME Now, does \in Repertoires, NEW r \in Registers, NEW flags \in does.flags, CreateTable(r, flags)
  PROVE  Then
<1>1. Fresh \in Slots /\ heap[Fresh] = Free
  BY FreshIs DEF Fresh, CreateTable, Creates
<1> DEFINE x == NewTable(flags)
           k == [heap EXCEPT ![Fresh] = x]
<1>2. g \in Collectors /\ heap \in [Slots -> Objects]
  BY DEF Now, Good, Typed
<1>3. Linked(g, Link(g, Fresh), Fresh)
  BY <1>1, <1>2, LinkIs
<1>4. <<>> \in UNION {[D -> Values] : D \in SUBSET Values} /\ DOMAIN <<>> = {}
  <2>1. <<>> \in [{} -> Values] /\ DOMAIN <<>> = {}
    OBVIOUS
  <2>2. {} \in SUBSET Values
    OBVIOUS
  <2> QED BY <2>1, <2>2
<1>5. flags \in Flags
  BY GcAssumption DEF Flags
<1>6. x \in TableObjects /\ x.meta = Nil /\ DOMAIN x.entries = {}
  BY <1>4, <1>5 DEF NewTable, TableObjects, Pointers
<1> HIDE DEF x
<1>7. x \in Objects /\ x.tt = "table"
  BY <1>6, KindsAre
<1>8. Sound(k, Link(g, Fresh), Fresh)
  <2>1. k[Fresh] = x /\ Nil \notin Slots
    BY <1>1, <1>2, HeapAssumption
  <2> HIDE DEF k
  <2> QED BY <2>1, <1>6, <1>7 DEF Sound, FineMeta
<1>9. Good(InRegister(k, r, Fresh), Link(g, Fresh), tmudata, callers, "open")
  BY <1>1, <1>3, <1>7, <1>8, Creation DEF Now
<1> QED BY <1>9 DEF CreateTable, Same, Settled, Then, x

(* The action CreateUserdata (luaS_newudata).                              *)
LEMMA UserdataCreated ==
  ASSUME Now, does \in Repertoires, NEW r \in Registers, CreateUserdata(r)
  PROVE  Then
<1>1. Fresh \in Slots /\ heap[Fresh] = Free
  BY FreshIs DEF Fresh, CreateUserdata, Creates
<1> DEFINE x == NewUserdata
           k == [heap EXCEPT ![Fresh] = x]
<1>2. g \in Collectors /\ heap \in [Slots -> Objects] /\ Placed(heap, g, tmudata)
  BY DEF Now, Good, Typed, HeapInv
<1>3. Main \in Range(g.rootgc)
  <2>1. Main \notin Range(tmudata) /\ heap[Main].tt = "thread"
    BY <1>2 DEF Placed
  <2>2. Main \in {s \in Slots : Listed(heap, s)}
    BY <2>1, HeapAssumption DEF Listed
  <2> QED BY <1>2, <2>1, <2>2 DEF Placed
<1>4. Linked(g, LinkUserdata(g, Fresh), Fresh)
  BY <1>1, <1>2, <1>3, LinkUserdataIs
<1>5. x \in UserdataObjects /\ x.meta = Nil
  BY DEF NewUserdata, UserdataObjects, Pointers
<1> HIDE DEF x
<1>6. x \in Objects /\ x.tt = "userdata"
  BY <1>5, KindsAre
<1>7. Sound(k, LinkUserdata(g, Fresh), Fresh)
  <2>1. k[Fresh] = x /\ Nil \notin Slots
    BY <1>1, <1>2, HeapAssumption
  <2> HIDE DEF k
  <2> QED BY <2>1, <1>5, <1>6 DEF Sound, FineMeta
<1>8. Good(InRegister(k, r, Fresh), LinkUserdata(g, Fresh), tmudata, callers, "open")
  BY <1>1, <1>4, <1>6, <1>7, Creation DEF Now
<1> QED BY <1>8 DEF CreateUserdata, Same, Settled, Then, x

(* The action CreateThread (luaE_newthread, luaB_cocreate).                *)
LEMMA ThreadCreated ==
  ASSUME Now, does \in Repertoires, NEW r \in Registers, NEW f \in Registers, CreateThread(r, f)
  PROVE  Then
<1>1. Fresh \in Slots /\ heap[Fresh] = Free
  BY FreshIs DEF Fresh, CreateThread, Creates
<1> DEFINE v == Register(f)
           x == [NewThread EXCEPT !.stack[1] = v]
           k == [heap EXCEPT ![Fresh] = x]
<1>2. g \in Collectors /\ heap \in [Slots -> Objects] /\ Typed(heap, g)
  BY DEF Now, Good, Typed
<1>3. Linked(g, Link(g, Fresh), Fresh)
  BY <1>1, <1>2, LinkIs
<1>4. v \in Values /\ Fine(heap, g, v)
  BY Current DEF Now, Register
<1>5. 1 \in Registers /\ Nil \in Values /\ Nil \notin Slots
  <2>1. Cardinality(Registers) \in Nat /\ Registers = 1..Cardinality(Registers)
    BY HeapAssumption, FS_CardinalityType
  <2> QED BY <2>1, HeapAssumption DEF Values
<1>6. /\ x \in ThreadObjects /\ x.openupval = <<>> /\ x.resumed = Nil
      /\ \A q \in Registers : x.stack[q] \in {Nil, v}
  <2> DEFINE stack == [[q \in Registers |-> Nil] EXCEPT ![1] = v]
  <2>1. stack \in [Registers -> Values] /\ \A q \in Registers : stack[q] \in {Nil, v}
    BY <1>4, <1>5
  <2>2. x = [tt |-> "thread", stack |-> stack, resumed |-> Nil, openupval |-> <<>>]
    BY DEF NewThread
  <2>3. <<>> \in Seq(Slots)
    BY Empty
  <2> HIDE DEF stack, x
  <2> QED BY <2>1, <2>2, <2>3 DEF ThreadObjects, Pointers
<1> HIDE DEF x, v
<1>7. x \in Objects /\ x.tt = "thread"
  BY <1>6, KindsAre
<1>8. Sound(k, Link(g, Fresh), Fresh)
  <2> DEFINE n == Link(g, Fresh)
  <2>1. k[Fresh] = x /\ \A s \in Slots : s # Fresh => k[s] = heap[s]
    BY <1>1, <1>2
  <2>2. \A s \in Slots : Live(g, s) => s # Fresh /\ Live(n, s)
    <3> SUFFICES ASSUME NEW s \in Slots, Live(g, s) PROVE s # Fresh /\ Live(n, s)
      OBVIOUS
    <3>1. s # Fresh
      BY <1>1, <1>2, MarksAre
    <3>2. n.marked = [g.marked EXCEPT ![Fresh] = g.currentwhite] /\ n.currentwhite = g.currentwhite
      BY <1>3 DEF Linked
    <3>3. n.marked[s] = g.marked[s]
      BY <1>2, <3>1, <3>2 DEF Collectors
    <3> HIDE DEF n
    <3> QED BY <3>1, <3>2, <3>3 DEF Live, OtherWhite
  <2> HIDE DEF n, k
  <2>3. Fine(k, n, v)
    BY <1>4, <2>1, <2>2 DEF Fine
  <2>4. Fine(k, n, Nil)
    BY <1>5 DEF Fine
  <2>5. Sound(k, n, Fresh)
    BY <1>6, <1>7, <2>1, <2>3, <2>4 DEF Sound
  <2> QED BY <2>5 DEF n
<1>9. Good(InRegister(k, r, Fresh), Link(g, Fresh), tmudata, callers, "open")
  BY <1>1, <1>3, <1>6, <1>7, <1>8, Creation DEF Now
<1> QED BY <1>9 DEF CreateThread, Same, Settled, Then, x, v

(* An upvalue open on the running thread's stack, dead or not, is used     *)
(* again; so is a string.                                                  *)
LEMMA Revived ==
  ASSUME NEW h, NEW m, NEW tmu, NEW cs, Good(h, m, tmu, cs, "open"), NEW s \in Slots, h[s] # Free, Sound(h, m, s),
         NEW n, n = (IF IsDead(m, s) THEN MakeWhite(m, s) ELSE m)
  PROVE  Good(h, n, tmu, cs, "open") /\ Live(n, s) /\ \A o \in Slots : Live(m, o) => Live(n, o)
<1>1. Typed(h, m) /\ Lists(h, m) /\ Cycle(h, m, tmu)
  BY DEF Good, HeapInv
<1>2. CASE IsDead(m, s)
  <2>1. IsWhite(m, s) /\ m.currentwhite # OtherWhite(m) /\ m.currentwhite # "none"
    BY <1>1, <1>2, MarksAre DEF IsDead, IsWhite, Whites
  <2>2. s \notin Range(InLists(m))
    BY <1>1, <2>1 DEF Lists, IsWhite
  <2>3. Good(h, MakeWhite(m, s), tmu, cs, "open")
    BY <2>1, <2>2, Whitened
  <2>4. MakeWhite(m, s).marked = [m.marked EXCEPT ![s] = m.currentwhite]
        /\ OtherWhite(MakeWhite(m, s)) = OtherWhite(m)
    BY <1>1, MakeWhiteIs
  <2> DEFINE w == MakeWhite(m, s)
  <2>5. n = w /\ w.marked = [m.marked EXCEPT ![s] = m.currentwhite] /\ OtherWhite(w) = OtherWhite(m)
        /\ Good(h, w, tmu, cs, "open")
    BY <1>2, <2>3, <2>4
  <2> HIDE DEF w
  <2>6. w.marked[s] = m.currentwhite /\ \A o \in Slots : o # s => w.marked[o] = m.marked[o]
    BY <1>1, <2>5 DEF Typed, Collectors
  <2> QED BY <2>1, <2>5, <2>6 DEF Live
<1>3. CASE ~IsDead(m, s)
  <2>1. Live(m, s)
    BY <1>1, <1>3 DEF Typed, IsDead, Live
  <2> QED BY <1>3, <2>1
<1> QED BY <1>2, <1>3

(* The action Intern (luaS_newlstr): a dead string that is found again is  *)
(* revived.                                                                *)
LEMMA Interned ==
  ASSUME Now, does \in Repertoires, NEW r \in Registers, NEW text \in Texts, Intern(r, text)
  PROVE  Then
<1>1. heap \in [Slots -> Objects] /\ g \in Collectors /\ Typed(heap, g)
  BY DEF Now, Good, Typed
<1>2. ASSUME NEW s \in Slots, IsA(heap, s, "string"),
             Settled(InRegister(heap, r, s), IF IsDead(g, s) THEN MakeWhite(g, s) ELSE g)
      PROVE  Good(heap', g', tmudata, callers, "open")
  <2> DEFINE n == IF IsDead(g, s) THEN MakeWhite(g, s) ELSE g
  <2>1. heap[s].tt = "string" /\ heap[s] # Free
    BY <1>2, KindsAre DEF IsA
  <2>2. Sound(heap, g, s)
    BY <2>1 DEF Sound
  <2>3. heap' = InRegister(heap, r, s) /\ g' = n
    BY <1>2 DEF Settled
  <2>4. n = (IF IsDead(g, s) THEN MakeWhite(g, s) ELSE g)
    OBVIOUS
  <2> HIDE DEF n
  <2>5. Good(heap, n, tmudata, callers, "open") /\ Live(n, s)
    BY <2>1, <2>2, <2>4, Revived DEF Now
  <2>6. s \in Values /\ Fine(heap, n, s)
    BY <2>1, <2>5 DEF Values, Fine, FirstClass
  <2> QED BY <2>3, <2>5, <2>6, RegisterWritten
<1>3. ASSUME Unused # {}, Settled(InRegister([heap EXCEPT ![Fresh] = NewString(text)], r, Fresh), MakeWhite(g, Fresh))
      PROVE  Good(heap', g', tmudata, callers, "open")
  <2>1. Fresh \in Slots /\ heap[Fresh] = Free
    BY <1>3, FreshIs DEF Fresh
  <2> DEFINE x == NewString(text)
             k == [heap EXCEPT ![Fresh] = x]
             n == MakeWhite(g, Fresh)
  <2>2. x \in Objects /\ x.tt = "string"
    <3>1. x \in StringObjects
      BY DEF NewString, StringObjects
    <3> QED BY <3>1, KindsAre
  <2>3. Painted(g, n, Fresh, g.currentwhite)
    <3>1. g.currentwhite \in Marks
      BY <1>1 DEF Collectors, Whites, Marks, Colours
    <3> QED BY <1>1, <2>1, <3>1, PaintIs DEF MakeWhite
  <2>4. heap' = InRegister(k, r, Fresh) /\ g' = n
    BY <1>3 DEF Settled
  <2>5. k \in [Slots -> Objects] /\ k[Fresh] = x /\ \A o \in Slots : o # Fresh => k[o] = heap[o]
    BY <1>1, <2>1, <2>2
  <2>6. k = [heap EXCEPT ![Fresh] = x]
    OBVIOUS
  <2> HIDE DEF x, k, n
  <2>7. n.marked = [g.marked EXCEPT ![Fresh] = g.currentwhite]
    <3>1. n.marked \in [Slots -> Marks] /\ g.marked \in [Slots -> Marks]
      BY <1>1, <2>3 DEF Painted, Collectors
    <3> QED BY <3>1, <2>1, <2>3 DEF Painted
  <2>8. g.currentwhite # "none" /\ x # Free
    BY <1>1, <2>2, KindsAre DEF Collectors, Whites
  <2>9. Typed(k, n)
    BY <1>1, <2>3, <2>5, <2>8 DEF Typed, Painted
  <2>10. Sound(k, n, Fresh)
    BY <2>2, <2>5 DEF Sound
  <2>11. Good(k, n, tmudata, callers, "open")
    <3>1. /\ n.currentwhite = g.currentwhite /\ n.gcstate = g.gcstate /\ n.full = g.full
          /\ n.sweepstrgc = g.sweepstrgc /\ InLists(n) = InLists(g) /\ n.rootgc = g.rootgc /\ n.sweepgc = g.sweepgc
      BY <2>3 DEF Painted
    <3>2. x.tt # "free" /\ x.tt # "upval" /\ x.tt # "thread"
      BY <2>2
    <3>3. Good(heap, g, tmudata, callers, "open")
      BY DEF Now
    <3>4. IF x.tt = "string" THEN n.rootgc = g.rootgc /\ n.sweepgc = g.sweepgc ELSE Entered(g, n, Fresh)
      BY <2>2, <3>1
    <3>5. x.tt = "thread" => x.openupval = <<>>
      BY <3>2
    <3>6. Adds(heap, k, g, n, Fresh, x)
      BY <2>6, <2>7, <2>9, <3>1, <3>4 DEF Adds
    <3> QED BY <2>1, <2>2, <2>10, <3>2, <3>3, <3>5, <3>6, NewObject
  <2>12. Fine(k, n, Fresh) /\ Fresh \in Values
    <3>1. Live(n, Fresh)
      BY <2>1, <2>3, <2>9, MarksAre DEF Painted
    <3> QED BY <2>1, <2>2, <2>5, <3>1 DEF Fine, FirstClass, Values
  <2> QED BY <2>4, <2>11, <2>12, RegisterWritten
<1>4. tmudata' = tmudata /\ callers' = callers
  BY DEF Intern, Same
<1>5. Good(heap', g', tmudata, callers, "open")
  BY <1>2, <1>3 DEF Intern
<1> QED BY <1>4, <1>5 DEF Then

(* A function whose upvalue is u, once u is there and live.                *)
LEMMA FunctionOver ==
  ASSUME NEW h, NEW m, NEW tmu, Good(h, m, tmu, callers, "open"), NEW s \in Slots, h[s] = Free,
         NEW u \in Slots, h[u].tt = "upval", Live(m, u), NEW n, Linked(m, n, s), NEW r \in Registers
  PROVE  Good(InRegister([h EXCEPT ![s] = NewFunction(<<u>>)], r, s), n, tmu, callers, "open")
<1> DEFINE x == NewFunction(<<u>>)
           k == [h EXCEPT ![s] = x]
<1>1. Typed(h, m) /\ h \in [Slots -> Objects] /\ m \in Collectors
  BY DEF Good, Typed
<1>2. <<u>> \in Seq(Slots) /\ Range(<<u>>) = {u} /\ <<u>> # <<>>
  BY Single
<1>3. x \in FunctionObjects /\ x.upvals = <<u>>
  BY <1>2 DEF NewFunction, FunctionObjects
<1>4. k[s] = x /\ \A o \in Slots : o # s => k[o] = h[o]
  BY <1>1
<1> HIDE DEF x
<1>5. x \in Objects /\ x.tt = "function"
  BY <1>3, KindsAre
<1>6. u # s /\ k[u] = h[u]
  <2>1. u # s
    BY <1>1, MarksAre
  <2> QED BY <1>4, <2>1
<1>7. Live(n, u)
  <2>1. n.marked = [m.marked EXCEPT ![s] = m.currentwhite] /\ n.currentwhite = m.currentwhite
    BY DEF Linked
  <2>2. n.marked[u] = m.marked[u]
    BY <1>1, <1>6, <2>1 DEF Collectors
  <2> QED BY <2>1, <2>2 DEF Live, OtherWhite
<1>8. Sound(k, n, s)
  <2> HIDE DEF k
  <2>1. FineUpval(k, n, u)
    BY <1>6, <1>7 DEF FineUpval
  <2> QED BY <2>1, <1>2, <1>3, <1>4, <1>5 DEF Sound
<1>9. Good(InRegister(k, r, s), n, tmu, callers, "open")
  BY <1>5, <1>8, Creation
<1> QED BY <1>9 DEF x

(* The action CreateFunction (OP_CLOSURE, luaF_findupval).                 *)
LEMMA FunctionCreated ==
  ASSUME Now, does \in Repertoires, NEW r \in Registers, NEW c \in Captured, CreateFunction(r, c)
  PROVE  Then
<1>1. /\ heap \in [Slots -> Objects] /\ g \in Collectors /\ Typed(heap, g) /\ UpvalsOK(heap)
      /\ Good(heap, g, tmudata, callers, "open")
  BY DEF Now, Good, Typed, HeapInv
<1>2. Fresh \in Slots /\ heap[Fresh] = Free /\ Fresh \in Unused
  BY FreshIs DEF Fresh, CreateFunction, Creates
<1>3. L \in Slots /\ heap[L].tt = "thread" /\ Live(g, L) /\ heap[L] \in ThreadObjects
      /\ \A q \in Registers : heap[L].stack[q] \in Values /\ Fine(heap, g, heap[L].stack[q])
  BY <1>1, Current
<1> DEFINE open == heap[L].openupval
<1>4. open \in Seq(Slots) /\ Range(open) \subseteq Slots /\ IsInjective(open)
      /\ \A u \in Range(open) : OpenIn(heap, L, u)
  <2>1. open \in Seq(Slots)
    BY <1>3, KindsAre
  <2>2. Range(open) \subseteq Slots
    BY <2>1, SeqParts
  <2> QED BY <1>1, <1>3, <2>1, <2>2 DEF UpvalsOK
<1>5. ASSUME NEW u \in Range(open),
             Settled(InRegister([heap EXCEPT ![Fresh] = NewFunction(<<u>>)], r, Fresh),
                     Link(IF IsDead(g, u) THEN MakeWhite(g, u) ELSE g, Fresh))
      PROVE  Good(heap', g', tmudata, callers, "open")
  <2> DEFINE m == IF IsDead(g, u) THEN MakeWhite(g, u) ELSE g
  <2>1. u \in Slots /\ heap[u].tt = "upval" /\ heap[u].open /\ heap[u].thread = L
    BY <1>4 DEF OpenIn
  <2>2. heap[u] # Free /\ heap[u].level \in Registers
    BY <2>1, <1>1, Kinds, KindsAre
  <2>3. Sound(heap, g, u)
    BY <1>3, <2>1, <2>2 DEF Sound, UpvalValue
  <2>4. heap' = InRegister([heap EXCEPT ![Fresh] = NewFunction(<<u>>)], r, Fresh) /\ g' = Link(m, Fresh)
    BY <1>5 DEF Settled
  <2>5. m = (IF IsDead(g, u) THEN MakeWhite(g, u) ELSE g)
    OBVIOUS
  <2> HIDE DEF m, open
  <2>6. Good(heap, m, tmudata, callers, "open") /\ Live(m, u)
    BY <1>1, <2>1, <2>2, <2>3, <2>5, Revived
  <2>7. Linked(m, Link(m, Fresh), Fresh)
    <3>1. m \in Collectors
      BY <2>6 DEF Good, Typed
    <3> QED BY <3>1, <1>2, LinkIs
  <2> QED BY <1>2, <2>1, <2>4, <2>6, <2>7, FunctionOver
<1>6. ASSUME \A u \in Range(open) : heap[u].level # c,
             Unused \ {Fresh} # {},
             NEW u, u = CHOOSE s \in Unused \ {Fresh} : TRUE,
             NEW list, list = Those(open, {v \in Range(open) : heap[v].level > c}) \o <<u>>
                                \o Those(open, {v \in Range(open) : heap[v].level < c}),
             Settled(InRegister([heap EXCEPT ![Fresh] = NewFunction(<<u>>), ![u] = NewUpval(L, c),
                                             ![L].openupval = list], r, Fresh),
                     MakeWhite(Link(g, Fresh), u))
      PROVE  Good(heap', g', tmudata, callers, "open")
  <2>1. u \in Slots /\ heap[u] = Free /\ u # Fresh
    <3>1. Unused \ {Fresh} \subseteq Unused
      OBVIOUS
    <3>2. u \in Unused \ {Fresh} /\ u \in Slots /\ heap[u] = Free
      BY <1>6, <3>1, FreshIs
    <3> QED BY <3>2
  <2>2. c \in Registers
    BY GcAssumption
  <2>3. list \in Seq(Slots) /\ IsInjective(list) /\ Range(list) = Range(open) \cup {u}
    <3> DEFINE A == {v \in Range(open) : heap[v].level > c}
               B == {v \in Range(open) : heap[v].level < c}
    <3>1. A \cap B = {} /\ A \cup B = Range(open)
      <4>1. \A v \in Range(open) : heap[v].level \in Registers
        BY <1>1, <1>4, Kinds, KindsAre DEF OpenIn
      <4>2. Registers \subseteq Nat
        <5>1. Cardinality(Registers) \in Nat /\ Registers = 1..Cardinality(Registers)
          BY HeapAssumption, FS_CardinalityType
        <5> QED BY <5>1
      <4>3. \A v \in Range(open) : heap[v].level \in Nat /\ c \in Nat /\ heap[v].level # c
        BY <1>6, <2>2, <4>1, <4>2
      <4> QED BY <4>3
    <3>2. u \notin Range(open)
      <4>1. heap[u].tt = "free"
        BY <2>1, KindsAre
      <4> QED BY <4>1, <1>4 DEF OpenIn
    <3>3. list = Those(open, A) \o <<u>> \o Those(open, B)
      BY <1>6
    <3>4. A \subseteq Range(open) /\ B \subseteq Range(open)
      OBVIOUS
    <3> HIDE DEF A, B, open
    <3> DEFINE P == Those(open, A)
               Q == Those(open, B)
    <3>5. P \in Seq(Slots) /\ Range(P) = A /\ IsInjective(P)
      <4>1. Range(P) = Range(open) \cap A /\ P \in Seq(Slots) /\ IsInjective(P)
        BY <1>4, Filtered
      <4> HIDE DEF P
      <4> QED BY <3>4, <4>1
    <3>6. Q \in Seq(Slots) /\ Range(Q) = B /\ IsInjective(Q)
      <4>1. Range(Q) = Range(open) \cap B /\ Q \in Seq(Slots) /\ IsInjective(Q)
        BY <1>4, Filtered
      <4> HIDE DEF Q
      <4> QED BY <3>4, <4>1
    <3>7. <<u>> \in Seq(Slots) /\ Range(<<u>>) = {u} /\ IsInjective(<<u>>)
      BY <2>1, Single
    <3>8. list = P \o <<u>> \o Q
      BY <3>3
    <3> DEFINE O == <<u>>
    <3> HIDE DEF P, Q, O
    <3>9. P \o O \in Seq(Slots) /\ Range(P \o O) = A \cup {u} /\ IsInjective(P \o O)
      <4>1. O \in Seq(Slots) /\ Range(O) = {u} /\ IsInjective(O) /\ Range(P) \cap Range(O) = {}
        BY <3>2, <3>4, <3>5, <3>7 DEF O
      <4> QED BY <3>5, <4>1, Joined
    <3> DEFINE PO == P \o O
    <3>10. PO \in Seq(Slots) /\ Range(PO) = A \cup {u} /\ IsInjective(PO)
      BY <3>9
    <3> HIDE DEF PO
    <3>11. PO \o Q \in Seq(Slots) /\ Range(PO \o Q) = (A \cup {u}) \cup B /\ IsInjective(PO \o Q)
      <4>1. Range(PO) \cap Range(Q) = {}
        BY <3>1, <3>2, <3>4, <3>6, <3>10
      <4> QED BY <3>6, <3>10, <4>1, Joined
    <3>12. list = PO \o Q
      BY <3>8 DEF PO, O
    <3> QED BY <3>1, <3>11, <3>12
  <2> DEFINE h == [heap EXCEPT ![u] = NewUpval(L, c), ![L].openupval = list]
             m == MakeWhite(g, u)
             n == MakeWhite(Link(g, Fresh), u)
  <2>4. Good(h, m, tmudata, callers, "open")
    <3> HIDE DEF open
    <3>1. Opens(heap, h, u, L, c, list)
      BY DEF Opens
    <3>2. Range(list) = Range(heap[L].openupval) \cup {u}
      BY <2>3 DEF open
    <3> HIDE DEF h
    <3> QED BY <1>1, <1>3, <2>1, <2>2, <2>3, <3>1, <3>2, OpenedUpval
  <2>5. h[Fresh] = Free /\ h[u].tt = "upval"
    <3>1. Fresh # L /\ u # L
      BY <1>2, <1>3, <2>1, KindsAre
    <3>2. h[u] = NewUpval(L, c) /\ h[Fresh] = heap[Fresh]
      BY <1>1, <1>2, <2>1, <3>1
    <3> HIDE DEF h
    <3> QED BY <3>2, <1>2 DEF NewUpval
  <2>6. heap' = InRegister([h EXCEPT ![Fresh] = NewFunction(<<u>>)], r, Fresh) /\ g' = n
    <3>1. Fresh # L /\ u # L
      BY <1>2, <1>3, <2>1, KindsAre
    <3> DEFINE f == NewFunction(<<u>>)
               v == NewUpval(L, c)
    <3>2. [heap EXCEPT ![Fresh] = f, ![u] = v, ![L].openupval = list] =
          [[heap EXCEPT ![u] = v, ![L].openupval = list] EXCEPT ![Fresh] = f]
      <4> HIDE DEF f, v
      <4> QED BY <1>1, <1>2, <2>1, <1>3, <3>1
    <3> QED BY <1>6, <3>2 DEF Settled
  <2>7. Linked(m, n, Fresh)
    <3> DEFINE e == Link(g, Fresh)
    <3>1. Linked(g, e, Fresh)
      BY <1>1, <1>2, LinkIs
    <3> HIDE DEF e
    <3>2. e \in Collectors /\ e.marked = [g.marked EXCEPT ![Fresh] = g.currentwhite]
          /\ e.currentwhite = g.currentwhite /\ e.gcstate = g.gcstate /\ e.full = g.full
          /\ e.sweepstrgc = g.sweepstrgc /\ InLists(e) = InLists(g) /\ Entered(g, e, Fresh)
          /\ g.currentwhite \in Marks
      BY <1>1, <3>1 DEF Linked, Collectors, Whites, Marks, Colours
    <3>3. Painted(g, m, u, g.currentwhite)
      BY <1>1, <2>1, <3>2, PaintIs DEF MakeWhite
    <3>4. Painted(e, n, u, g.currentwhite)
      BY <2>1, <3>2, PaintIs DEF MakeWhite, e
    <3> HIDE DEF m, n
    <3>5. n.marked = [m.marked EXCEPT ![Fresh] = m.currentwhite]
      <4>1. n.marked \in [Slots -> Marks] /\ m.marked \in [Slots -> Marks] /\ g.marked \in [Slots -> Marks]
        BY <1>1, <3>3, <3>4 DEF Painted, Collectors
      <4>2. m.currentwhite = g.currentwhite
        BY <3>3 DEF Painted
      <4>3. \A o \in Slots : n.marked[o] = IF o = Fresh THEN m.currentwhite ELSE m.marked[o]
        <5>1. \A o \in Slots : e.marked[o] = IF o = Fresh THEN g.currentwhite ELSE g.marked[o]
          BY <4>1, <3>2, <1>2
        <5> QED BY <5>1, <4>2, <2>1, <3>3, <3>4 DEF Painted
      <4> QED BY <4>1, <4>3, <1>2
    <3>6. Entered(m, n, Fresh)
      <4>1. m.rootgc = g.rootgc /\ m.sweepgc = g.sweepgc /\ n.rootgc = e.rootgc /\ n.sweepgc = e.sweepgc
        BY <3>3, <3>4 DEF Painted
      <4> QED BY <4>1, <3>2 DEF Entered
    <3>7. /\ n \in Collectors /\ n.currentwhite = m.currentwhite /\ n.gcstate = m.gcstate /\ n.full = m.full
          /\ n.sweepstrgc = m.sweepstrgc /\ InLists(n) = InLists(m)
      BY <3>2, <3>3, <3>4 DEF Painted
    <3> QED BY <3>5, <3>6, <3>7 DEF Linked
  <2>8. Live(m, u)
    <3>1. Painted(g, m, u, g.currentwhite)
      <4>1. g.currentwhite \in Marks
        BY <1>1 DEF Collectors, Whites, Marks, Colours
      <4> QED BY <1>1, <2>1, <4>1, PaintIs DEF MakeWhite
    <3>2. m.marked[u] = m.currentwhite /\ Typed(h, m)
      BY <3>1, <2>4 DEF Painted, Good
    <3> HIDE DEF h, m
    <3> QED BY <2>1, <3>2, MarksAre
  <2> HIDE DEF h, m, n
  <2> QED BY <1>2, <2>1, <2>4, <2>5, <2>6, <2>7, <2>8, FunctionOver
<1>7. tmudata' = tmudata /\ callers' = callers
  BY DEF CreateFunction, Same
<1>8. Good(heap', g', tmudata, callers, "open")
  BY <1>5, <1>6 DEF CreateFunction
<1> QED BY <1>7, <1>8 DEF Then

-----------------------------------------------------------------------------
(* Registers, tables and metatables.                                       *)

(* A table the program can index, and what it gets from it.                *)
LEMMA TablesAre ==
  ASSUME Now, NEW t \in Tables
  PROVE  /\ t \in Slots /\ heap[t].tt = "table" /\ Live(g, t) /\ heap[t] \in TableObjects
         /\ \A k \in DOMAIN heap[t].entries : /\ k \in Values /\ Fine(heap, g, k)
                                              /\ heap[t].entries[k] \in Values
                                              /\ Fine(heap, g, heap[t].entries[k])
<1>1. Typed(heap, g) /\ Closed(heap, g) /\ Placed(heap, g, tmudata) /\ RootsLive(heap, g, tmudata, callers)
  BY DEF Now, Good, HeapInv
<1>2. t \in Slots /\ heap[t].tt = "table" /\ Live(g, t)
  <2>1. CASE t \in HeldOf("table")
    BY <2>1, HeldIs
  <2>2. CASE t = Globals
    BY <2>2, <1>1, HeapAssumption DEF Placed, RootsLive
  <2>3. t \in HeldOf("table") \/ t = Globals
    BY DEF Tables
  <2> QED BY <2>1, <2>2, <2>3
<1>3. heap[t] \in TableObjects
  BY <1>1, <1>2, Kinds DEF Typed
<1>4. \A k \in DOMAIN heap[t].entries : Fine(heap, g, k) /\ Fine(heap, g, heap[t].entries[k])
  BY <1>1, <1>2 DEF Closed, Sound
<1>5. \A k \in DOMAIN heap[t].entries : k \in Values /\ heap[t].entries[k] \in Values
  BY <1>3 DEF TableObjects
<1> QED BY <1>2, <1>3, <1>4, <1>5

(* What the program has in its hands goes to a register of its own.        *)
LEMMA Taken ==
  ASSUME Now, NEW r \in Registers, NEW v \in Values, Fine(heap, g, v),
         Same, UNCHANGED callers, Settled(InRegister(heap, r, v), g)
  PROVE  Then
<1>1. Good(InRegister(heap, r, v), g, tmudata, callers, "open")
  BY RegisterWritten DEF Now
<1> QED BY <1>1 DEF Same, Settled, Then

(* The action SetNil.                                                      *)
LEMMA NilTaken ==
  ASSUME Now, NEW r \in Registers, SetNil(r)
  PROVE  Then
<1>1. Nil \in Values /\ Fine(heap, g, Nil)
  BY HeapAssumption DEF Values, Fine
<1> QED BY <1>1, Taken DEF SetNil

(* The actions GetTable and NextKey.                                       *)
LEMMA EntryTaken ==
  ASSUME Now, NEW r \in Registers, NEW t \in Tables, NEW k \in DOMAIN heap[t].entries,
         GetTable(t, k, r) \/ NextKey(t, k, r)
  PROVE  Then
<1>1. /\ k \in Values /\ Fine(heap, g, k)
      /\ heap[t].entries[k] \in Values /\ Fine(heap, g, heap[t].entries[k])
  BY TablesAre
<1>2. CASE GetTable(t, k, r)
  <2> DEFINE v == heap[t].entries[k]
  <2>1. v \in Values /\ Fine(heap, g, v) /\ Same /\ UNCHANGED callers /\ Settled(InRegister(heap, r, v), g)
    BY <1>1, <1>2 DEF GetTable
  <2> HIDE DEF v
  <2> QED BY <2>1, Taken
<1>3. CASE NextKey(t, k, r)
  <2>1. Same /\ UNCHANGED callers /\ Settled(InRegister(heap, r, k), g)
    BY <1>3 DEF NextKey
  <2> QED BY <1>1, <2>1, Taken
<1> QED BY <1>2, <1>3

(* The upvalue of a function the program holds.                            *)
LEMMA UpvalIs ==
  ASSUME Now, NEW f \in HeldOf("function"), NEW u, u = heap[f].upvals[1]
  PROVE  /\ u \in Slots /\ heap[u].tt = "upval" /\ Live(g, u)
         /\ UpvalValue(heap, u) \in Values /\ Fine(heap, g, UpvalValue(heap, u))
         /\ heap[u].thread \in Slots /\ heap[u].level \in Registers /\ heap[u].open \in BOOLEAN
         /\ heap[u].open => heap[heap[u].thread].tt = "thread"
<1>1. Typed(heap, g) /\ Closed(heap, g) /\ Good(heap, g, tmudata, callers, "open")
  BY DEF Now, Good, HeapInv
<1>2. f \in Slots /\ heap[f].tt = "function" /\ Live(g, f)
  BY HeldIs
<1>3. heap[f].upvals \in Seq(Slots) /\ heap[f].upvals # <<>>
  BY <1>1, <1>2, Kinds, KindsAre DEF Typed, Closed, Sound
<1>4. u \in Slots /\ u \in Range(heap[f].upvals)
  <2>1. 1 \in DOMAIN heap[f].upvals
    BY <1>3
  <2> QED BY <1>3, <2>1, SeqParts DEF Range
<1>5. heap[u].tt = "upval" /\ Live(g, u)
  BY <1>1, <1>2, <1>4 DEF Closed, Sound, FineUpval
<1>6. /\ heap[u].thread \in Slots /\ heap[u].level \in Registers /\ heap[u].open \in BOOLEAN
      /\ heap[u].value \in Values
      /\ heap[u].open => heap[heap[u].thread].tt = "thread"
  BY <1>1, <1>4, <1>5, OpenUpvalThread
<1>7. Fine(heap, g, UpvalValue(heap, u))
  BY <1>1, <1>4, <1>5 DEF Closed, Sound
<1>8. UpvalValue(heap, u) \in Values
  <2>1. CASE heap[u].open
    <3>1. heap[heap[u].thread].stack \in [Registers -> Values]
      BY <1>1, <1>6, <2>1, Kinds, KindsAre DEF Typed
    <3> QED BY <1>6, <2>1, <3>1 DEF UpvalValue
  <2>2. CASE ~heap[u].open
    BY <1>6, <2>2 DEF UpvalValue
  <2> QED BY <2>1, <2>2
<1> QED BY <1>4, <1>5, <1>6, <1>7, <1>8

(* The action GetUpval.                                                    *)
LEMMA UpvalTaken ==
  ASSUME Now, NEW r \in Registers, NEW f \in HeldOf("function"), GetUpval(f, r)
  PROVE  Then
<1> DEFINE u == heap[f].upvals[1]
           v == UpvalValue(heap, u)
<1>1. v \in Values /\ Fine(heap, g, v)
  BY UpvalIs
<1>2. Same /\ UNCHANGED callers /\ Settled(InRegister(heap, r, v), g)
  BY DEF GetUpval
<1> HIDE DEF v
<1> QED BY <1>1, <1>2, Taken

(* The action SetUpval: through the stack of a thread, or with a barrier.  *)
LEMMA UpvalSet ==
  ASSUME Now, NEW r \in Registers, NEW f \in HeldOf("function"), SetUpval(f, r)
  PROVE  Then
<1> DEFINE u == heap[f].upvals[1]
           v == Register(r)
           n == Barrier(heap, g, u, v)
<1>1. /\ u \in Slots /\ heap[u].tt = "upval" /\ Live(g, u)
      /\ heap[u].thread \in Slots /\ heap[u].level \in Registers /\ heap[u].open \in BOOLEAN
      /\ heap[u].open => heap[heap[u].thread].tt = "thread"
  BY UpvalIs
<1>2. v \in Values /\ Fine(heap, g, v) /\ Good(heap, g, tmudata, callers, "open")
  BY Current DEF Now, Register
<1>3. /\ Settled(IF heap[u].open THEN [heap EXCEPT ![heap[u].thread].stack[heap[u].level] = v]
                 ELSE [heap EXCEPT ![u].value = v], n)
      /\ Same /\ UNCHANGED callers
  BY DEF SetUpval
<1> HIDE DEF u, v
<1>4. BarrierDone(heap, g, n, tmudata, callers, u, v)
  BY <1>1, <1>2, BarrierStep
<1> HIDE DEF n
<1>5. Good(heap, n, tmudata, callers, "open") /\ Allowed(n, "open", u, v) /\ Fine(heap, n, v)
  BY <1>2, <1>4 DEF BarrierDone, Fine
<1>6. CASE heap[u].open
  <2> DEFINE th == heap[u].thread
             c == heap[u].level
  <2>1. th \in Slots /\ c \in Registers /\ heap[th].tt = "thread"
    BY <1>1, <1>6
  <2>2. heap' = [heap EXCEPT ![th].stack[c] = v] /\ g' = n
    BY <1>3, <1>6 DEF Settled
  <2> HIDE DEF th, c
  <2>3. Good([heap EXCEPT ![th].stack[c] = v], n, tmudata, callers, "open")
    BY <1>2, <1>5, <2>1, StackWritten
  <2> QED BY <1>3, <2>2, <2>3 DEF Same, Then
<1>7. CASE ~heap[u].open
  <2>1. heap' = [heap EXCEPT ![u].value = v] /\ g' = n
    BY <1>3, <1>7 DEF Settled
  <2>2. Good([heap EXCEPT ![u].value = v], n, tmudata, callers, "open")
    BY <1>1, <1>2, <1>5, <1>7, ValueWritten
  <2> QED BY <1>3, <2>1, <2>2 DEF Same, Then
<1> QED BY <1>6, <1>7

(* The action SetMetatable (lua_setmetatable, with its barrier).           *)
LEMMA MetatableSet ==
  ASSUME Now, NEW o \in HeldOf("table") \cup HeldOf("userdata"), NEW meta \in Metatables(o),
         SetMetatable(o, meta)
  PROVE  Then
<1> DEFINE n == Barrier(heap, g, o, meta)
<1>1. o \in Slots /\ heap[o].tt \in {"table", "userdata"} /\ Live(g, o)
  BY HeldIs
<1>2. meta \in HeldOf("table") \/ meta = Nil
  BY DEF Metatables
<1>3. meta \in Pointers /\ FineMeta(heap, g, meta) /\ Fine(heap, g, meta)
  <2>1. CASE meta \in HeldOf("table")
    BY <2>1, HeldIs DEF Pointers, FineMeta
  <2>2. CASE meta = Nil
    BY <2>2, HeapAssumption DEF Pointers, FineMeta, Fine
  <2> QED BY <1>2, <2>1, <2>2
<1>4. Good(heap, g, tmudata, callers, "open")
  BY DEF Now
<1>5. BarrierDone(heap, g, n, tmudata, callers, o, meta)
  BY <1>1, <1>3, <1>4, BarrierStep
<1>6. Settled([heap EXCEPT ![o].meta = meta], n) /\ Same /\ UNCHANGED callers
  BY DEF SetMetatable
<1> HIDE DEF n
<1>7. /\ Good(heap, n, tmudata, callers, "open") /\ Allowed(n, "open", o, meta)
      /\ FineMeta(heap, n, meta) /\ Live(n, o)
  BY <1>1, <1>3, <1>5 DEF BarrierDone, FineMeta
<1>8. Good([heap EXCEPT ![o].meta = meta], n, tmudata, callers, "open")
  BY <1>1, <1>3, <1>7, MetaWritten
<1> QED BY <1>6, <1>8 DEF Same, Settled, Then

(* luaH_newkey's barrier for a new key.                                    *)
LEMMA Keyed ==
  ASSUME Now, NEW t \in Tables, NEW k \in Keys,
         NEW m, m = IF k \in DOMAIN heap[t].entries THEN g ELSE Barrier(heap, g, t, k)
  PROVE  /\ BarrierDone(heap, g, m, tmudata, callers, t, k)
         /\ k \in Values /\ Fine(heap, g, k)
<1>1. /\ t \in Slots /\ heap[t].tt = "table" /\ Live(g, t)
      /\ Good(heap, g, tmudata, callers, "open")
  BY TablesAre DEF Now
<1>2. k \in Values /\ Fine(heap, g, k)
  <2>1. CASE k = Number
    BY <2>1, HeapAssumption DEF Values, Fine
  <2>2. CASE k \in Range(heap[L].stack) \cap Slots
    <3>1. heap[L].stack \in [Registers -> Values]
      BY Current, KindsAre DEF Now
    <3>2. PICK r \in Registers : k = heap[L].stack[r]
      BY <2>2, <3>1 DEF Range
    <3> QED BY <3>2, Current DEF Now
  <2> QED BY <2>1, <2>2 DEF Keys
<1>3. CASE k \in DOMAIN heap[t].entries
  <2>1. t \notin Range(tmudata)
    BY <1>1, NotFinalizing
  <2>2. k \in Slots => k \in Held(heap, t)
    BY <1>1, <1>3 DEF Held
  <2>3. Allowed(g, "open", t, k)
    BY <1>1, <2>1, <2>2, HeldAllowed
  <2> QED BY <1>1, <1>2, <1>3, <2>3 DEF BarrierDone
<1>4. CASE k \notin DOMAIN heap[t].entries
  <2>1. BarrierDone(heap, g, Barrier(heap, g, t, k), tmudata, callers, t, k)
    BY <1>1, <1>2, BarrierStep
  <2> QED BY <1>2, <1>4, <2>1
<1> QED BY <1>3, <1>4

(* The action SetTable (luaH_set, luaC_barriert).                          *)
LEMMA EntrySet ==
  ASSUME Now, NEW t \in Tables, NEW k \in Keys, NEW r \in Registers, SetTable(t, k, r)
  PROVE  Then
<1> DEFINE e == heap[t].entries
           v == Register(r)
           new == IF v = Nil THEN [j \in DOMAIN e \ {k} |-> e[j]]
                  ELSE [j \in DOMAIN e \cup {k} |-> IF j = k THEN v ELSE e[j]]
           m == IF k \in DOMAIN e THEN g ELSE Barrier(heap, g, t, k)
           n == Barrier(heap, m, t, v)
<1>1. /\ t \in Slots /\ heap[t].tt = "table" /\ Live(g, t) /\ heap[t] \in TableObjects
      /\ \A x \in DOMAIN e : x \in Values /\ Fine(heap, g, x) /\ e[x] \in Values /\ Fine(heap, g, e[x])
  BY TablesAre
<1>2. v \in Values /\ Fine(heap, g, v) /\ Good(heap, g, tmudata, callers, "open")
  BY Current DEF Now, Register
<1>3. BarrierDone(heap, g, m, tmudata, callers, t, k) /\ k \in Values /\ Fine(heap, g, k)
  BY Keyed
<1>4. Settled([heap EXCEPT ![t].entries = new], n) /\ Same /\ UNCHANGED callers
  BY DEF SetTable
<1>5. \A x \in DOMAIN e : Allowed(g, "open", t, x) /\ Allowed(g, "open", t, e[x])
  <2> SUFFICES ASSUME NEW x \in DOMAIN e PROVE Allowed(g, "open", t, x) /\ Allowed(g, "open", t, e[x])
    OBVIOUS
  <2>1. t \notin Range(tmudata)
    BY <1>1, <1>2, NotFinalizing
  <2>2. (x \in Slots => x \in Held(heap, t)) /\ (e[x] \in Slots => e[x] \in Held(heap, t))
    BY <1>1 DEF Held, Range
  <2> QED BY <1>1, <1>2, <2>1, <2>2, HeldAllowed
<1> HIDE DEF m, v
<1>6. Good(heap, m, tmudata, callers, "open") /\ Live(m, t) /\ Fine(heap, m, v)
  BY <1>1, <1>2, <1>3 DEF BarrierDone, Fine
<1>7. BarrierDone(heap, m, n, tmudata, callers, t, v)
  BY <1>1, <1>6, BarrierStep
<1> HIDE DEF n
<1>8. /\ Good(heap, n, tmudata, callers, "open") /\ Live(n, t) /\ Allowed(n, "open", t, v)
      /\ Allowed(n, "open", t, k)
      /\ \A s \in Slots : Live(g, s) => Live(n, s)
      /\ \A w : Allowed(g, "open", t, w) => Allowed(n, "open", t, w)
  <2>1. /\ \A s \in Slots : Live(g, s) => Live(m, s)
        /\ \A w : Allowed(g, "open", t, w) => Allowed(m, "open", t, w)
        /\ Allowed(m, "open", t, k)
    BY <1>3 DEF BarrierDone
  <2>2. /\ \A s \in Slots : Live(m, s) => Live(n, s)
        /\ \A w : Allowed(m, "open", t, w) => Allowed(n, "open", t, w)
        /\ Good(heap, n, tmudata, callers, "open") /\ Allowed(n, "open", t, v)
    BY <1>7 DEF BarrierDone
  <2> QED BY <1>1, <2>1, <2>2
<1>9. \A x : Fine(heap, g, x) => Fine(heap, n, x)
  BY <1>8 DEF Fine
<1>10. \A x \in DOMAIN new : new[x] = v \/ (x \in DOMAIN e /\ new[x] = e[x])
  <2> HIDE DEF e
  <2>1. CASE v = Nil
    <3>1. new = [j \in DOMAIN e \ {k} |-> e[j]]
      BY <2>1
    <3> HIDE DEF new
    <3> QED BY <3>1
  <2>2. CASE v # Nil
    <3>1. new = [j \in DOMAIN e \cup {k} |-> IF j = k THEN v ELSE e[j]]
      BY <2>2
    <3> HIDE DEF new
    <3>2. DOMAIN new = DOMAIN e \cup {k} /\ \A x \in DOMAIN new : new[x] = IF x = k THEN v ELSE e[x]
      BY <3>1
    <3> SUFFICES ASSUME NEW x \in DOMAIN new PROVE new[x] = v \/ (x \in DOMAIN e /\ new[x] = e[x])
      OBVIOUS
    <3>3. CASE x = k
      BY <3>2, <3>3
    <3>4. CASE x # k
      <4>1. x \in DOMAIN e /\ new[x] = e[x]
        BY <3>2, <3>4
      <4> QED BY <4>1
    <3> QED BY <3>3, <3>4
  <2> QED BY <2>1, <2>2
<1>11. \A x \in DOMAIN new : x = k \/ x \in DOMAIN e
  OBVIOUS
<1> DEFINE D == DOMAIN new
<1>12. new \in [D -> Values] /\ D \in SUBSET Values
  <2>1. \A x \in DOMAIN new : new[x] \in Values /\ x \in Values
    BY <1>1, <1>2, <1>3, <1>10, <1>11
  <2>2. new = [x \in DOMAIN new |-> new[x]]
    OBVIOUS
  <2> HIDE DEF new
  <2> QED BY <2>1, <2>2
<1> HIDE DEF new, e
<1>13. \A x \in D : Fine(heap, n, x) /\ Fine(heap, n, new[x]) /\ Allowed(n, "open", t, x) /\ Allowed(n, "open", t, new[x])
  BY <1>1, <1>2, <1>3, <1>5, <1>8, <1>9, <1>10, <1>11
<1> HIDE DEF D
<1>14. Good([heap EXCEPT ![t].entries = new], n, tmudata, callers, "open")
  BY <1>1, <1>8, <1>12, <1>13, EntriesWritten
<1> QED BY <1>4, <1>14 DEF Same, Settled, Then

-----------------------------------------------------------------------------
(* Blocks left, coroutines resumed and left.                               *)

(* The action Close (OP_CLOSE).                                            *)
LEMMA BlockLeft ==
  ASSUME Now, NEW level, Close(level)
  PROVE  Then
<1> DEFINE d == CloseUpvals([heap |-> heap, g |-> g], L, level)
<1>1. Good(heap, g, tmudata, callers, "open") /\ L \in Slots /\ heap[L].tt = "thread"
  BY Current DEF Now
<1>2. ClosedAll(heap, g, d, L, level, tmudata, callers)
  BY <1>1, CloseUpvalsStep
<1>3. Settled(d.heap, d.g) /\ Same /\ UNCHANGED callers
  BY DEF Close
<1> HIDE DEF d
<1> QED BY <1>2, <1>3 DEF ClosedAll, Settled, Same, Then

(* The threads that wait, and the one resumed last.                        *)
Grows(cs, c2, th) == c2 = Append(cs, th)

(* coroutine.resume: the thread that runs now is the last one.             *)
LEMMA CallersGrow ==
  ASSUME NEW cs \in Seq(Slots), cs # <<>>, IsInjective(cs), NEW th \in Slots, th \notin Range(cs),
         NEW c2, Grows(cs, c2, th)
  PROVE  /\ c2 \in Seq(Slots) /\ c2 # <<>> /\ c2[1] = cs[1] /\ IsInjective(c2)
         /\ Len(c2) = Len(cs) + 1 /\ c2[Len(cs) + 1] = th
         /\ \A i \in 1..Len(cs) : c2[i] = cs[i]
<1>1. /\ c2 \in Seq(Slots) /\ c2 # <<>> /\ Len(c2) = Len(cs) + 1 /\ c2[Len(cs) + 1] = th
      /\ \A i \in 1..Len(cs) : c2[i] = cs[i]
  BY DEF Grows
<1>2. Len(cs) \in Nat /\ Len(cs) # 0 /\ DOMAIN cs = 1..Len(cs) /\ DOMAIN c2 = 1..Len(c2)
  BY <1>1
<1>3. 1 \in 1..Len(cs)
  BY <1>2
<1>4. IsInjective(c2)
  <2> SUFFICES ASSUME NEW i \in DOMAIN c2, NEW j \in DOMAIN c2, c2[i] = c2[j] PROVE i = j
    BY DEF IsInjective
  <2>1. \A l \in DOMAIN c2 : l \in DOMAIN cs \/ l = Len(cs) + 1
    BY <1>1, <1>2
  <2>2. \A l \in DOMAIN cs : c2[l] = cs[l] /\ c2[l] # th
    BY <1>1, <1>2 DEF Range
  <2> QED BY <1>1, <2>1, <2>2 DEF IsInjective
<1> QED BY <1>1, <1>3, <1>4

(* coroutine.yield: the one before it runs again.                          *)
LEMMA CallersShrink ==
  ASSUME NEW cs \in Seq(Slots), Len(cs) > 1, IsInjective(cs), NEW c2, c2 = Front(cs)
  PROVE  /\ c2 \in Seq(Slots) /\ c2 # <<>> /\ c2[1] = cs[1] /\ IsInjective(c2)
         /\ Len(c2) = Len(cs) - 1 /\ \A i \in 1..Len(cs) - 1 : c2[i] = cs[i]
<1>1. /\ c2 \in Seq(Slots) /\ Len(c2) = Len(cs) - 1 /\ \A i \in 1..Len(cs) - 1 : c2[i] = cs[i]
  BY DEF Front
<1>2. DOMAIN cs = 1..Len(cs) /\ DOMAIN c2 = 1..Len(cs) - 1 /\ 1 \in 1..Len(cs) - 1 /\ Len(cs) \in Nat
  BY <1>1
<1>3. \A i \in DOMAIN c2 : i \in DOMAIN cs /\ c2[i] = cs[i]
  BY <1>1, <1>2
<1>4. IsInjective(c2)
  BY <1>3 DEF IsInjective
<1>5. c2[1] = cs[1] /\ c2 # <<>>
  BY <1>1, <1>2
<1> QED BY <1>1, <1>4, <1>5

(* coroutine.resume: the one that resumes keeps the coroutine on its stack. *)
Resumes(h, k, th, v) == k = [h EXCEPT ![th].resumed = v]

(* Nothing else of the heap changes.                                       *)
LEMMA ResumedIs ==
  ASSUME NEW h \in [Slots -> Objects], NEW th \in Slots, h[th].tt = "thread", NEW v, NEW k, Resumes(h, k, th, v)
  PROVE  k[th].resumed = v /\ \A s \in Slots : s # th => k[s] = h[s]
<1>1. h[th] \in ThreadObjects
  BY Kinds
<1>2. k[th] = [h[th] EXCEPT !.resumed = v] /\ \A s \in Slots : s # th => k[s] = h[s]
  BY DEF Resumes
<1> QED BY <1>1, <1>2 DEF ThreadObjects

(* The action Resume.                                                      *)
LEMMA CoroutineResumed ==
  ASSUME Now, NEW th \in HeldOf("thread"), Resume(th)
  PROVE  Then
<1> DEFINE c2 == Append(callers, th)
           k == [heap EXCEPT ![L].resumed = th]
<1>1. /\ Good(heap, g, tmudata, callers, "open") /\ L \in Slots /\ heap[L].tt = "thread"
      /\ callers \in Seq(Slots) /\ DOMAIN callers = 1..Len(callers) /\ Len(callers) \in DOMAIN callers
  BY Current DEF Now
<1>2. th \in Slots /\ heap[th].tt = "thread" /\ Live(g, th) /\ Fine(heap, g, th) /\ th \in Pointers
  BY HeldIs DEF Pointers
<1>3. RootsLive(heap, g, tmudata, callers) /\ heap \in [Slots -> Objects]
  BY <1>1 DEF Good, HeapInv, Typed
<1>4. th \notin Range(callers)
  BY DEF Resume
<1>5. Resumes(heap, k, L, th)
  BY DEF Resumes
<1>6. heap' = k /\ g' = g /\ callers' = c2 /\ tmudata' = tmudata
  BY DEF Resume, Settled, Same
<1>7. /\ c2 \in Seq(Slots) /\ c2 # <<>> /\ c2[1] = callers[1] /\ IsInjective(c2)
      /\ Len(c2) = Len(callers) + 1 /\ c2[Len(callers) + 1] = th
      /\ \A i \in 1..Len(callers) : c2[i] = callers[i]
  <2>1. callers # <<>> /\ IsInjective(callers) /\ Grows(callers, c2, th)
    BY <1>3 DEF RootsLive, Grows
  <2> HIDE DEF c2
  <2> QED BY <1>1, <1>2, <1>4, <2>1, CallersGrow
<1> HIDE DEF c2, k
<1>8. k[L].resumed = th /\ \A s \in Slots : s # L => k[s] = heap[s]
  BY <1>1, <1>3, <1>5, ResumedIs
<1>9. Shape(heap, k) => RootsLive(k, g, tmudata, c2)
  <2> HAVE Shape(heap, k)
  <2>1. \A s \in Slots : k[s].tt = heap[s].tt
    BY DEF Shape
  <2>2. \A i \in DOMAIN c2 : i \in 1..Len(callers) \/ i = Len(callers) + 1
    BY <1>1, <1>7
  <2>3. \A i \in 1..Len(callers) : callers[i] \in Slots /\ Live(g, callers[i]) /\ heap[callers[i]].tt = "thread"
    BY <1>1, <1>3 DEF RootsLive
  <2>4. \A i \in DOMAIN c2 : Live(g, c2[i]) /\ k[c2[i]].tt = "thread"
    BY <1>2, <1>7, <2>1, <2>2, <2>3
  <2>5. \A i \in 1..Len(c2) - 1 : k[c2[i]].resumed = c2[i + 1]
    <3> SUFFICES ASSUME NEW i \in 1..Len(c2) - 1 PROVE k[c2[i]].resumed = c2[i + 1]
      OBVIOUS
    <3>1. Len(callers) \in Nat /\ i \in 1..Len(callers) /\ i \in Nat
      BY <1>1, <1>7
    <3>2. c2[i] = callers[i]
      BY <1>7, <3>1
    <3>3. CASE i = Len(callers)
      BY <1>7, <1>8, <3>2, <3>3 DEF L
    <3>4. CASE i # Len(callers)
      <4>1. i \in 1..Len(callers) - 1 /\ i + 1 \in 1..Len(callers)
        BY <3>1, <3>4
      <4>2. callers[i] # L
        BY <1>1, <1>3, <3>1, <3>4 DEF RootsLive, IsInjective, L
      <4>3. k[callers[i]] = heap[callers[i]]
        BY <1>8, <2>3, <3>1, <4>2
      <4>4. heap[callers[i]].resumed = callers[i + 1]
        BY <1>3, <4>1 DEF RootsLive
      <4> QED BY <1>7, <3>2, <4>1, <4>3, <4>4
    <3> QED BY <3>3, <3>4
  <2> QED BY <1>3, <1>7, <2>4, <2>5 DEF RootsLive, SlotSeqs
<1>10. Good(k, g, tmudata, c2, "open")
  BY <1>1, <1>2, <1>5, <1>9, ResumedWritten DEF Resumes
<1> QED BY <1>6, <1>10 DEF Then

(* The action Yield.                                                       *)
LEMMA CoroutineLeft ==
  ASSUME Now, NEW r \in Registers, Yield(r)
  PROVE  Then
<1> DEFINE c2 == Front(callers)
           th == callers[Len(callers) - 1]
           v == Register(r)
           k == [heap EXCEPT ![th].resumed = Nil]
<1>1. /\ Good(heap, g, tmudata, callers, "open") /\ callers \in Seq(Slots) /\ DOMAIN callers = 1..Len(callers)
      /\ Len(callers) > 1
  BY Current DEF Now, Yield
<1>2. RootsLive(heap, g, tmudata, callers) /\ heap \in [Slots -> Objects] /\ Nil \notin Slots /\ Nil \in Pointers
  BY <1>1, HeapAssumption DEF Good, HeapInv, Typed, Pointers
<1>3. th \in Slots /\ heap[th].tt = "thread" /\ Len(callers) - 1 \in DOMAIN callers
  <2>1. Len(callers) - 1 \in DOMAIN callers
    BY <1>1
  <2> QED BY <1>1, <1>2, <2>1 DEF RootsLive
<1>4. v \in Values /\ Fine(heap, g, v) /\ 1 \in Registers
  <2>1. Cardinality(Registers) \in Nat /\ Registers = 1..Cardinality(Registers)
    BY HeapAssumption, FS_CardinalityType
  <2> QED BY <2>1, Current DEF Now, Register
<1>5. heap' = [heap EXCEPT ![th].resumed = Nil, ![th].stack[1] = v] /\ g' = g /\ callers' = c2 /\ tmudata' = tmudata
  BY DEF Yield, Settled, Same
<1>6. /\ c2 \in Seq(Slots) /\ c2 # <<>> /\ c2[1] = callers[1] /\ IsInjective(c2)
      /\ Len(c2) = Len(callers) - 1 /\ \A i \in 1..Len(callers) - 1 : c2[i] = callers[i]
  BY <1>1, <1>2, CallersShrink DEF RootsLive
<1>7. Resumes(heap, k, th, Nil)
  BY DEF Resumes
<1>8. [heap EXCEPT ![th].resumed = Nil, ![th].stack[1] = v] = [k EXCEPT ![th].stack[1] = v]
  OBVIOUS
<1> HIDE DEF c2, v, k
<1>9. k[th].resumed = Nil /\ \A s \in Slots : s # th => k[s] = heap[s]
  <2> HIDE DEF th
  <2> QED BY <1>2, <1>3, <1>7, ResumedIs
<1>10. Shape(heap, k) => RootsLive(k, g, tmudata, c2)
  <2> HAVE Shape(heap, k)
  <2>1. \A s \in Slots : k[s].tt = heap[s].tt
    BY DEF Shape
  <2>2. DOMAIN c2 = 1..Len(callers) - 1 /\ DOMAIN c2 \subseteq DOMAIN callers
    BY <1>1, <1>6
  <2>3. \A i \in DOMAIN c2 : Live(g, c2[i]) /\ k[c2[i]].tt = "thread"
    BY <1>1, <1>2, <1>6, <2>1, <2>2 DEF RootsLive
  <2>4. \A i \in 1..Len(c2) - 1 : k[c2[i]].resumed = c2[i + 1]
    <3> SUFFICES ASSUME NEW i \in 1..Len(c2) - 1 PROVE k[c2[i]].resumed = c2[i + 1]
      OBVIOUS
    <3>1. /\ i \in 1..Len(callers) - 1 /\ i \in DOMAIN callers /\ i + 1 \in 1..Len(callers) - 1
          /\ i # Len(callers) - 1
      <4>1. Len(callers) \in Nat /\ i \in 1..Len(callers) - 2
        BY <1>1, <1>6
      <4>2. /\ i \in 1..Len(callers) - 1 /\ i \in 1..Len(callers) /\ i + 1 \in 1..Len(callers) - 1
            /\ i # Len(callers) - 1
        BY <4>1
      <4> QED BY <1>1, <4>2
    <3>2. c2[i] = callers[i] /\ c2[i + 1] = callers[i + 1] /\ callers[i] \in Slots
      BY <1>1, <1>6, <3>1
    <3>3. callers[i] # th
      BY <1>2, <1>3, <3>1 DEF RootsLive, IsInjective
    <3>4. heap[callers[i]].resumed = callers[i + 1]
      BY <1>2, <3>1 DEF RootsLive
    <3> QED BY <1>9, <3>2, <3>3, <3>4
  <2> QED BY <1>2, <1>6, <2>3, <2>4 DEF RootsLive, SlotSeqs
<1> HIDE DEF th
<1>11. Good(k, g, tmudata, c2, "open")
  <2>1. Fine(heap, g, Nil)
    BY <1>2 DEF Fine
  <2> QED BY <1>1, <1>2, <1>3, <1>7, <1>10, <2>1, ResumedWritten DEF Resumes
<1>12. k[th].tt = "thread" /\ Fine(k, g, v)
  <2>1. \A s \in Slots : k[s].tt = heap[s].tt
    <3>1. k[th] = [heap[th] EXCEPT !.resumed = Nil] /\ heap[th] \in ThreadObjects
      BY <1>2, <1>3, <1>7, Kinds DEF Resumes
    <3>2. k[th].tt = heap[th].tt
      BY <3>1 DEF ThreadObjects
    <3> QED BY <1>9, <3>2
  <2> QED BY <1>3, <1>4, <2>1 DEF Fine
<1>13. Good([k EXCEPT ![th].stack[1] = v], g, tmudata, c2, "open")
  BY <1>3, <1>4, <1>11, <1>12, StackWritten
<1> QED BY <1>5, <1>8, <1>13 DEF Then

(* Whatever the program does, the invariant holds after it.                *)
LEMMA ProgramStep ==
  ASSUME Now, does \in Repertoires, Program
  PROVE  Then /\ UNCHANGED <<phase, called, does>> /\ doomed' \subseteq doomed
<1>1. Then
  <2>1. CASE \E r \in Registers : \/ \E flags \in does.flags : CreateTable(r, flags)
                                  \/ CreateUserdata(r) \/ SetNil(r) \/ Yield(r)
                                  \/ \E text \in Texts : Intern(r, text)
                                  \/ \E c \in Captured : CreateFunction(r, c)
                                  \/ \E f \in Registers : CreateThread(r, f)
    BY <2>1, TableCreated, UserdataCreated, NilTaken, CoroutineLeft, Interned, FunctionCreated, ThreadCreated
  <2>2. CASE \E r \in Registers : \E f \in HeldOf("function") : GetUpval(f, r) \/ SetUpval(f, r)
    BY <2>2, UpvalTaken, UpvalSet
  <2>3. CASE \E r \in Registers : \E t \in Tables :
               \/ \E k \in Keys : SetTable(t, k, r)
               \/ \E k \in DOMAIN heap[t].entries : GetTable(t, k, r) \/ NextKey(t, k, r)
    BY <2>3, EntrySet, EntryTaken
  <2>4. CASE \E o \in HeldOf("table") \cup HeldOf("userdata") :
               \E meta \in Metatables(o) : SetMetatable(o, meta)
    BY <2>4, MetatableSet
  <2>5. CASE \E level \in Captured : Close(level)
    BY <2>5, BlockLeft
  <2>6. CASE \E th \in HeldOf("thread") : Resume(th)
    BY <2>6, CoroutineResumed
  <2> QED BY <2>1, <2>2, <2>3, <2>4, <2>5, <2>6 DEF Program
<1>2. Same /\ StillDoomed
  <2>1. ASSUME NEW r \in Registers
        PROVE  /\ \A flags : CreateTable(r, flags) => Same /\ StillDoomed
               /\ CreateUserdata(r) \/ SetNil(r) \/ Yield(r) => Same /\ StillDoomed
               /\ \A f : GetUpval(f, r) \/ SetUpval(f, r) \/ CreateThread(r, f) => Same /\ StillDoomed
               /\ \A t, k : SetTable(t, k, r) \/ GetTable(t, k, r) \/ NextKey(t, k, r) => Same /\ StillDoomed
    BY DEF CreateTable, CreateUserdata, SetNil, Yield, GetUpval, SetUpval, CreateThread, SetTable, GetTable,
           NextKey, Settled
  <2>2. ASSUME NEW r \in Registers
        PROVE  /\ \A text : Intern(r, text) => Same /\ StillDoomed
               /\ \A c : CreateFunction(r, c) => Same /\ StillDoomed
    BY DEF Intern, CreateFunction, Settled
  <2>3. /\ \A o, meta : SetMetatable(o, meta) => Same /\ StillDoomed
        /\ \A level : Close(level) => Same /\ StillDoomed
        /\ \A th : Resume(th) => Same /\ StillDoomed
    BY DEF SetMetatable, Close, Resume, Settled
  <2> QED BY <2>1, <2>2, <2>3 DEF Program
<1> QED BY <1>1, <1>2 DEF Same, StillDoomed

-----------------------------------------------------------------------------
(* The collector's actions, and those of lua_close.                        *)

(* The invariant while the state is not freed.                             *)
LEMMA InvIs ==
  ASSUME State, phase # "closed", Good(heap, g, tmudata, callers, phase)
  PROVE  IInv
BY DEF IInv, Good, HeapInv, RootsLive

(* And conversely.                                                         *)
LEMMA InvGives ==
  ASSUME IInv, phase # "closed"
  PROVE  Good(heap, g, tmudata, callers, phase)
BY DEF IInv, Good

(* The actions StepPause and FullGcMark.                                   *)
LEMMA MarkingBegins ==
  ASSUME Now, StepPause \/ FullGcMark
  PROVE  Then /\ doomed' \subseteq Slots
<1>1. Good(heap, g, tmudata, callers, "open") /\ Cycle(heap, g, tmudata)
  BY DEF Now, Good
<1>2. CASE StepPause
  <2>1. g.gcstate = "pause" /\ tmudata = <<>> /\ "no" \in Fulls
    BY <1>1, <1>2 DEF StepPause, Collecting, Cycle, Fulls
  <2>2. Good(heap, [MarkRoot(heap, g) EXCEPT !.full = "no"], tmudata, callers, "open")
    BY <1>1, <2>1, MarkingStarts
  <2> QED BY <1>2, <2>2 DEF StepPause, StartCycle, Continue, Then, Allocated
<1>3. CASE FullGcMark
  <2>1. g.gcstate = "finalize" /\ "mark" \in Fulls /\ "mark" # "no"
    BY <1>3 DEF FullGcMark, Collecting, Fulls
  <2>2. Good(heap, [MarkRoot(heap, g) EXCEPT !.full = "mark"], tmudata, callers, "open")
    BY <1>1, <2>1, MarkingStarts
  <2> QED BY <1>3, <2>2 DEF FullGcMark, StartCycle, Continue, Then, Allocated
<1> QED BY <1>2, <1>3

(* The action StepPropagate.                                               *)
LEMMA Propagates ==
  ASSUME Now, StepPropagate
  PROVE  Then
<1>1. Good(heap, PropagateMark(heap, g), tmudata, callers, "open")
  BY Propagation DEF Now, StepPropagate, Collecting
<1> QED BY <1>1 DEF StepPropagate, Settled, Continue, Then

(* The action StepAtomic.                                                  *)
LEMMA MarkingEnds ==
  ASSUME Now, StepAtomic
  PROVE  Then
<1> DEFINE Ends(sep, clear) ==
             /\ tmudata' = tmudata \o sep.separated
             /\ Settled(clear.heap, [clear.g EXCEPT !.currentwhite = OtherWhite(clear.g), !.grayagain = <<>>,
                                                   !.weak = <<>>, !.sweepstrgc = 0, !.sweepgc = 1,
                                                   !.gcstate = "sweepstring"])
           Clears(sep, preserved) == \E clear \in {ClearTable(sep.heap, preserved)} : Ends(sep, clear)
           Separated(again) ==
             \E sep \in {Separate(heap, again, FALSE)} :
             \E preserved \in {PropagateAll(sep.heap, MarkTmu(sep.heap, sep.g, tmudata \o sep.separated))} :
               Clears(sep, preserved)
<1>1. PICK upvals \in {PropagateAll(heap, RemarkUpvals(heap, g))} :
      \E weak \in {PropagateAll(heap, Mark(heap, [upvals EXCEPT !.gray = upvals.weak, !.weak = <<>>], L))} :
      \E again \in {PropagateAll(heap, [weak EXCEPT !.gray = weak.grayagain, !.grayagain = <<>>])} :
        Separated(again)
  BY DEF StepAtomic
<1> HIDE DEF Separated
<1>2. PICK weak \in {PropagateAll(heap, Mark(heap, [upvals EXCEPT !.gray = upvals.weak, !.weak = <<>>], L))} :
      \E again \in {PropagateAll(heap, [weak EXCEPT !.gray = weak.grayagain, !.grayagain = <<>>])} :
        Separated(again)
  BY <1>1
<1>3. PICK again \in {PropagateAll(heap, [weak EXCEPT !.gray = weak.grayagain, !.grayagain = <<>>])} :
        Separated(again)
  BY <1>2
<1> HIDE DEF Clears
<1>4. PICK sep \in {Separate(heap, again, FALSE)} :
      \E preserved \in {PropagateAll(sep.heap, MarkTmu(sep.heap, sep.g, tmudata \o sep.separated))} :
        Clears(sep, preserved)
  BY <1>3 DEF Separated
<1>5. PICK preserved \in {PropagateAll(sep.heap, MarkTmu(sep.heap, sep.g, tmudata \o sep.separated))} :
       Clears(sep, preserved)
  BY <1>4
<1> HIDE DEF Ends
<1>6. PICK clear \in {ClearTable(sep.heap, preserved)} : Ends(sep, clear)
  BY <1>5 DEF Clears
<1> DEFINE n == [clear.g EXCEPT !.currentwhite = OtherWhite(clear.g), !.grayagain = <<>>,
                                !.weak = <<>>, !.sweepstrgc = 0, !.sweepgc = 1, !.gcstate = "sweepstring"]
<1>7. Flips(clear.g, n) /\ heap' = clear.heap /\ g' = n /\ tmudata' = tmudata \o sep.separated
  BY <1>6 DEF Flips, Settled, Ends
<1>8. Atomic(heap, g, tmudata, L, upvals, weak, again, sep, preserved, clear)
  BY <1>1, <1>2, <1>3, <1>4, <1>5, <1>6 DEF Atomic, Remarks
<1> HIDE DEF n
<1>9. Good(heap, g, tmudata, callers, "open") /\ g.gcstate = "propagate" /\ callers' = callers
  BY DEF Now, StepAtomic, Collecting, Continue
<1>10. Good(clear.heap, n, tmudata \o sep.separated, callers, "open")
  BY <1>7, <1>8, <1>9, AtomicStep
<1> QED BY <1>7, <1>9, <1>10 DEF Then

(* The action StepSweepString.                                             *)
LEMMA StringsSwept ==
  ASSUME Now, StepSweepString
  PROVE  Then
<1> DEFINE s == SweepBucket(heap, g, g.sweepstrgc + 1)
           state == IF g.sweepstrgc + 1 >= Cardinality(Texts) THEN "sweep" ELSE "sweepstring"
<1>1. g.gcstate = "sweepstring" /\ Good(heap, g, tmudata, callers, "open") /\ g \in Collectors
  BY DEF Now, Good, Typed, StepSweepString, Collecting
<1>2. s.g.gcstate = "sweepstring"
  BY <1>1 DEF SweepBucket, PaintAll, Collectors
<1>3. Good(s.heap, [s.g EXCEPT !.sweepstrgc = @ + 1, !.gcstate = state], tmudata, callers, "open")
  BY <1>1, SweepStringStep
<1>4. heap' = s.heap /\ g' = [s.g EXCEPT !.sweepstrgc = @ + 1, !.gcstate = state]
      /\ tmudata' = tmudata /\ callers' = callers
  <2>1. Settled(s.heap, [s.g EXCEPT !.sweepstrgc = @ + 1,
                            !.gcstate = IF g.sweepstrgc + 1 >= Cardinality(Texts) THEN "sweep" ELSE @])
        /\ tmudata' = tmudata /\ callers' = callers
    BY DEF StepSweepString
  <2> HIDE DEF s
  <2> QED BY <1>2, <2>1 DEF Settled
<1> HIDE DEF s, state
<1> QED BY <1>3, <1>4 DEF Then

(* The action StepSweep.                                                   *)
LEMMA ListSwept ==
  ASSUME Now, StepSweep
  PROVE  Then
<1> DEFINE s == SweepList(heap, g)
<1>1. g.gcstate = "sweep" /\ Good(heap, g, tmudata, callers, "open")
  BY DEF Now, StepSweep, Collecting
<1>2. Good(s.heap, SweepEnds(s.g), tmudata, callers, "open")
  BY <1>1, SweepStep
<1>3. heap' = s.heap /\ g' = SweepEnds(s.g) /\ tmudata' = tmudata /\ callers' = callers
  BY DEF StepSweep, Settled, SweepEnds
<1> HIDE DEF s
<1> QED BY <1>2, <1>3 DEF Then

(* A finalizer is called, by the collector or by lua_close.                *)
LEMMA Finalizes ==
  ASSUME NEW p, Good(heap, g, tmudata, callers, p), p = "open" => g.gcstate = "finalize",
         tmudata # <<>>, Finalize, callers' = callers, called \subseteq Slots
  PROVE  Good(heap', g', tmudata', callers', p) /\ called' \subseteq Slots
<1> DEFINE u == Head(tmudata)
           n == LinkUserdata(g, u)
<1>1. /\ Good(heap, n, Tail(tmudata), callers, p)
      /\ \A th \in Slots, r \in Registers : heap[th].tt = "thread" =>
           Good([heap EXCEPT ![th].stack[r] = u], n, Tail(tmudata), callers, p)
  BY FinalizeStep
<1>2. tmudata' = Tail(tmudata) /\ g' = n /\ (heap' = heap \/ \E r \in Registers : heap' = InRegister(heap, r, u))
  BY DEF Finalize, Settled
<1>3. L \in Slots /\ heap[L].tt = "thread"
  BY Current
<1>4. u \in Slots
  BY DEF Good, HeapInv, Placed, SlotSeqs
<1>5. called' \subseteq called \cup {u}
  BY DEF Finalize
<1> HIDE DEF n, u
<1>6. Good(heap', n, Tail(tmudata), callers, p)
  BY <1>1, <1>2, <1>3 DEF InRegister
<1> QED BY <1>2, <1>4, <1>5, <1>6

(* The action StepFinalize.                                                *)
LEMMA FinalizersCalled ==
  ASSUME Now, StepFinalize, called \subseteq Slots
  PROVE  Then /\ called' \subseteq Slots
<1>1. g.gcstate = "finalize" /\ Good(heap, g, tmudata, callers, "open") /\ callers' = callers
  BY DEF Now, StepFinalize, Collecting
<1>2. CASE tmudata # <<>> /\ Finalize
  BY <1>1, <1>2, Finalizes DEF Then
<1>3. CASE /\ tmudata = <<>>
           /\ Settled(heap, [g EXCEPT !.gcstate = "pause", !.full = "no"])
           /\ UNCHANGED <<tmudata, called>>
  <2>1. Good(heap, [g EXCEPT !.gcstate = "pause", !.full = "no"], <<>>, callers, "open")
    BY <1>1, <1>3, FinalizeOver
  <2> QED BY <1>1, <1>3, <2>1 DEF Settled, Then
<1> QED BY <1>2, <1>3 DEF StepFinalize

(* The action FullGc.                                                      *)
LEMMA CollectionAsked ==
  ASSUME Now, FullGc
  PROVE  Then
<1> DEFINE n == IF g.gcstate \notin {"pause", "propagate"} THEN [g EXCEPT !.full = "sweep"]
                ELSE [g EXCEPT !.full = "sweep", !.gcstate = "sweepstring", !.sweepstrgc = 0,
                               !.sweepgc = 1, !.gray = <<>>, !.grayagain = <<>>, !.weak = <<>>]
<1>1. Good(heap, n, tmudata, callers, "open")
  BY FullGcStep DEF Now
<1>2. heap' = heap /\ g' = n /\ tmudata' = tmudata /\ callers' = callers
  BY DEF FullGc, Settled, Continue
<1> HIDE DEF n
<1> QED BY <1>1, <1>2 DEF Then

(* The action CloseState.                                                  *)
LEMMA StateClosed ==
  ASSUME Now, CloseState
  PROVE  Good(heap', g', tmudata', callers', "closing")
<1> DEFINE d == CloseUpvals([heap |-> heap, g |-> g], Main, 0)
           e == [d.heap EXCEPT ![Main].stack = [r \in Registers |-> Nil], ![Main].resumed = Nil]
           sep == Separate(e, d.g, TRUE)
<1>1. heap' = sep.heap /\ g' = sep.g /\ tmudata' = tmudata \o sep.separated /\ callers' = <<Main>>
  BY DEF CloseState, Settled
<1>2. d = CloseUpvals([heap |-> heap, g |-> g], Main, 0) /\ sep = Separate(e, d.g, TRUE)
  OBVIOUS
<1>3. Empties(d.heap, e)
  BY DEF Empties
<1> HIDE DEF d, e, sep
<1>4. Good(sep.heap, sep.g, tmudata \o sep.separated, <<Main>>, "closing")
  BY <1>2, <1>3, CloseStateStep DEF Now
<1> QED BY <1>1, <1>4

(* The action FreeAll.                                                     *)
LEMMA StateFreed ==
  ASSUME Good(heap, g, tmudata, callers, "closing"), FreeAll
  PROVE  Typed(heap', g') /\ g'.gcstate = "pause"
<1> DEFINE k == [s \in Slots |-> IF s = Main THEN heap[s] ELSE Free]
           n == [PaintAll(g, Slots \ {Main}, "none") EXCEPT
                        !.rootgc = <<Main>>, !.gcstate = "pause", !.full = "no"]
<1>1. Typed(heap, g) /\ heap[Main].tt = "thread"
  BY DEF Good, HeapInv, Placed
<1>2. Typed(k, n) /\ n.gcstate = "pause"
  BY <1>1, AllFreed
<1>3. heap' = k /\ g' = n
  BY DEF FreeAll, Settled
<1> HIDE DEF k, n
<1> QED BY <1>2, <1>3

-----------------------------------------------------------------------------
(* The invariant of the specification, and what follows from it.           *)

(* The invariant holds of a new state (f_luaopen): the main thread and the *)
(* table of globals.                                                       *)
LEMMA InitInv == Init => IInv
<1> SUFFICES ASSUME Init PROVE IInv
  OBVIOUS
<1>1. /\ Main \in Slots /\ Globals \in Slots /\ Main # Globals /\ Nil \notin Slots
      /\ 1 \in Registers => Registers # {}
  BY HeapAssumption
<1> DEFINE x == NewThread
           y == NewTable({})
<1>2. /\ x \in ThreadObjects /\ x.openupval = <<>> /\ x.resumed = Nil
      /\ \A r \in Registers : x.stack[r] = Nil
  BY Empty DEF NewThread, ThreadObjects, Pointers, Values
<1>3. y \in TableObjects /\ y.meta = Nil /\ DOMAIN y.entries = {}
  <2>1. <<>> \in [{} -> Values] /\ DOMAIN <<>> = {} /\ {} \in SUBSET Values
    OBVIOUS
  <2>2. <<>> \in UNION {[D -> Values] : D \in SUBSET Values}
    BY <2>1
  <2> QED BY <2>1, <2>2 DEF NewTable, TableObjects, Pointers, Flags
<1> HIDE DEF x, y
<1>4. /\ heap = [s \in Slots |-> CASE s = Main -> x [] s = Globals -> y [] OTHER -> Free]
      /\ callers = <<Main>> /\ tmudata = <<>> /\ phase = "open" /\ called = {} /\ doomed = {}
      /\ does \in Repertoires
  BY DEF Init, InitHeap, x, y
<1>5. /\ heap[Main] = x /\ heap[Globals] = y
      /\ \A s \in Slots : s \notin {Main, Globals} => heap[s] = Free
  BY <1>1, <1>4
<1>6. x \in Objects /\ y \in Objects /\ Free \in Objects /\ x # Free /\ y # Free
      /\ x.tt = "thread" /\ y.tt = "table" /\ Free.tt = "free"
  BY <1>2, <1>3, KindsAre DEF Objects, FreeObjects, Free
<1>7. heap \in [Slots -> Objects]
  BY <1>4, <1>6
<1>8. /\ g \in Collectors /\ g.currentwhite = "white0" /\ g.gcstate = "pause"
      /\ g.marked = [s \in Slots |-> IF s \in {Main, Globals} THEN "white0" ELSE "none"]
      /\ g.rootgc = <<Globals, Main>> /\ g.gray = <<>> /\ g.grayagain = <<>> /\ g.weak = <<>>
  <2>1. <<Globals, Main>> \in Seq(Slots) /\ <<>> \in Seq(Slots)
    BY <1>1, Empty
  <2>2. [s \in Slots |-> IF s \in {Main, Globals} THEN "white0" ELSE "none"] \in [Slots -> Marks]
    BY DEF Marks, Colours
  <2> QED BY <2>1, <2>2 DEF Init, Collectors, Whites, GcStates, Fulls, SlotSeqs
<1>9. /\ g.marked[Main] = "white0" /\ g.marked[Globals] = "white0"
      /\ \A s \in Slots : s \notin {Main, Globals} => g.marked[s] = "none"
  BY <1>1, <1>8
<1>10. Typed(heap, g)
  BY <1>5, <1>6, <1>7, <1>8, <1>9 DEF Typed
<1>11. \A s \in Slots : Live(g, s) <=> s \in {Main, Globals}
  BY <1>8, <1>9 DEF Live, OtherWhite
<1>12. Closed(heap, g)
  BY <1>1, <1>2, <1>3, <1>5, <1>6, <1>11 DEF Closed, Sound, Fine, FineMeta
<1>13. \A s \in Slots : heap[s].tt \in {"thread", "table", "free"} /\ (heap[s].tt = "thread" => s = Main)
                        /\ (heap[s].tt # "free" <=> s \in {Main, Globals})
  BY <1>5, <1>6
<1>14. UpvalsOK(heap)
  BY <1>2, <1>5, <1>13, Empty DEF UpvalsOK
<1>15. Placed(heap, g, <<>>)
  <2>1. /\ <<Globals, Main>> \in Seq(Slots) /\ Range(<<Globals, Main>>) = {Globals, Main}
        /\ IsInjective(<<Globals, Main>>)
    BY <1>1 DEF Range, IsInjective
  <2>2. {s \in Slots : Listed(heap, s)} = {Globals, Main}
    BY <1>1, <1>13 DEF Listed
  <2> QED BY <1>5, <1>6, <1>8, <2>1, <2>2, Empty DEF Placed, SlotSeqs
<1>16. RootsLive(heap, g, <<>>, <<Main>>)
  <2>1. <<Main>> \in Seq(Slots) /\ <<Main>>[1] = Main /\ IsInjective(<<Main>>) /\ DOMAIN <<Main>> = {1}
        /\ Len(<<Main>>) = 1 /\ <<Main>> # <<>>
    BY <1>1, Single
  <2>2. 1..Len(<<Main>>) - 1 = {}
    BY <2>1
  <2> QED BY <1>1, <1>5, <1>6, <1>11, <2>1, <2>2, Empty DEF RootsLive, SlotSeqs
<1>17. InLists(g) = <<>>
  BY <1>8 DEF InLists
<1>18. Lists(heap, g)
  <2>1. \A s \in Slots : g.marked[s] # "black" /\ g.marked[s] # "gray"
    BY <1>9
  <2> QED BY <1>17, <2>1, Empty DEF Lists
<1>19. Cycle(heap, g, <<>>)
  <2>1. AllSwept(heap, g, <<>>)
    BY <1>8, <1>9, <1>13 DEF AllSwept, Swept
  <2> QED BY <1>8, <2>1 DEF Cycle
<1>20. State
  <2>1. <<>> \in Seq(Slots) /\ <<Main>> \in Seq(Slots)
    BY <1>1, Empty, Single
  <2> QED BY <1>4, <2>1 DEF State, SlotSeqs
<1> QED BY <1>4, <1>10, <1>12, <1>14, <1>15, <1>16, <1>18, <1>19, <1>20, InvIs DEF Good, HeapInv

(* Every step of the program, of the collector and of lua_close keeps the  *)
(* invariant.                                                              *)
LEMMA NextInv == IInv /\ [Next]_vars => IInv'
<1> SUFFICES ASSUME IInv, [Next]_vars PROVE IInv'
  OBVIOUS
<1>1. State
  BY DEF IInv
<1>2. phase = "open" => Now
  BY InvGives DEF Now
(* A step that leaves the state open and the invariant of its parts true.  *)
<1>3. ASSUME Now, Then, UNCHANGED <<phase, does>>, called' \subseteq Slots, doomed' \subseteq Slots, phase = "open"
      PROVE  IInv'
  <2>1. Good(heap', g', tmudata', callers', "open") /\ phase' = "open"
    BY <1>3 DEF Then
  <2>2. callers' \in SlotSeqs /\ tmudata' \in SlotSeqs /\ callers' # <<>> /\ callers'[1] = Main
    BY <2>1 DEF Good, HeapInv, Placed, RootsLive
  <2> QED BY <1>1, <1>3, <2>1, <2>2 DEF IInv, State, Good
<1>4. CASE UNCHANGED vars
  BY <1>4 DEF vars, IInv, State
<1>5. CASE Program
  <2>1. phase = "open" /\ does \in Repertoires
    BY <1>1, <1>5 DEF Program, Running, State
  <2>2. Then /\ UNCHANGED <<phase, called, does>> /\ doomed' \subseteq doomed
    BY <1>2, <1>5, <2>1, ProgramStep
  <2> QED BY <1>1, <1>2, <1>3, <2>1, <2>2 DEF State
<1>6. CASE StepPause \/ FullGcMark
  <2>1. phase = "open"
    BY <1>6 DEF StepPause, FullGcMark, Collecting
  <2>2. Then /\ doomed' \subseteq Slots
    BY <1>2, <1>6, <2>1, MarkingBegins
  <2>3. UNCHANGED <<phase, called, does>>
    BY <1>6 DEF StepPause, FullGcMark, StartCycle, Continue
  <2> QED BY <1>1, <1>2, <1>3, <2>1, <2>2, <2>3 DEF State
<1>7. CASE StepPropagate \/ StepAtomic
  <2>1. phase = "open" /\ UNCHANGED <<phase, called, does>> /\ doomed' \subseteq doomed
    BY <1>7 DEF StepPropagate, StepAtomic, Collecting, Continue, Settled, StillDoomed
  <2> QED BY <1>1, <1>2, <1>3, <1>7, <2>1, Propagates, MarkingEnds DEF State
<1>8. CASE StepSweepString \/ StepSweep
  <2>1. phase = "open" /\ UNCHANGED <<phase, does>> /\ doomed' \subseteq doomed /\ called' \subseteq called
    BY <1>8 DEF StepSweepString, StepSweep, Collecting, Settled, StillDoomed
  <2> QED BY <1>1, <1>2, <1>3, <1>8, <2>1, StringsSwept, ListSwept DEF State
<1>9. CASE StepFinalize
  <2>1. phase = "open" /\ UNCHANGED <<phase, does>> /\ doomed' \subseteq doomed
    BY <1>9 DEF StepFinalize, Collecting, Settled, StillDoomed, Finalize
  <2>2. Then /\ called' \subseteq Slots
    BY <1>1, <1>2, <1>9, <2>1, FinalizersCalled DEF State
  <2> QED BY <1>1, <1>2, <1>3, <2>1, <2>2 DEF State
<1>10. CASE FullGc
  <2>1. phase = "open" /\ UNCHANGED <<phase, called, does>> /\ doomed' \subseteq doomed
    BY <1>10 DEF FullGc, Running, Continue, Settled, StillDoomed
  <2> QED BY <1>1, <1>2, <1>3, <1>10, <2>1, CollectionAsked DEF State
<1>11. CASE CloseState
  <2>1. phase = "open" /\ phase' = "closing" /\ UNCHANGED <<called, does>> /\ doomed' \subseteq doomed
    BY <1>11 DEF CloseState, Running, Settled, StillDoomed
  <2>2. Good(heap', g', tmudata', callers', "closing")
    BY <1>2, <1>11, <2>1, StateClosed
  <2>3. callers' \in SlotSeqs /\ tmudata' \in SlotSeqs /\ callers' # <<>> /\ callers'[1] = Main
    BY <2>2 DEF Good, HeapInv, Placed, RootsLive
  <2> QED BY <1>1, <2>1, <2>2, <2>3 DEF IInv, State, Good
<1>12. CASE CallGcTM
  <2>1. phase = "closing" /\ UNCHANGED <<callers, phase, does>> /\ doomed' \subseteq doomed /\ Finalize /\ tmudata # <<>>
    BY <1>12 DEF CallGcTM, Settled, StillDoomed, Finalize
  <2>2. Good(heap, g, tmudata, callers, "closing")
    BY <2>1, InvGives
  <2>3. Good(heap', g', tmudata', callers', "closing") /\ called' \subseteq Slots
    BY <1>1, <2>1, <2>2, Finalizes DEF State
  <2>4. callers' \in SlotSeqs /\ tmudata' \in SlotSeqs /\ callers' # <<>> /\ callers'[1] = Main
    BY <2>3 DEF Good, HeapInv, Placed, RootsLive
  <2> QED BY <1>1, <2>1, <2>3, <2>4 DEF IInv, State, Good
<1>13. CASE FreeAll
  <2>1. /\ phase = "closing" /\ phase' = "closed" /\ UNCHANGED <<callers, tmudata, does>> /\ called' = {}
        /\ doomed' \subseteq doomed
    BY <1>13 DEF FreeAll, Settled, StillDoomed
  <2>2. Typed(heap', g') /\ g'.gcstate = "pause"
    BY <1>13, <2>1, InvGives, StateFreed
  <2> QED BY <1>1, <2>1, <2>2 DEF IInv, State
<1> QED BY <1>4, <1>5, <1>6, <1>7, <1>8, <1>9, <1>10, <1>11, <1>12, <1>13 DEF Next

(* The inductive invariant holds in every state the program and the        *)
(* collector reach, whatever the numbers of slots, registers and texts and *)
(* whatever the program's repertoire is.                                   *)
THEOREM Invariance == Spec => []IInv
<1> QED BY InitInv, NextInv, PTL DEF Spec

-----------------------------------------------------------------------------
(* The properties, from the invariant.                                     *)

(* The variables have their types: every object is of its kind, with       *)
(* pointers to slots, and every object that is not free has a colour       *)
(* (global_State and the GCheaders of lobject.h).                          *)
THEOREM TypeCorrect == Spec => []TypeOK
<1>1. IInv => TypeOK
  <2> SUFFICES ASSUME IInv PROVE TypeOK
    OBVIOUS
  <2>1. g \in Collectors /\ \A s \in Slots : g.marked[s] = "none" <=> heap[s] = Free
    BY DEF IInv, Typed
  <2>2. \A s \in Slots : g.marked[s] \in IF heap[s] = Free THEN {"none"} ELSE Colours
    BY <2>1 DEF Collectors, Marks
  <2>3. Head(callers) = Main
    BY DEF IInv, State, SlotSeqs
  <2> QED BY <2>1, <2>2, <2>3 DEF IInv, State, TypeOK, Collectors, Whites, GcStates, Fulls
<1> QED BY <1>1, Invariance, PTL

(* What can be reached from live objects is live.                          *)
LEMMA ReachedLive ==
  ASSUME NEW h, NEW m, NEW tmu, NEW cs, NEW p, Good(h, m, tmu, cs, p),
         NEW roots \in SUBSET Slots, \A s \in roots : Live(m, s)
  PROVE  \A s \in ReachableBy(h, Held, roots) : s \in Slots /\ Live(m, s)
<1> DEFINE n == Cardinality(Slots)
           Eq(R) == R = [i \in 0..n |-> IF i = 0 THEN roots
                                        ELSE LET r == R[i - 1] IN r \cup UNION {Held(h, s) : s \in r}]
           U == CHOOSE R : Eq(R)
           M == {S \in SUBSET Slots : \A s \in S : Live(m, s)}
           Grown(r) == r \cup UNION {Held(h, s) : s \in r}
           F == [x \in M \X (1..n) |-> Grown(x[1])]
<1>1. n \in Nat
  BY HeapAssumption, FS_CardinalityType
<1> HIDE DEF n
<1>2. \A r \in M : Grown(r) \in M
  BY HeldLive
<1>3. roots \in M
  OBVIOUS
<1> HIDE DEF M
<1>4. \A x \in M, i \in 1..n : F[<<x, i>>] = Grown(x)
  OBVIOUS
<1> HIDE DEF F, Grown
<1>5. \A x \in M, i \in 1..n : F[<<x, i>>] \in M
  BY <1>2, <1>4
<1>6. PICK V \in [SUBSET (1..n) -> M] : IsFold(V, roots, n, F)
  BY <1>1, <1>3, <1>5, FoldExists
<1> DEFINE W == [i \in 0..n |-> V[1..i]]
<1>7. \A i \in 0..n : 1..i \in SUBSET (1..n) /\ V[1..i] \in M
  BY <1>1
<1>8. \A s \in SUBSET (1..n) : V[s] = IF s = {} THEN roots ELSE F[<<V[s \ {Max(s)}], Max(s)>>]
  BY <1>6 DEF IsFold
<1>9. W[0] = roots
  <2>1. 1..0 = {} /\ 1..0 \in SUBSET (1..n) /\ 0 \in 0..n
    BY <1>1
  <2>2. V[1..0] = roots
    BY <1>8, <2>1
  <2> QED BY <2>1, <2>2
<1>10. ASSUME NEW i \in 1..n PROVE W[i] = Grown(W[i - 1])
  <2>1. Max(1..i) = i /\ (1..i) \ {i} = 1..(i - 1) /\ 1..i \in SUBSET (1..n) /\ 1..i # {}
    BY <1>1, FoldSteps
  <2>2. V[1..i] = F[<<V[1..(i - 1)], i>>]
    BY <1>8, <2>1
  <2>3. i - 1 \in 0..n /\ i \in 0..n /\ V[1..(i - 1)] \in M
    BY <1>1, <1>7
  <2> QED BY <1>4, <2>2, <2>3
<1>11. Eq(W)
  <2>1. \A i \in 0..n : W[i] = IF i = 0 THEN roots ELSE Grown(W[i - 1])
    <3> SUFFICES ASSUME NEW i \in 0..n, i # 0 PROVE W[i] = Grown(W[i - 1])
      BY <1>9
    <3>1. i \in 1..n
      BY <1>1
    <3> QED BY <1>10, <3>1
  <2>2. W = [i \in 0..n |-> W[i]]
    OBVIOUS
  <2> HIDE DEF W
  <2> QED BY <2>1, <2>2 DEF Grown
<1> HIDE DEF W
<1>12. Eq(U)
  BY <1>11, Zenon
<1>13. ReachableBy(h, Held, roots) = U[n]
  BY DEF ReachableBy, n
<1> HIDE DEF U
<1>14. U[0] = roots /\ \A i \in 1..n : U[i] = Grown(U[i - 1])
  <2>1. \A i \in 0..n : U[i] = IF i = 0 THEN roots ELSE Grown(U[i - 1])
    BY <1>12 DEF Grown
  <2>2. 0 \in 0..n /\ \A i \in 1..n : i \in 0..n /\ i # 0
    BY <1>1
  <2> QED BY <2>1, <2>2
<1> DEFINE A == {i \in 0..n : U[i] \in M}
<1>15. 0 \in A
  BY <1>1, <1>3, <1>14
<1>16. \A i \in 1..n : i - 1 \in A => i \in A
  BY <1>1, <1>2, <1>14
<1> HIDE DEF A
<1>17. \A i \in 0..n : i \in A
  BY <1>1, <1>15, <1>16, Induct
<1>18. U[n] \in M
  BY <1>1, <1>17 DEF A
<1> QED BY <1>13, <1>18 DEF M

(* Nothing that can be reached from the main thread, the running           *)
(* coroutines, the globals and the userdata awaiting their finalizers is   *)
(* ever freed: the sweep (lgc.c sweeplist, sweepwholelist), luaF_close and *)
(* the weak tables free only what the program cannot reach.                *)
THEOREM NoDangling == Spec => []NothingDangles
<1>1. IInv => NothingDangles
  <2> SUFFICES ASSUME IInv, phase # "closed",
                      NEW s \in ReachableBy(heap, Held, Roots \cup Range(tmudata))
               PROVE  heap[s] # Free
    BY DEF NothingDangles
  <2>1. Good(heap, g, tmudata, callers, phase)
    BY InvGives
  <2>2. Typed(heap, g) /\ RootsLive(heap, g, tmudata, callers) /\ Placed(heap, g, tmudata)
    BY <2>1 DEF Good, HeapInv
  <2>3. Range(callers) \subseteq Slots /\ Range(tmudata) \subseteq Slots
    BY <2>2, SeqParts DEF RootsLive, Placed, SlotSeqs
  <2>4. \A r \in Range(callers) : Live(g, r)
    BY <2>2 DEF RootsLive, Range
  <2> DEFINE roots == Roots \cup Range(tmudata)
  <2>5. roots \in SUBSET Slots /\ \A r \in roots : Live(g, r)
    BY <2>2, <2>3, <2>4, HeapAssumption DEF Roots, RootsLive
  <2>6. s \in ReachableBy(heap, Held, roots)
    OBVIOUS
  <2> HIDE DEF roots
  <2>7. s \in Slots /\ Live(g, s)
    BY <2>1, <2>5, <2>6, ReachedLive
  <2> QED BY <2>2, <2>7, MarksAre
<1> QED BY <1>1, Invariance, PTL

(* While marking, no black object points to a white one: the barriers      *)
(* (luaC_barrierf, luaC_barrierback), the revivals of luaS_newlstr and     *)
(* luaF_findupval and the steps of propagatemark keep the invariant that   *)
(* lgc.c:667-669 restores when a black object takes a white one.           *)
THEOREM NoBlackPointsToWhite == Spec => []BlackToWhite
<1>1. IInv => BlackToWhite
  <2> SUFFICES ASSUME IInv, phase = "open", g.gcstate = "propagate",
                      NEW s \in Allocated(heap) \ Range(tmudata), g.marked[s] = "black",
                      NEW v \in Held(heap, s)
               PROVE  ~IsWhite(g, v)
    BY DEF BlackToWhite
  <2>1. NoBlackToWhite(heap, g, Range(tmudata))
    BY DEF IInv, Cycle, Marking
  <2> QED BY <2>1 DEF NoBlackToWhite, Allocated
<1> QED BY <1>1, Invariance, PTL

(* While marking, an object is in at most one of the lists gray, grayagain *)
(* and weak, and once only, though all three are linked through the one    *)
(* gclist field: no barrier and no traversal puts an object in two.        *)
THEOREM OneListEach == Spec => []OneList
<1>1. IInv => OneList
  <2> SUFFICES ASSUME IInv, g.gcstate = "propagate"
               PROVE  LET all == g.gray \o g.grayagain \o g.weak
                      IN  IsInjective(all) /\ \A i \in DOMAIN all : g.marked[all[i]] = "gray"
    BY DEF OneList
  <2>1. Lists(heap, g)
    BY DEF IInv, HeapInv
  <2>2. \A i \in DOMAIN InLists(g) : InLists(g)[i] \in Range(InLists(g))
    BY DEF Range
  <2>3. IsInjective(InLists(g)) /\ \A i \in DOMAIN InLists(g) : g.marked[InLists(g)[i]] = "gray"
    BY <2>1, <2>2 DEF Lists
  <2> QED BY <2>3 DEF InLists
<1> QED BY <1>1, Invariance, PTL
=============================================================================
