------------------------- MODULE DebugSessionProofs -------------------------
(***************************************************************************)
(* The session keeps its types, a reply is read by the thread that asked   *)
(* for it, and the IDE shows what ldb does.  The first two rest on one     *)
(* inductive invariant, Exchange: the monitor of the request socket is     *)
(* held from the command to the reply, so there is never more than one     *)
(* command or reply on that socket, and it belongs to the holder of the    *)
(* monitor.  That needs replies of one line, MaxReplyLines = 1; the types  *)
(* do not.                                                                 *)
(***************************************************************************)
EXTENDS DebugSession, LdbProofs, FiniteSetTheorems

(* Nothing is under way, or the command of thread t, or its reply.         *)
Quiet == requests = <<>> /\ replies = <<>>
Asked(t) == requests = <<Request(t)>> /\ replies = <<>>
AnsweredTo(t) ==
  requests = <<>> /\ \E r \in Reply : replies = <<r>> /\ r.to = Request(t)

Busy(t) == todo[t] # <<>>

OneAtATime ==
  /\ lock = Nobody => Quiet
  /\ \A t \in Threads : lock = t => Quiet \/ Asked(t) \/ AnsweredTo(t)

Exchange ==
  /\ \A t \in Threads : pc[t] # "idle" => Busy(t)
  /\ \A t \in Threads : pc[t] = "reply" <=> lock = t
  /\ requests \in Seq(IdeCommand)
  /\ closed => requests = <<>>
  /\ MaxReplyLines = 1 => OneAtATime

IdeInv == WireTypeOK /\ IdeTypeOK /\ Exchange
IInv == LdbTypeOK /\ IdeInv
-----------------------------------------------------------------------------
(* The requests the operations make are sequences of the IDE's commands.   *)

LEMMA IdeCommandsAreCommands ==
  IdeCommand \subseteq Command /\ Seq(IdeCommand) \subseteq Seq(Command)
<1>1. IdeCommand \subseteq Command
  BY DEF IdeCommand
<1>2. ASSUME NEW s \in Seq(IdeCommand)
      PROVE  s \in Seq(Command)
  <2>1. Len(s) \in Nat /\ \A i \in 1..Len(s) : s[i] \in Command
    BY <1>1, LenProperties
  <2> QED
    BY <1>2, <2>1
<1> QED
  BY <1>1, <1>2

LEMMA CommandTypes ==
  /\ \A v \in PlainVerbs \ ConsoleVerbs : Do(v) \in IdeCommand
  /\ \A l \in BreakableLines : Break(l) \in IdeCommand /\ Clear(l) \in IdeCommand
<1>1. \A l \in BreakableLines : l # NoWord
  BY LinesAssumption DEF BreakableLines, NoMarkerLine, NoWord
<1>2. \A v \in PlainVerbs \ ConsoleVerbs : Do(v) \in IdeCommand
  BY DEF IdeCommand, Command, Do, NoLine, NoWord
<1>3. \A l \in BreakableLines : Break(l) \in IdeCommand /\ Clear(l) \in IdeCommand
  BY <1>1 DEF IdeCommand, Command, Break, Clear, BreakpointVerbs, ConsoleVerbs
<1> QED
  BY <1>2, <1>3

LEMMA IdeCommandLine ==
  ASSUME NEW cmd \in IdeCommand
  PROVE  cmd \in Command /\ cmd.line # NoWord /\ cmd.line \in BreakableLines \cup {NoLine}
<1>1. cmd \in Command /\ cmd.line # NoWord
  BY DEF IdeCommand
<1> QED
  BY <1>1, CommandLine

LEMMA EachType ==
  ASSUME NEW S, S \subseteq Lines, NEW f \in Orders(S)
  PROVE  Each(f, Break) \in Seq(IdeCommand) /\ Each(f, Clear) \in Seq(IdeCommand)
<1>1. IsFiniteSet(S)
  BY LinesAssumption, FS_Subset
<1>2. Cardinality(S) \in Nat
  BY <1>1, FS_CardinalityType
<1>3. f \in [1..Cardinality(S) -> S]
  BY DEF Orders
<1>4. \A i \in 1..Cardinality(S) :
        Break(f[i]) \in IdeCommand /\ Clear(f[i]) \in IdeCommand
  BY <1>3, CommandTypes DEF BreakableLines
<1>5. /\ [i \in 1..Cardinality(S) |-> Break(f[i])] \in Seq(IdeCommand)
      /\ [i \in 1..Cardinality(S) |-> Clear(f[i])] \in Seq(IdeCommand)
  BY <1>2, <1>4
<1> QED
  BY <1>3, <1>5 DEF Each

LEMMA UndertakeType ==
  ASSUME IdeTypeOK, NEW t \in Threads, NEW rs \in Seq(IdeCommand), Undertake(t, rs)
  PROVE  /\ todo' \in [Threads -> Seq(IdeCommand)]
         /\ pc' \in [Threads -> {"idle", "ready", "lock", "reply"}]
         /\ todo'[t] = rs
         /\ pc'[t] = IF rs = <<>> THEN "idle" ELSE "ready"
         /\ \A u \in Threads \ {t} : pc'[u] = pc[u] /\ todo'[u] = todo[u]
BY DEF IdeTypeOK, Undertake

-----------------------------------------------------------------------------
(* Steps that do not use the request socket keep the exchange.             *)

LEMMA StandStill ==
  ASSUME Exchange, UNCHANGED <<requesting, requests, replies, closed>>
  PROVE  Exchange'
BY DEF Exchange, OneAtATime, requesting, Quiet, Asked, AnsweredTo, Busy, Request

LEMMA OffSocket ==
  ASSUME IdeTypeOK, Exchange, NEW t \in Threads,
         pc[t] # "reply", pc'[t] # "reply", pc'[t] # "idle" => Busy(t)',
         \A u \in Threads \ {t} : pc'[u] = pc[u] /\ todo'[u] = todo[u],
         UNCHANGED <<lock, requests, replies, closed>>
  PROVE  Exchange'
BY DEF Exchange, OneAtATime, Quiet, Asked, AnsweredTo, Busy, Request

(* A thread that reads to the end of its exchange frees the socket.        *)
LEMMA EndOfExchange ==
  ASSUME IdeTypeOK, Exchange, NEW t \in Threads, Release(t),
         pc'[t] # "reply", pc'[t] # "idle" => Busy(t)',
         \A u \in Threads \ {t} : pc'[u] = pc[u] /\ todo'[u] = todo[u],
         requests' \in Seq(IdeCommand), closed' => requests' = <<>>,
         MaxReplyLines = 1 => requests' = <<>> /\ replies' = <<>>
  PROVE  Exchange'
<1>1. lock = t /\ \A u \in Threads \ {t} : pc[u] # "reply"
  BY DEF Exchange, Release
<1>2. \A u \in Threads : u # Nobody
  BY PdaAssumption DEF Threads
<1> QED
  BY <1>1, <1>2 DEF Exchange, OneAtATime, Quiet, Busy, Release
-----------------------------------------------------------------------------
(* The user's actions only hand requests to a thread that has none.        *)

LEMMA HandOver ==
  ASSUME IdeInv, NEW t \in Threads, pc[t] # "reply",
         NEW rs \in Seq(IdeCommand), Undertake(t, rs),
         UNCHANGED <<lock, requests, replies, closed>>
  PROVE  /\ todo' \in [Threads -> Seq(IdeCommand)]
         /\ pc' \in [Threads -> {"idle", "ready", "lock", "reply"}]
         /\ Exchange'
<1>1. IdeTypeOK /\ Exchange
  BY DEF IdeInv
<1>2. /\ todo' \in [Threads -> Seq(IdeCommand)]
      /\ pc' \in [Threads -> {"idle", "ready", "lock", "reply"}]
      /\ todo'[t] = rs
      /\ pc'[t] = IF rs = <<>> THEN "idle" ELSE "ready"
      /\ \A u \in Threads \ {t} : pc'[u] = pc[u] /\ todo'[u] = todo[u]
  BY <1>1, UndertakeType
<1>3. pc'[t] # "reply" /\ (pc'[t] # "idle" => Busy(t)')
  BY <1>2 DEF Busy
<1> QED
  BY <1>1, <1>2, <1>3, OffSocket

LEMMA AskKeeps ==
  ASSUME IdeInv, NEW t \in Users, NEW op, NEW rs \in Seq(IdeCommand), Ask(t, op, rs)
  PROVE  IdeInv'
<1>1. t \in Threads /\ pc[t] # "reply"
  BY DEF Threads, Ask, Acts
<1>2. /\ todo' \in [Threads -> Seq(IdeCommand)]
      /\ pc' \in [Threads -> {"idle", "ready", "lock", "reply"}]
      /\ Exchange'
  BY <1>1, HandOver DEF Ask, wire
<1>3. WireTypeOK'
  BY DEF IdeInv, Ask, WireTypeOK, wire
<1>4. IdeTypeOK'
  BY <1>2 DEF IdeInv, Ask, IdeTypeOK, dispatching, flags, manager,
              installation, termination
<1> QED
  BY <1>2, <1>3, <1>4 DEF IdeInv

LEMMA UserControlsKeeps ==
  ASSUME IdeInv, NEW t \in Users, UserControls(t)
  PROVE  IdeInv'
<1>1. \A v \in PlainVerbs \ ConsoleVerbs : <<Do(v)>> \in Seq(IdeCommand)
  BY CommandTypes
<1>2. /\ <<Do("resume")>> \in Seq(IdeCommand) /\ <<Do("step")>> \in Seq(IdeCommand)
      /\ <<Do("suspend")>> \in Seq(IdeCommand) /\ <<Do("exit")>> \in Seq(IdeCommand)
      /\ <<Do("watch")>> \in Seq(IdeCommand)
  BY <1>1 DEF PlainVerbs, ConsoleVerbs, ResumingVerbs, ForeignVerbs
<1> QED
  BY <1>2, AskKeeps
     DEF UserControls, Resume, StepOver, Suspend, Terminate, RemoveWatchpoint

LEMMA UserInspectsKeeps ==
  ASSUME IdeInv, NEW t \in Users, UserInspects(t)
  PROVE  IdeInv'
<1>1. /\ Do("stackforide") \in IdeCommand /\ Do("drop") \in IdeCommand
      /\ Do("var") \in IdeCommand /\ Do("data") \in IdeCommand
      /\ Do("popdata") \in IdeCommand /\ Do("pushdata") \in IdeCommand
      /\ Do("setvar") \in IdeCommand
  BY CommandTypes DEF PlainVerbs, ConsoleVerbs, QueryVerbs, ForeignVerbs, SilentVerbs
<1>2. /\ <<Do("stackforide")>> \in Seq(IdeCommand)
      /\ <<Do("stackforide"), Do("drop")>> \in Seq(IdeCommand)
      /\ <<Do("var")>> \in Seq(IdeCommand)
      /\ <<Do("data")>> \in Seq(IdeCommand)
      /\ <<Do("data"), Do("data"), Do("popdata")>> \in Seq(IdeCommand)
      /\ <<Do("pushdata")>> \in Seq(IdeCommand)
      /\ <<Do("setvar")>> \in Seq(IdeCommand)
  BY <1>1
<1> QED
  BY <1>2, AskKeeps
     DEF UserInspects, GetStackFrames, PopFrame, GetValue, SetValue, GetDataStack,
         PopData, PushData

LEMMA NotifyKeeps ==
  ASSUME IdeInv, NEW t \in Users, NEW op, UserEdits(t, op),
         NEW rs \in Seq(IdeCommand), Notify(t, rs),
         registered' \in SUBSET Lines, enabled' \in SUBSET Lines,
         managerEnabled' \in BOOLEAN
  PROVE  IdeInv'
<1>1. t \in Threads /\ pc[t] # "reply"
  BY DEF Threads, UserEdits, Acts
<1>2. PICK qs \in Seq(IdeCommand) : Undertake(t, qs)
  <2>1. <<>> \in Seq(IdeCommand)
    BY EmptySeq
  <2> QED
    BY <2>1 DEF Notify
<1>3. /\ todo' \in [Threads -> Seq(IdeCommand)]
      /\ pc' \in [Threads -> {"idle", "ready", "lock", "reply"}]
      /\ Exchange'
  BY <1>1, <1>2, HandOver DEF UserEdits, wire
<1>4. WireTypeOK'
  BY DEF IdeInv, UserEdits, WireTypeOK, wire
<1>5. IdeTypeOK'
  BY <1>3 DEF IdeInv, UserEdits, IdeTypeOK, dispatching, flags, installation,
              termination
<1> QED
  BY <1>3, <1>4, <1>5 DEF IdeInv

LEMMA UserEditsKeeps ==
  ASSUME IdeInv, NEW t \in Users, UserEditsBreakpoints(t)
  PROVE  IdeInv'
<1>1. ASSUME ToggleManager(t)
      PROVE  IdeInv'
  <2> USE DEF IdeInv, IdeTypeOK
  <2>1. PICK order \in Orders(registered) :
          Notify(t, IF managerEnabled' THEN Each(order, Break)
                                       ELSE Each(order, Clear))
    BY <1>1 DEF ToggleManager
  <2>2. Each(order, Break) \in Seq(IdeCommand) /\ Each(order, Clear) \in Seq(IdeCommand)
    BY EachType
  <2> DEFINE rs == IF managerEnabled' THEN Each(order, Break)
                                      ELSE Each(order, Clear)
  <2>3. rs \in Seq(IdeCommand) /\ Notify(t, rs)
    BY <2>1, <2>2
  <2>4. /\ registered' \in SUBSET Lines /\ enabled' \in SUBSET Lines
        /\ managerEnabled' \in BOOLEAN /\ UserEdits(t, "manager")
    BY <1>1 DEF ToggleManager
  <2> HIDE DEF rs, IdeInv
  <2> QED
    BY <2>3, <2>4, NotifyKeeps
<1>2. ASSUME NEW l \in Lines,
             \/ AddBreakpoint(t, l) \/ DeleteBreakpoint(t, l)
             \/ EnableBreakpoint(t, l) \/ DisableBreakpoint(t, l)
             \/ ChangeBreakpoint(t, l)
      PROVE  IdeInv'
  <2>1. Break(l) \in IdeCommand /\ Clear(l) \in IdeCommand
    BY CommandTypes DEF BreakableLines
  <2>2. <<Break(l)>> \in Seq(IdeCommand) /\ <<Clear(l)>> \in Seq(IdeCommand)
    BY <2>1
  <2>3. \A on \in BOOLEAN : Changed(l, on) \in Seq(IdeCommand)
    BY <2>2 DEF Changed
  <2>4. /\ registered' \in SUBSET Lines /\ enabled' \in SUBSET Lines
        /\ managerEnabled' \in BOOLEAN
    <3> USE DEF IdeInv, IdeTypeOK, AddBreakpoint, DeleteBreakpoint,
                EnableBreakpoint, DisableBreakpoint, ChangeBreakpoint
    <3>1. managerEnabled' = managerEnabled
      BY <1>2
    <3>2. registered' \in SUBSET Lines /\ enabled' \in SUBSET Lines
      BY <1>2
    <3> QED
      BY <3>1, <3>2
  <2>5. CASE AddBreakpoint(t, l)
    BY <2>2, <2>4, <2>5, NotifyKeeps DEF AddBreakpoint
  <2>6. CASE DeleteBreakpoint(t, l)
    BY <2>2, <2>4, <2>6, NotifyKeeps DEF DeleteBreakpoint
  <2>7. CASE EnableBreakpoint(t, l)
    BY <2>3, <2>4, <2>7, NotifyKeeps DEF EnableBreakpoint
  <2>8. CASE DisableBreakpoint(t, l)
    BY <2>3, <2>4, <2>8, NotifyKeeps DEF DisableBreakpoint
  <2>9. CASE ChangeBreakpoint(t, l)
    <3>1. (l \in enabled) \in BOOLEAN
      OBVIOUS
    <3>2. Changed(l, l \in enabled) \in Seq(IdeCommand)
      BY <2>3, <3>1
    <3> QED
      BY <2>4, <2>9, <3>2, NotifyKeeps DEF ChangeBreakpoint
  <2> QED
    BY <1>2, <2>5, <2>6, <2>7, <2>8, <2>9
<1> QED
  BY <1>1, <1>2 DEF UserEditsBreakpoints
-----------------------------------------------------------------------------
(* The steps of a thread with requests to make.                            *)

LEMMA RequestType ==
  ASSUME IdeInv, NEW t \in Threads, pc[t] # "idle"
  PROVE  /\ Busy(t)
         /\ todo[t] \in Seq(IdeCommand)
         /\ Request(t) \in IdeCommand
         /\ Tail(todo[t]) \in Seq(IdeCommand)
<1>1. Busy(t) /\ todo[t] \in Seq(IdeCommand)
  BY DEF IdeInv, Exchange, IdeTypeOK
<1> QED
  BY <1>1, HeadTailProperties DEF Busy, Request

(* Thread t goes on without the monitor, or waits for it.                  *)
OnlyMoves(t) ==
  /\ todo' \in [Threads -> Seq(IdeCommand)]
  /\ pc' \in [Threads -> {"idle", "ready", "lock", "reply"}]
  /\ listeners' \subseteq Lines /\ attached' \subseteq Lines
  /\ pc'[t] # "reply" /\ (pc'[t] # "idle" => todo'[t] # <<>>)
  /\ \A u \in Threads \ {t} : pc'[u] = pc[u] /\ todo'[u] = todo[u]

(* breakpointAdded and breakpointRemoved, up to the monitor.               *)
LEMMA BeginTypes ==
  ASSUME IdeInv, NEW t \in Threads, Begin(t)
  PROVE  OnlyMoves(t)
<1>1. /\ Busy(t) /\ todo[t] \in Seq(IdeCommand)
      /\ Request(t) \in IdeCommand /\ Tail(todo[t]) \in Seq(IdeCommand)
  BY RequestType DEF Begin
<1>2. /\ IdeTypeOK
      /\ todo \in [Threads -> Seq(IdeCommand)]
      /\ pc \in [Threads -> {"idle", "ready", "lock", "reply"}]
      /\ listeners \subseteq Lines /\ attached \subseteq Lines
      /\ enabled \subseteq Lines
  BY DEF IdeInv, IdeTypeOK
<1>3. ASSUME MaySend(t), UNCHANGED todo,
             listeners' \subseteq Lines, attached' \subseteq Lines
      PROVE  OnlyMoves(t)
  BY <1>1, <1>2, <1>3 DEF MaySend, Busy, OnlyMoves
<1>4. ASSUME Undertake(t, Tail(todo[t])), UNCHANGED installation
      PROVE  OnlyMoves(t)
  BY <1>1, <1>2, <1>4, UndertakeType DEF installation, OnlyMoves
<1>5. CASE Install(t)
  <2> DEFINE l == Request(t).line
  <2>1. CASE l \in enabled /\ listeners' = listeners \cup {l}
               /\ attached' = attached \cup {l} /\ MaySend(t) /\ UNCHANGED todo
    BY <1>2, <1>3, <2>1
  <2>2. CASE Undertake(t, Tail(todo[t])) /\ UNCHANGED installation
    BY <1>4, <2>2
  <2>3. CASE /\ todo' = [todo EXCEPT ![t] = <<Break(NoMarkerLine)>> \o Tail(@)]
             /\ MaySend(t) /\ UNCHANGED installation
    <3> DEFINE rs == <<Break(NoMarkerLine)>> \o Tail(todo[t])
    <3>1. Break(NoMarkerLine) \in IdeCommand
      BY CommandTypes DEF BreakableLines
    <3>2. <<Break(NoMarkerLine)>> \in Seq(IdeCommand) /\ Len(<<Break(NoMarkerLine)>>) = 1
      BY <3>1
    <3>3. rs \in Seq(IdeCommand) /\ Len(rs) = 1 + Len(Tail(todo[t]))
      BY <1>1, <3>2, ConcatProperties
    <3>4. rs # <<>>
      BY <1>1, <3>3, LenProperties, EmptySeq
    <3>5. todo' = [todo EXCEPT ![t] = rs]
      BY <2>3
    <3> HIDE DEF rs
    <3> QED
      BY <1>2, <2>3, <3>3, <3>4, <3>5 DEF MaySend, installation, OnlyMoves
  <2> QED
    BY <1>5, <2>1, <2>2, <2>3 DEF Install
<1>6. CASE Uninstall(t)
  BY <1>2, <1>3, <1>6 DEF Uninstall
<1>7. CASE TooLate(t)
  BY <1>4, <1>7 DEF TooLate
<1>8. CASE PlainRequest(t)
  BY <1>2, <1>3, <1>8 DEF PlainRequest, installation
<1> QED
  BY <1>5, <1>6, <1>7, <1>8 DEF Begin

LEMMA BeginKeeps ==
  ASSUME IdeInv, NEW t \in Threads, Begin(t)
  PROVE  IdeInv'
<1>1. OnlyMoves(t)
  BY BeginTypes
<1>2. IdeTypeOK'
  BY <1>1 DEF OnlyMoves, IdeInv, IdeTypeOK, Begin, dispatching, flags, manager, termination
<1>3. WireTypeOK'
  BY DEF IdeInv, WireTypeOK, Begin, wire
<1>4. pc[t] # "reply" /\ UNCHANGED <<lock, requests, replies, closed>>
  BY DEF Begin, wire
<1>5. Exchange'
  BY <1>1, <1>4, OffSocket DEF OnlyMoves, Busy, IdeInv
<1> QED
  BY <1>2, <1>3, <1>5 DEF IdeInv

(* The command is written to a socket that carries nothing.                *)
LEMMA SendRequestKeeps ==
  ASSUME IdeInv, NEW t \in Threads, SendRequest(t)
  PROVE  IdeInv'
<1>1. Busy(t) /\ Request(t) \in IdeCommand
  BY RequestType DEF SendRequest
<1>2. IdeTypeOK'
  BY DEF IdeInv, IdeTypeOK, SendRequest, dispatching, flags, manager,
         installation, termination
<1>3. \A u \in Threads : pc[u] # "reply"
  BY PdaAssumption DEF IdeInv, Exchange, SendRequest, Threads
<1>4. requests' \in Seq(IdeCommand) /\ WireTypeOK'
  <2>1. Append(requests, Request(t)) \in Seq(IdeCommand)
    BY <1>1, AppendProperties DEF IdeInv, Exchange
  <2>2. requests' \in Seq(IdeCommand)
    BY <2>1 DEF IdeInv, Exchange, SendRequest
  <2> QED
    BY <2>2, IdeCommandsAreCommands DEF IdeInv, WireTypeOK, SendRequest
<1>5. /\ lock' = t /\ todo' = todo
      /\ closed' => requests' = <<>>
      /\ pc'[t] = "reply"
      /\ \A u \in Threads \ {t} : pc'[u] = pc[u]
  BY DEF IdeInv, IdeTypeOK, SendRequest, Exchange
<1>6. t # Nobody
  BY PdaAssumption DEF Threads
<1>7. MaxReplyLines = 1 => OneAtATime'
  <2> SUFFICES ASSUME MaxReplyLines = 1 PROVE OneAtATime'
    OBVIOUS
  <2>1. requests = <<>> /\ replies = <<>>
    BY DEF IdeInv, Exchange, OneAtATime, Quiet, SendRequest
  <2>2. requests' = <<>> \/ requests' = <<Request(t)>>
    BY <2>1 DEF SendRequest
  <2>3. Quiet' \/ Asked(t)'
    BY <1>5, <2>1, <2>2 DEF Quiet, Asked, Request, SendRequest
  <2> QED
    BY <1>5, <1>6, <2>3 DEF OneAtATime
<1>8. \A u \in Threads : Busy(u)' <=> Busy(u)
  BY <1>5 DEF Busy
<1>9. Exchange'
  BY <1>1, <1>3, <1>4, <1>5, <1>6, <1>7, <1>8 DEF IdeInv, Exchange
<1> QED
  BY <1>2, <1>4, <1>9 DEF IdeInv
-----------------------------------------------------------------------------
(* The ends of an exchange: a reply, the end of the stream, a reset.       *)

LEMMA AfterReplyType ==
  ASSUME IdeInv, NEW t \in Threads, pc[t] = "reply", NEW rest \in AfterReply(t)
  PROVE  rest \in Seq(IdeCommand)
<1>1. Tail(todo[t]) \in Seq(IdeCommand) /\ <<>> \in Seq(IdeCommand)
  BY RequestType, EmptySeq
<1>2. ASSUME NEW n \in 1..MaxFrames
      PROVE  /\ Globals(n) \o Tail(todo[t]) \in Seq(IdeCommand)
             /\ Globals(n) \o <<>> \in Seq(IdeCommand)
  <2>1. Do("getglobals") \in IdeCommand
    BY CommandTypes DEF PlainVerbs, ConsoleVerbs, QueryVerbs
  <2>2. n \in Nat
    BY PdaAssumption
  <2>3. Globals(n) \in Seq(IdeCommand)
    BY <2>1, <2>2 DEF Globals
  <2> QED
    BY <1>1, <2>3, ConcatProperties
<1>3. CASE Request(t).verb = "stackforide"
  <2>1. PICK n \in 1..MaxFrames :
          rest = Globals(n) \o (IF n > 1 THEN Tail(todo[t]) ELSE <<>>)
    BY <1>3 DEF AfterReply
  <2> QED
    BY <1>2, <2>1
<1>4. CASE Request(t).verb = "data"
  BY <1>1, <1>4 DEF AfterReply
<1>5. CASE Request(t).verb \notin {"stackforide", "data"}
  BY <1>1, <1>5 DEF AfterReply
<1> QED
  BY <1>3, <1>4, <1>5

LEMMA DetachType ==
  ASSUME IdeInv, NEW t \in Threads, Detach(t)
  PROVE  listeners' \subseteq Lines /\ attached' \subseteq Lines
<1>1. listeners \subseteq Lines /\ attached \subseteq Lines
  BY DEF IdeInv, IdeTypeOK
<1> QED
  BY <1>1 DEF Detach, installation

(* What the three ends have in common.                                     *)
LEMMA ExchangeEnds ==
  ASSUME IdeInv, NEW t \in Threads, Release(t),
         NEW rest \in Seq(IdeCommand), Undertake(t, rest),
         requests' \in Seq(IdeCommand), replies' \in Seq(Reply),
         closed' => requests' = <<>>,
         MaxReplyLines = 1 => requests' = <<>> /\ replies' = <<>>,
         listeners' \subseteq Lines, attached' \subseteq Lines,
         UNCHANGED <<dispatching, flags, manager, termination, events,
                     connected, closed>>
  PROVE  IdeInv'
<1>1. /\ todo' \in [Threads -> Seq(IdeCommand)]
      /\ pc' \in [Threads -> {"idle", "ready", "lock", "reply"}]
      /\ todo'[t] = rest
      /\ pc'[t] = IF rest = <<>> THEN "idle" ELSE "ready"
      /\ \A u \in Threads \ {t} : pc'[u] = pc[u] /\ todo'[u] = todo[u]
  BY UndertakeType DEF IdeInv
<1>2. pc'[t] # "reply" /\ (pc'[t] # "idle" => Busy(t)')
  BY <1>1 DEF Busy
<1>3. Exchange'
  BY <1>1, <1>2, EndOfExchange DEF IdeInv
<1>4. WireTypeOK'
  BY IdeCommandsAreCommands DEF IdeInv, WireTypeOK
<1>5. IdeTypeOK'
  BY <1>1 DEF IdeInv, IdeTypeOK, Release, dispatching, flags, manager, termination
<1> QED
  BY <1>3, <1>4, <1>5 DEF IdeInv

LEMMA ReadReplyKeeps ==
  ASSUME IdeInv, NEW t \in Threads, ReadReply(t)
  PROVE  IdeInv'
<1>1. PICK rest \in AfterReply(t) : Undertake(t, rest)
  BY DEF ReadReply
<1>2. rest \in Seq(IdeCommand)
  BY AfterReplyType DEF ReadReply, Release
<1>3. lock = t
  BY DEF ReadReply, Release, IdeInv, Exchange
<1>4. MaxReplyLines = 1 => requests' = <<>> /\ replies' = <<>>
  <2> SUFFICES ASSUME MaxReplyLines = 1 PROVE requests' = <<>> /\ replies' = <<>>
    OBVIOUS
  <2>1. requests = <<>> /\ \E r \in Reply : replies = <<r>>
    BY <1>3 DEF ReadReply, IdeInv, Exchange, OneAtATime, Quiet, Asked, AnsweredTo
  <2> QED
    BY <2>1 DEF ReadReply
<1>5. /\ requests' \in Seq(IdeCommand) /\ replies' \in Seq(Reply)
      /\ closed' => requests' = <<>>
  BY HeadTailProperties DEF ReadReply, IdeInv, Exchange, WireTypeOK
<1>6. listeners' \subseteq Lines /\ attached' \subseteq Lines
  BY DetachType DEF ReadReply
<1> QED
  BY <1>1, <1>2, <1>4, <1>5, <1>6, ExchangeEnds DEF ReadReply

LEMMA ReadNullKeeps ==
  ASSUME IdeInv, NEW t \in Threads, ReadNull(t)
  PROVE  IdeInv'
<1>1. Tail(todo[t]) \in Seq(IdeCommand) /\ <<>> \in Seq(IdeCommand)
  BY RequestType, EmptySeq DEF ReadNull, Release
<1>2. requests' = <<>> /\ replies' = <<>>
  BY DEF ReadNull, IdeInv, Exchange, wire
<1>4. requests' \in Seq(IdeCommand) /\ replies' \in Seq(Reply)
  BY <1>2, EmptySeq
<1>3. listeners' \subseteq Lines /\ attached' \subseteq Lines
  BY DetachType DEF ReadNull
<1> QED
  BY <1>1, <1>2, <1>3, <1>4, ExchangeEnds DEF ReadNull, wire

LEMMA ReadFailsKeeps ==
  ASSUME IdeInv, NEW t \in Threads, ReadFails(t)
  PROVE  IdeInv'
<1>1. Tail(todo[t]) \in Seq(IdeCommand) /\ <<>> \in Seq(IdeCommand)
  BY RequestType, EmptySeq DEF ReadFails, Release
<1>2. requests' = <<>> /\ replies' = <<>>
  BY DEF ReadFails, IdeInv, Exchange
<1>4. requests' \in Seq(IdeCommand) /\ replies' \in Seq(Reply)
  BY <1>2, EmptySeq
<1>3. listeners' \subseteq Lines /\ attached' \subseteq Lines
  BY DEF ReadFails, IdeInv, IdeTypeOK, installation
<1> QED
  BY <1>1, <1>2, <1>3, <1>4, ExchangeEnds DEF ReadFails

LEMMA RequestsKeep ==
  ASSUME IdeInv, NEW t \in Threads, Requests(t)
  PROVE  IdeInv'
BY BeginKeeps, SendRequestKeeps, ReadReplyKeeps, ReadNullKeeps, ReadFailsKeeps
   DEF Requests
-----------------------------------------------------------------------------
(* The event dispatch job.                                                 *)

LEMMA TailOfEvents ==
  ASSUME IdeInv, events # <<>>
  PROVE  Head(events) \in Events /\ Tail(events) \in Seq(Events)
BY HeadTailProperties DEF IdeInv, WireTypeOK

LEMMA FlagTypes ==
  ASSUME IdeInv, NEW e \in Events, ThreadHandles(e)
  PROVE  /\ fSuspended' \in BOOLEAN /\ fStepping' \in BOOLEAN
         /\ fBreakpoint' \in Lines \cup {NoLine}
<1>1. fStepping' \in BOOLEAN
  BY DEF ThreadHandles
<1>2. fSuspended \in BOOLEAN
  BY DEF IdeInv, IdeTypeOK
<1>3. fSuspended' \in BOOLEAN
  BY <1>2 DEF ThreadHandles
<1>4. fBreakpoint' \in Lines \cup {NoLine}
  BY DEF ThreadHandles
<1> QED
  BY <1>1, <1>3, <1>4

LEMMA DispatchStartedKeeps ==
  ASSUME IdeInv, DispatchStarted
  PROVE  IdeInv'
<1>1. PICK order \in Orders(registered) :
        Undertake(Job, Each(order, Break) \o <<Do("resume")>>)
  BY DEF DispatchStarted
<1>2. Each(order, Break) \in Seq(IdeCommand)
  BY EachType DEF IdeInv, IdeTypeOK
<1>3. Do("resume") \in IdeCommand
  BY CommandTypes DEF PlainVerbs, ConsoleVerbs, ResumingVerbs
<1>4. Each(order, Break) \o <<Do("resume")>> \in Seq(IdeCommand)
  <2>1. <<Do("resume")>> \in Seq(IdeCommand)
    BY <1>3
  <2> QED
    BY <1>2, <2>1, ConcatProperties
<1>5. Job \in Threads /\ pc[Job] # "reply"
  BY DEF Threads, DispatchStarted, MayRead
<1>6. /\ todo' \in [Threads -> Seq(IdeCommand)]
      /\ pc' \in [Threads -> {"idle", "ready", "lock", "reply"}]
      /\ Exchange'
  BY <1>1, <1>4, <1>5, HandOver DEF DispatchStarted
<1>7. WireTypeOK'
  BY TailOfEvents DEF DispatchStarted, IdeInv, WireTypeOK
<1>8. IdeTypeOK'
  BY <1>6 DEF DispatchStarted, IdeInv, IdeTypeOK, flags, manager, installation,
              termination
<1> QED
  BY <1>6, <1>7, <1>8 DEF IdeInv

LEMMA StartedHandledKeeps ==
  ASSUME IdeInv, StartedHandled
  PROVE  IdeInv'
<1>1. Started \in Events
  BY DEF Started, Event, Events
<1>2. /\ fSuspended' \in BOOLEAN /\ fStepping' \in BOOLEAN
      /\ fBreakpoint' \in Lines \cup {NoLine}
  BY <1>1, FlagTypes DEF StartedHandled
<1>3. IdeTypeOK'
  BY <1>2 DEF StartedHandled, IdeInv, IdeTypeOK, requesting, manager,
              installation, termination
<1>4. WireTypeOK'
  BY DEF StartedHandled, IdeInv, WireTypeOK, wire
<1>5. Exchange'
  BY StandStill DEF StartedHandled, IdeInv, wire
<1> QED
  BY <1>3, <1>4, <1>5 DEF IdeInv

LEMMA DispatchEventKeeps ==
  ASSUME IdeInv, DispatchEvent
  PROVE  IdeInv'
<1>1. Head(events) \in Events /\ Tail(events) \in Seq(Events)
  BY TailOfEvents DEF DispatchEvent
<1>2. /\ fSuspended' \in BOOLEAN /\ fStepping' \in BOOLEAN
      /\ fBreakpoint' \in Lines \cup {NoLine}
  BY <1>1, FlagTypes DEF DispatchEvent
<1>3. hit' \in Lines \cup {NoLine}
  BY DEF DispatchEvent, IdeInv, IdeTypeOK
<1>4. IdeTypeOK'
  BY <1>2, <1>3 DEF DispatchEvent, IdeInv, IdeTypeOK, requesting, manager,
                    installation, termination
<1>5. WireTypeOK'
  BY <1>1 DEF DispatchEvent, IdeInv, WireTypeOK
<1>6. Exchange'
  BY StandStill DEF DispatchEvent, IdeInv
<1> QED
  BY <1>4, <1>5, <1>6 DEF IdeInv

LEMMA DispatchKeeps ==
  ASSUME IdeInv, Dispatch
  PROVE  IdeInv'
<1>1. CASE BreakpointHandles
  <2>1. IdeTypeOK'
    BY <1>1 DEF BreakpointHandles, IdeInv, IdeTypeOK, requesting, manager,
                installation, termination
  <2>2. WireTypeOK'
    BY <1>1 DEF BreakpointHandles, IdeInv, WireTypeOK, wire
  <2>3. Exchange'
    BY <1>1, StandStill DEF BreakpointHandles, IdeInv, wire
  <2> QED
    BY <2>1, <2>2, <2>3 DEF IdeInv
<1>2. CASE MarkerFails
  <2>1. IdeTypeOK'
    BY <1>2 DEF MarkerFails, IdeInv, IdeTypeOK, requesting, flags, manager,
                installation, termination
  <2>2. WireTypeOK'
    BY <1>2, TailOfEvents DEF MarkerFails, IdeInv, WireTypeOK
  <2>3. Exchange'
    BY <1>2, StandStill DEF MarkerFails, IdeInv
  <2> QED
    BY <2>1, <2>2, <2>3 DEF IdeInv
<1>3. CASE EndOfEvents
  <2>1. IdeTypeOK'
    BY <1>3 DEF EndOfEvents, IdeInv, IdeTypeOK, requesting, flags, manager,
                installation, termination
  <2>2. WireTypeOK'
    BY <1>3 DEF EndOfEvents, IdeInv, WireTypeOK, wire
  <2>3. Exchange'
    BY <1>3, StandStill DEF EndOfEvents, IdeInv, wire
  <2> QED
    BY <2>1, <2>2, <2>3 DEF IdeInv
<1>4. CASE EventReadFails
  <2>1. IdeTypeOK'
    BY <1>4 DEF EventReadFails, IdeInv, IdeTypeOK, requesting, dispatching,
                flags, installation
  <2>2. WireTypeOK'
    BY <1>4, EmptySeq DEF EventReadFails, IdeInv, WireTypeOK
  <2>3. Exchange'
    BY <1>4, StandStill DEF EventReadFails, IdeInv
  <2> QED
    BY <2>1, <2>2, <2>3 DEF IdeInv
<1> QED
  BY <1>1, <1>2, <1>3, <1>4, DispatchStartedKeeps, StartedHandledKeeps,
     DispatchEventKeeps DEF Dispatch
-----------------------------------------------------------------------------
(* The steps of the session.                                               *)

LEMMA PlatformKeeps ==
  ASSUME IdeInv, Listen \/ ProcessMonitor
  PROVE  IdeInv'
<1>1. CASE Listen
  <2>1. IdeTypeOK'
    BY <1>1 DEF Listen, IdeInv, IdeTypeOK, requesting, dispatching, flags,
                installation, termination
  <2>2. WireTypeOK'
    BY <1>1 DEF Listen, IdeInv, WireTypeOK, wire
  <2>3. Exchange'
    BY <1>1, StandStill DEF Listen, IdeInv, wire
  <2> QED
    BY <2>1, <2>2, <2>3 DEF IdeInv
<1>2. CASE ProcessMonitor
  <2>1. IdeTypeOK'
    BY <1>2 DEF ProcessMonitor, IdeInv, IdeTypeOK, requesting, dispatching,
                flags, manager, installation
  <2>2. WireTypeOK'
    BY <1>2 DEF ProcessMonitor, IdeInv, WireTypeOK, wire
  <2>3. Exchange'
    BY <1>2, StandStill DEF ProcessMonitor, IdeInv, wire
  <2> QED
    BY <2>1, <2>2, <2>3 DEF IdeInv
<1> QED
  BY <1>1, <1>2

(* ldb takes the one command there is and writes at most one reply to it.  *)
LEMMA LdbStepOneAtATime ==
  ASSUME IInv, LdbStep, MaxReplyLines = 1
  PROVE  OneAtATime'
<1>1. /\ Exchange /\ OneAtATime /\ WireTypeOK /\ IdeTypeOK
      /\ UNCHANGED requesting
  BY DEF IInv, IdeInv, Exchange, LdbStep, ideState
<1>2. UsesWire
  BY <1>1, LdbNextUsesWire DEF LdbStep, WireTypeOK
<1>3. UNCHANGED <<lock, pc, todo>>
  BY <1>1 DEF requesting
<1>4. CASE UNCHANGED <<requests, replies, closed>>
  BY <1>1, <1>3, <1>4 DEF OneAtATime, Quiet, Asked, AnsweredTo, Request
<1>5. CASE requests' = <<>> /\ UNCHANGED replies
  <2>1. /\ Quiet => Quiet'
        /\ \A t \in Threads : Asked(t) => Quiet'
        /\ \A t \in Threads : AnsweredTo(t) => AnsweredTo(t)'
    BY <1>3, <1>5 DEF Quiet, Asked, AnsweredTo, Request
  <2> QED
    BY <1>1, <1>3, <2>1 DEF OneAtATime
<1>6. CASE Consumes
  <2>1. lock # Nobody
    BY <1>1, <1>6 DEF Consumes, OneAtATime, Quiet
  <2>2. lock \in Threads
    BY <1>1, <2>1 DEF IdeTypeOK
  <2>3. requests = <<Request(lock)>> /\ replies = <<>>
    BY <1>1, <1>6, <2>2 DEF Consumes, OneAtATime, Quiet, Asked, AnsweredTo
  <2>4. Request(lock) \in IdeCommand /\ Len(requests) = 1 /\ Head(requests) = Request(lock)
    <3>1. pc[lock] # "idle"
      BY <1>1, <2>2 DEF Exchange
    <3>2. Request(lock) \in IdeCommand
      BY <1>1, <2>2, <3>1, RequestType DEF IdeInv
    <3> QED
      BY <2>3, <3>2
  <2>5. requests' = <<>>
    <3>1. requests' = SubSeq(requests, 2, 1)
      BY <1>6, <2>4 DEF Consumes
    <3> QED
      BY <3>1, SubSeqEmpty
  <2>6. Quiet' \/ AnsweredTo(lock)'
    <3>1. CASE UNCHANGED replies
      BY <2>3, <2>5, <3>1 DEF Quiet
    <3>2. ASSUME NEW text \in {"ok", "value", "ERROR"},
                 replies' = Append(replies, [to |-> Head(requests), text |-> text])
          PROVE  AnsweredTo(lock)'
      <4> DEFINE r == [to |-> Request(lock), text |-> text]
      <4>1. r \in Reply /\ r.to = Request(lock)
        BY <2>4, IdeCommandsAreCommands DEF Reply
      <4>2. replies' = <<r>>
        BY <2>3, <2>4, <3>2
      <4>3. Request(lock)' = Request(lock)
        BY <1>3 DEF Request
      <4> HIDE DEF r
      <4>4. \E q \in Reply : replies' = <<q>> /\ q.to = Request(lock)
        BY <4>1, <4>2
      <4> QED
        BY <2>5, <4>3, <4>4 DEF AnsweredTo
    <3> QED
      BY <1>6, <3>1, <3>2 DEF Consumes
  <2> QED
    BY <1>3, <2>1, <2>2, <2>6 DEF OneAtATime
<1> QED
  BY <1>2, <1>4, <1>5, <1>6 DEF UsesWire

(* ldb adds nothing to the requests.                                       *)
LEMMA FewerRequests ==
  ASSUME requests \in Seq(IdeCommand), UsesWire
  PROVE  requests' \in Seq(IdeCommand)
<1>1. CASE Consumes
  <2>1. PICK k \in 1..Len(requests) :
          requests' = SubSeq(requests, k + 1, Len(requests))
    BY <1>1 DEF Consumes
  <2>2. /\ Len(requests) \in Nat
        /\ \A i \in 1..Len(requests) : requests[i] \in IdeCommand
    BY LenProperties
  <2>3. /\ k + 1 \in Int /\ Len(requests) \in Int
        /\ \A i \in k + 1..Len(requests) : requests[i] \in IdeCommand
    BY <2>1, <2>2
  <2>4. SubSeq(requests, k + 1, Len(requests)) \in Seq(IdeCommand)
    BY <2>3, SubSeqProperties
  <2> QED
    BY <2>1, <2>4
<1> QED
  BY <1>1, EmptySeq DEF UsesWire

LEMMA LdbStepExchange ==
  ASSUME IInv, LdbStep
  PROVE  Exchange'
<1>1. Exchange /\ WireTypeOK /\ UNCHANGED <<lock, pc, todo>>
  BY DEF IInv, IdeInv, LdbStep, ideState, requesting
<1>2. closed' => requests' = <<>>
  <2>1. UsesWire
    BY <1>1, LdbNextUsesWire DEF LdbStep, WireTypeOK
  <2>2. requests = <<>> => ~Consumes
    BY DEF Consumes
  <2> QED
    BY <1>1, <2>1, <2>2 DEF UsesWire, Exchange, Consumes
<1>3. MaxReplyLines = 1 => OneAtATime'
  BY LdbStepOneAtATime
<1>4. requests' \in Seq(IdeCommand)
  BY <1>1, FewerRequests, LdbNextUsesWire DEF LdbStep, WireTypeOK, Exchange
<1> QED
  BY <1>1, <1>2, <1>3, <1>4 DEF Exchange, Busy

LEMMA LdbStepKeeps ==
  ASSUME IInv, LdbStep
  PROVE  IInv'
<1>1. WireTypeOK' /\ LdbTypeOK'
  BY LdbNextTyping DEF LdbStep, LdbTyping, IInv, IdeInv
<1>2. IdeTypeOK'
  BY DEF LdbStep, ideState, requesting, dispatching, flags, manager,
         installation, termination, IInv, IdeInv, IdeTypeOK
<1>3. Exchange'
  BY LdbStepExchange
<1> QED
  BY <1>1, <1>2, <1>3 DEF IInv, IdeInv

LEMMA LdbStateKept ==
  ASSUME LdbTypeOK, UNCHANGED ldbState
  PROVE  LdbTypeOK'
BY DEF ldbState, LdbTypeOK
-----------------------------------------------------------------------------
(* IInv holds in the initial states and is kept by every step.             *)

LEMMA InitIInv == Init => IInv
<1> SUFFICES ASSUME Init PROVE IInv
  OBVIOUS
<1>1. WireTypeOK /\ LdbTypeOK
  BY LdbInitTyping DEF Init, LdbTyping
<1>2. IdeTypeOK
  BY EmptySeq, PdaAssumption DEF Init, IdeInit, IdeTypeOK, Threads
<1>3. Exchange
  BY PdaAssumption, EmptySeq
     DEF Init, IdeInit, WireInit, Exchange, OneAtATime, Quiet, Threads
<1> QED
  BY <1>1, <1>2, <1>3 DEF IInv, IdeInv

LEMMA NextIInv == IInv /\ [Next]_vars => IInv'
<1> SUFFICES ASSUME IInv, [Next]_vars PROVE IInv'
  OBVIOUS
<1>1. CASE LdbStep
  BY <1>1, LdbStepKeeps
<1>2. CASE UserStep
  BY <1>2, UserControlsKeeps, UserInspectsKeeps, UserEditsKeeps, LdbStateKept
     DEF UserStep, IInv
<1>3. CASE DispatchStep
  BY <1>3, DispatchKeeps, LdbStateKept DEF DispatchStep, IInv
<1>4. CASE PlatformStep
  BY <1>4, PlatformKeeps, LdbStateKept DEF PlatformStep, IInv
<1>5. CASE \E t \in Threads : RequestStep(t)
  BY <1>5, RequestsKeep, LdbStateKept DEF RequestStep, IInv
<1>6. CASE UNCHANGED vars
  <2>1. UNCHANGED ldbState /\ UNCHANGED wire /\ UNCHANGED ideState
    BY <1>6 DEF vars
  <2>2. WireTypeOK'
    BY <2>1 DEF wire, IInv, IdeInv, WireTypeOK
  <2>3. IdeTypeOK'
    BY <2>1 DEF ideState, requesting, dispatching, flags, manager,
                installation, termination, IInv, IdeInv, IdeTypeOK
  <2>4. Exchange'
    BY <2>1, StandStill DEF wire, ideState, IInv, IdeInv
  <2> QED
    BY <2>1, <2>2, <2>3, <2>4, LdbStateKept DEF IInv, IdeInv
<1>7. CASE Over
  BY <1>6, <1>7 DEF Over
<1> QED
  BY <1>1, <1>2, <1>3, <1>4, <1>5, <1>6, <1>7 DEF Next
-----------------------------------------------------------------------------
(* The state of a session has its declared types, for any set of lines,    *)
(* scripts and IDE threads (the variables of DebugSession: Wire, Ldb and   *)
(* PdaTarget).                                                             *)
THEOREM TypeCorrect == Spec => []TypeOK
<1>1. IInv => TypeOK
  BY DEF IInv, IdeInv, TypeOK
<1> QED
  BY <1>1, InitIInv, NextIInv, PTL DEF Spec

(* A reply is read by the thread that asked for it, and at most one        *)
(* command or reply is on the request socket: the monitor of               *)
(* PDADebugTarget.sendRequest (PDADebugTarget.java:474-487) is enough for  *)
(* any number of IDE threads, whatever they ask, whenever ldb dies.        *)
(* It takes that no printed value has a newline (MaxReplyLines = 1).       *)
THEOREM RepliesGoToWhoAsked ==
  ASSUME MaxReplyLines = 1
  PROVE  Spec => []RepliesMatch
<1>1. IInv => RepliesMatch
  <2> SUFFICES ASSUME IInv PROVE RepliesMatch
    OBVIOUS
  <2>1. Exchange /\ OneAtATime /\ lock \in Threads \cup {Nobody}
    BY DEF IInv, IdeInv, IdeTypeOK, Exchange
  <2>2. Len(requests) + Len(replies) <= 1
    <3>1. CASE Quiet
      BY <3>1 DEF Quiet
    <3>2. ASSUME NEW t \in Threads, Asked(t)
          PROVE  Len(requests) + Len(replies) <= 1
      BY <3>2 DEF Asked
    <3>3. ASSUME NEW t \in Threads, AnsweredTo(t)
          PROVE  Len(requests) + Len(replies) <= 1
      BY <3>3 DEF AnsweredTo
    <3> QED
      BY <2>1, <3>1, <3>2, <3>3 DEF OneAtATime
  <2>3. ASSUME NEW t \in Threads, pc[t] = "reply"
        PROVE  /\ lock = t
               /\ requests # <<>> => requests[1] = Request(t)
               /\ replies # <<>> => replies[1].to = Request(t)
    BY <2>1, <2>3 DEF Exchange, OneAtATime, Quiet, Asked, AnsweredTo
  <2> QED
    BY <2>2, <2>3 DEF RepliesMatch
<1> QED
  BY <1>1, InitIInv, NextIInv, PTL DEF Spec

-----------------------------------------------------------------------------
(* What the IDE shows agrees with what ldb does, once the events are       *)
(* delivered.  The invariant, Told, follows a mode of ldb to the IDE: it   *)
(* is in the last event under way, and when none is under way it is in     *)
(* the flags of the thread.  While the job is busy with "started" it reads *)
(* no event, so there the mode must still be on its way.                   *)

Ended == at \in {"exited", "aborted"}
Continues == at = "run" /\ debuggerStates = "CONTINUING"
LastSent == events[Len(events)].kind

(* ldb's end of the sockets closes with the process, the IDE's never.      *)
SocketsLive == connected /\ (closed => Ended)

StartsStepping == at = "accepted" => debuggerStates = "STEPPING"

UnderWay ==
  events # <<>> =>
    /\ at = "parse" => LastSent = "suspended"
    /\ Continues => LastSent = "resumed"

StartsUntold ==
  events = <<>> /\ jobState = "starting" => at # "parse" /\ ~Continues

Shown ==
  events = <<>> /\ jobState = "reading" =>
    /\ at = "parse" => fSuspended
    /\ Continues => ~fSuspended

Told == SocketsLive /\ StartsStepping /\ UnderWay /\ StartsUntold /\ Shown
-----------------------------------------------------------------------------
(* The steps of ldb.                                                       *)

(* The sockets close when the process ends, and then it does nothing.      *)
LEMMA LdbClosesAtTheEnd ==
  ASSUME connected, LdbNext
  PROVE  /\ UNCHANGED closed \/ Ended'
         /\ ~(closed /\ Ended)
<1>1. CASE Finish \/ Fail \/ SendFails \/ Killed
  BY <1>1 DEF Finish, Fail, SendFails, Killed, Ended
<1>2. CASE Start \/ PeerClosed
  BY <1>2 DEF Start, PeerClosed, wire, Ended
<1>3. CASE HookLine
  BY <1>3 DEF HookLine, Pass, StopAtBreakpoint, StopAtStep, Arrive, wire, Ended
<1>4. ASSUME NEW cmd, Execute(cmd)
      PROVE  /\ UNCHANGED closed \/ Ended'
             /\ at = "parse"
  BY <1>4 DEF Execute, DoQuery, DoSuspend, DoBreak, DoClear, DoStep, DoResume,
              DoQuit, DoSilent, DoUnknown, DoPopData, DoNoWord, Dies, Receive, Ended
<1> QED
  BY <1>1, <1>2, <1>3, <1>4 DEF LdbNext, Parse, Ended

LEMMA NobodyQuits == IInv => ~Quits
<1> SUFFICES ASSUME IInv, requests # <<>> PROVE Head(requests).verb # "quit"
  BY DEF Quits
<1>1. Head(requests) \in IdeCommand
  BY HeadTailProperties DEF IInv, IdeInv, Exchange
<1> QED
  BY <1>1 DEF IdeCommand, ConsoleVerbs

LEMMA LdbTells ==
  ASSUME IInv, Told, LdbStep
  PROVE  Told'
<1>1. LdbNext /\ connected /\ events \in Seq(Events)
  BY DEF IInv, IdeInv, WireTypeOK, Told, SocketsLive, LdbStep
<1>2. UNCHANGED <<jobState, fSuspended>>
  BY DEF LdbStep, ideState, dispatching, flags
<1>3. SocketsLive'
  <2>1. connected' /\ (closed => Ended)
    BY <1>1, LdbKeepsConnected DEF Told, SocketsLive
  <2>2. closed' => Ended'
    BY <1>1, <2>1, LdbClosesAtTheEnd
  <2> QED
    BY <2>1, <2>2 DEF SocketsLive
<1>4. TellsItAll /\ ~Quits
  BY <1>1, LdbNextTells, NobodyQuits
<1>5. \A kind : Tells(kind) => events' # <<>> /\ LastSent' = kind
  BY <1>1, TellsLast DEF LastSent
<1>6. CASE Ends
  BY <1>3, <1>6 DEF Ends, Told, StartsStepping, UnderWay, StartsUntold, Shown,
                    Continues
<1>7. CASE Silent
  <2>1. UNCHANGED <<at, debuggerStates, events, Continues, LastSent>>
    BY <1>7 DEF Silent, Continues, LastSent
  <2> QED
    BY <1>2, <1>3, <2>1 DEF Told, StartsStepping, UnderWay, StartsUntold, Shown
<1>8. CASE TellsStarted
  <2>1. events' # <<>> /\ at' = "run" /\ ~Continues'
    BY <1>5, <1>8 DEF TellsStarted, Told, StartsStepping, Continues
  <2> QED
    BY <1>3, <2>1 DEF Told, StartsStepping, UnderWay, StartsUntold, Shown
<1>9. CASE TellsStopped
  <2>1. events' # <<>> /\ LastSent' = "suspended" /\ at' = "parse" /\ ~Continues'
    BY <1>5, <1>9 DEF TellsStopped, Continues
  <2> QED
    BY <1>3, <2>1 DEF Told, StartsStepping, UnderWay, StartsUntold, Shown
<1>10. CASE TellsResumed
  <2>1. events' # <<>> /\ LastSent' = "resumed" /\ at' = "run"
    BY <1>5, <1>10 DEF TellsResumed
  <2> QED
    BY <1>3, <2>1 DEF Told, StartsStepping, UnderWay, StartsUntold, Shown
<1>11. CASE TellsStepped
  <2>1. events' # <<>> /\ at' = "run" /\ ~Continues'
    BY <1>5, <1>11 DEF TellsStepped, Continues
  <2> QED
    BY <1>3, <2>1 DEF Told, StartsStepping, UnderWay, StartsUntold, Shown
<1> QED
  BY <1>4, <1>6, <1>7, <1>8, <1>9, <1>10, <1>11 DEF TellsItAll
-----------------------------------------------------------------------------
(* The steps of the IDE: only the dispatch job takes an event or changes   *)
(* what the thread shows.                                                  *)

LEMMA ElsewhereKeepsTold ==
  ASSUME Told, UNCHANGED <<ldbState, events, connected, closed, dispatching, flags>>
  PROVE  Told'
<1>1. UNCHANGED <<at, debuggerStates, Continues, Ended, LastSent, jobState,
                  fSuspended, events, connected, closed>>
  BY DEF ldbState, dispatching, flags, Continues, Ended, LastSent
<1> QED
  BY <1>1 DEF Told, SocketsLive, StartsStepping, UnderWay, StartsUntold, Shown

LEMMA UserKeepsTold ==
  ASSUME Told, UserStep
  PROVE  Told'
<1>1. ASSUME NEW t, NEW op, NEW rs, Ask(t, op, rs)
      PROVE  UNCHANGED <<wire, dispatching, flags>>
  BY <1>1 DEF Ask
<1>2. ASSUME NEW t, UserControls(t) \/ UserInspects(t)
      PROVE  UNCHANGED <<wire, dispatching, flags>>
  BY <1>1, <1>2 DEF UserControls, UserInspects, Resume, StepOver, Suspend,
       Terminate, RemoveWatchpoint, GetStackFrames, PopFrame, GetValue, SetValue,
       GetDataStack, PopData, PushData
<1>3. ASSUME NEW t, UserEditsBreakpoints(t)
      PROVE  UNCHANGED <<wire, dispatching, flags>>
  BY <1>3 DEF UserEditsBreakpoints, ToggleManager, AddBreakpoint, DeleteBreakpoint,
       EnableBreakpoint, DisableBreakpoint, ChangeBreakpoint, UserEdits
<1>4. UNCHANGED <<wire, dispatching, flags, ldbState>>
  BY <1>2, <1>3 DEF UserStep
<1> QED
  BY <1>4, ElsewhereKeepsTold DEF wire

LEMMA RequestKeepsTold ==
  ASSUME Told, NEW t \in Threads, RequestStep(t)
  PROVE  Told'
<1>1. UNCHANGED <<events, connected, closed, dispatching, flags>>
  BY DEF RequestStep, Requests, Begin, SendRequest, ReadReply, ReadNull, ReadFails,
         wire
<1> QED
  BY <1>1, ElsewhereKeepsTold DEF RequestStep

(* An event taken leaves the last one last, unless it was the last.        *)
LEMMA TakingAnEvent ==
  ASSUME IInv, events # <<>>, events' = Tail(events)
  PROVE  IF events' = <<>> THEN Head(events).kind = LastSent
                           ELSE LastSent' = LastSent
<1>1. events \in Seq(Events)
  BY DEF IInv, IdeInv, WireTypeOK
<1> QED
  BY <1>1, LastOfTail DEF LastSent

LEMMA DispatchKeepsTold ==
  ASSUME IInv, Told, DispatchStep
  PROVE  Told'
<1> USE DEF Told, SocketsLive, StartsStepping, UnderWay, StartsUntold, Shown
<1>1. UNCHANGED <<at, debuggerStates, Continues, Ended>>
  BY DEF DispatchStep, ldbState, Continues, Ended
<1>2. events # <<>> /\ events' = Tail(events) =>
        IF events' = <<>> THEN Head(events).kind = LastSent
                          ELSE LastSent' = LastSent
  BY TakingAnEvent
<1>3. CASE DispatchStarted
  <2>1. Head(events).kind = "started" /\ jobState' = "starting"
    BY <1>3 DEF DispatchStarted, Started, Event
  <2> QED
    BY <1>1, <1>2, <1>3, <2>1 DEF DispatchStarted
<1>4. CASE StartedHandled
  <2>1. UNCHANGED <<events, connected, closed, fSuspended, LastSent>>
    BY <1>4 DEF StartedHandled, wire, ThreadHandles, Started, Event, LastSent
  <2> QED
    BY <1>1, <1>4, <2>1 DEF StartedHandled
<1>5. CASE DispatchEvent
  <2>1. fSuspended' = CASE Head(events).kind = "resumed" -> FALSE
                        [] Head(events).kind = "suspended" -> TRUE
                        [] OTHER -> fSuspended
    BY <1>5 DEF DispatchEvent, ThreadHandles
  <2>2. UNCHANGED <<connected, closed, jobState>> /\ jobState = "reading"
    BY <1>5 DEF DispatchEvent, MayRead
  <2> QED
    BY <1>1, <1>2, <1>5, <2>1, <2>2 DEF DispatchEvent, Continues
<1>6. CASE BreakpointHandles
  <2>1. UNCHANGED <<events, connected, closed, fSuspended, jobState, LastSent>>
    BY <1>6 DEF BreakpointHandles, wire, LastSent
  <2> QED
    BY <1>1, <2>1
<1>7. CASE MarkerFails
  BY <1>1, <1>2, <1>7 DEF MarkerFails
<1>8. CASE EndOfEvents
  <2>1. UNCHANGED <<events, connected, closed, LastSent>> /\ jobState' = "finished"
    BY <1>8 DEF EndOfEvents, wire, LastSent
  <2> QED
    BY <1>1, <2>1
<1>9. CASE EventReadFails
  <2>1. events' = <<>> /\ closed /\ UNCHANGED <<connected, closed>>
    BY <1>9 DEF EventReadFails
  <2> QED
    BY <1>1, <2>1 DEF Ended, Continues
<1> QED
  BY <1>3, <1>4, <1>5, <1>6, <1>7, <1>8, <1>9 DEF DispatchStep, Dispatch
-----------------------------------------------------------------------------
LEMMA InitTold == Init => Told
BY DEF Init, WireInit, LdbInit, IdeInit, Told, SocketsLive, StartsStepping,
       UnderWay, StartsUntold, Shown, Continues, Ended

LEMMA NextTold == IInv /\ Told /\ [Next]_vars => Told'
<1> SUFFICES ASSUME IInv, Told, [Next]_vars PROVE Told'
  OBVIOUS
<1>1. CASE UNCHANGED vars
  BY <1>1, ElsewhereKeepsTold DEF vars, wire, ideState
<1>2. CASE PlatformStep
  BY <1>2, ElsewhereKeepsTold DEF PlatformStep, Listen, ProcessMonitor, wire
<1> QED
  BY <1>1, <1>2, LdbTells, UserKeepsTold, RequestKeepsTold, DispatchKeepsTold
     DEF Next, Over

LEMMA ToldAlways == Spec => []Told
<1>1. Spec => []IInv
  BY InitIInv, NextIInv, PTL DEF Spec
<1> QED
  BY <1>1, InitTold, NextTold, PTL DEF Spec

(* Once every event is delivered the thread's view is ldb's: it is shown   *)
(* suspended while ldb is in its command loop and not suspended while the  *)
(* program runs to its next breakpoint, however the threads of the IDE,    *)
(* the dispatch job and ldb interleave, for any users, lines and replies   *)
(* (PDAThread.java:280-315, PDADebugTarget.java:389-409).                  *)
THEOREM ViewsAgree == Spec => []ModesAgree
<1>1. Told => ModesAgree
  BY DEF Told, Shown, ModesAgree, Delivered, Continues
<1> QED
  BY <1>1, ToldAlways, PTL
-----------------------------------------------------------------------------
(***************************************************************************)
(* The breakpoints of a session reach ldb: those registered at the launch  *)
(* before the program is let go, and none that is installed is lost.  Both *)
(* follow the requests of the threads from the operation that makes them   *)
(* to the reply, and both take that a value is one line of a reply         *)
(* (MaxReplyLines = 1), so that a reply acknowledges the thread's own      *)
(* request.                                                                *)
(***************************************************************************)

(* The requests thread t has still to make, the one under way included.    *)
Asks(t) == LinesOf(todo[t])

IdleHasNone == \A t \in Threads : pc[t] = "idle" => todo[t] = <<>>

TerminatedIsClosed == IsTerminated => closed

(* An acknowledged "break" is in the vector of the source ldb is stopped   *)
(* in, and until the reply is read ldb stays there.                        *)
Acknowledged(t) ==
  lock = t /\ AnsweredTo(t)
    /\ Request(t).verb = "break" /\ Request(t).line # NoLine

BreaksAreSet ==
  MaxReplyLines = 1 =>
    \A t \in Threads : Acknowledged(t) =>
      /\ Request(t).line \in LinesOf(breakpoints[source])
      /\ at = "parse" \/ Ended

Issued == IdleHasNone /\ TerminatedIsClosed /\ BreaksAreSet

(* Everything proved so far of every reachable state.                      *)
Known == IInv /\ Told
-----------------------------------------------------------------------------
(* Sequences and what is in them.                                          *)

LEMMA InConcat ==
  ASSUME NEW S, NEW r \in Seq(S), NEW s \in Seq(S)
  PROVE  LinesOf(r \o s) = LinesOf(r) \cup LinesOf(s)
<1>1. /\ Len(r) \in Nat /\ Len(s) \in Nat
      /\ DOMAIN r = 1..Len(r) /\ DOMAIN s = 1..Len(s)
      /\ DOMAIN (r \o s) = 1..Len(r) + Len(s)
      /\ \A i \in 1..Len(r) + Len(s) :
           (r \o s)[i] = IF i <= Len(r) THEN r[i] ELSE s[i - Len(r)]
  BY ConcatProperties, LenProperties
<1>2. ASSUME NEW x \in LinesOf(r \o s)
      PROVE  x \in LinesOf(r) \cup LinesOf(s)
  <2>1. PICK i \in 1..Len(r) + Len(s) : x = (r \o s)[i]
    BY <1>1, <1>2 DEF LinesOf
  <2>2. CASE i <= Len(r)
    BY <1>1, <2>1, <2>2 DEF LinesOf
  <2>3. CASE ~(i <= Len(r))
    <3>1. i - Len(r) \in 1..Len(s) /\ x = s[i - Len(r)]
      BY <1>1, <2>1, <2>3
    <3> QED
      BY <1>1, <3>1 DEF LinesOf
  <2> QED
    BY <2>2, <2>3
<1>3. ASSUME NEW x \in LinesOf(r)
      PROVE  x \in LinesOf(r \o s)
  <2>1. PICK i \in 1..Len(r) : x = r[i]
    BY <1>1, <1>3 DEF LinesOf
  <2>2. i \in 1..Len(r) + Len(s) /\ x = (r \o s)[i]
    BY <1>1, <2>1
  <2> QED
    BY <1>1, <2>2 DEF LinesOf
<1>4. ASSUME NEW x \in LinesOf(s)
      PROVE  x \in LinesOf(r \o s)
  <2>1. PICK i \in 1..Len(s) : x = s[i]
    BY <1>1, <1>4 DEF LinesOf
  <2>2. /\ i + Len(r) \in 1..Len(r) + Len(s) /\ ~(i + Len(r) <= Len(r))
        /\ (i + Len(r)) - Len(r) = i
    BY <1>1, <2>1
  <2> QED
    BY <1>1, <2>1, <2>2 DEF LinesOf
<1> QED
  BY <1>2, <1>3, <1>4

LEMMA InHeadOrTail ==
  ASSUME NEW S, NEW s \in Seq(S), s # <<>>
  PROVE  LinesOf(s) = {Head(s)} \cup LinesOf(Tail(s))
<1>1. /\ Len(s) \in Nat /\ Len(s) > 0 /\ DOMAIN s = 1..Len(s)
      /\ Tail(s) \in Seq(S) /\ Len(Tail(s)) = Len(s) - 1
      /\ DOMAIN Tail(s) = 1..Len(s) - 1
      /\ Head(s) = s[1]
      /\ \A i \in 1..Len(s) - 1 : Tail(s)[i] = s[i + 1]
  BY HeadTailProperties, LenProperties, EmptySeq
<1>2. ASSUME NEW x \in LinesOf(s), x # Head(s)
      PROVE  x \in LinesOf(Tail(s))
  <2>1. PICK i \in 1..Len(s) : x = s[i]
    BY <1>1, <1>2 DEF LinesOf
  <2>2. i - 1 \in 1..Len(s) - 1 /\ (i - 1) + 1 = i
    BY <1>1, <1>2, <2>1
  <2> QED
    BY <1>1, <2>1, <2>2 DEF LinesOf
<1>3. Head(s) \in LinesOf(s)
  BY <1>1 DEF LinesOf
<1>4. ASSUME NEW x \in LinesOf(Tail(s))
      PROVE  x \in LinesOf(s)
  <2>1. PICK i \in 1..Len(s) - 1 : x = Tail(s)[i]
    BY <1>1, <1>4 DEF LinesOf
  <2>2. i + 1 \in 1..Len(s) /\ x = s[i + 1]
    BY <1>1, <2>1
  <2> QED
    BY <1>1, <2>2 DEF LinesOf
<1> QED
  BY <1>2, <1>3, <1>4

LEMMA InEmpty == LinesOf(<<>>) = {}
BY DEF LinesOf

LEMMA InOne == \A x : LinesOf(<<x>>) = {x}
BY DEF LinesOf

(* Each(order, Cmd) asks for every element of the set, and nothing else.   *)
LEMMA OrderIsOnto ==
  ASSUME NEW S, S \subseteq Lines, NEW f \in Orders(S), NEW l \in S
  PROVE  \E i \in DOMAIN f : f[i] = l
<1>1. IsFiniteSet(S) /\ Cardinality(S) \in Nat
  BY LinesAssumption, FS_Subset, FS_CardinalityType
<1>2. /\ f \in [1..Cardinality(S) -> S]
      /\ \A i, j \in 1..Cardinality(S) : f[i] = f[j] => i = j
  BY DEF Orders
<1> SUFFICES ASSUME \A i \in 1..Cardinality(S) : f[i] # l PROVE FALSE
  BY <1>2
<1>3. f \in [1..Cardinality(S) -> S \ {l}]
  BY <1>2
<1>4. IsFiniteSet(S \ {l}) /\ Cardinality(S \ {l}) = Cardinality(S) - 1
  BY <1>1, FS_RemoveElement
<1>5. /\ IsFiniteSet(1..Cardinality(S))
      /\ Cardinality(1..Cardinality(S)) = Cardinality(S)
  <2>1. Cardinality(1..Cardinality(S)) = IF 1 > Cardinality(S) THEN 0 ELSE Cardinality(S) - 1 + 1
    BY <1>1, FS_Interval
  <2> QED
    BY <1>1, <2>1, FS_Interval
<1>6. Cardinality(S \ {l}) < Cardinality(1..Cardinality(S))
  BY <1>1, <1>4, <1>5
<1>7. \E x, y \in 1..Cardinality(S) : x # y /\ f[x] = f[y]
  <2> DEFINE places == 1..Cardinality(S)
             others == S \ {l}
  <2>1. /\ IsFiniteSet(places) /\ IsFiniteSet(others)
        /\ Cardinality(others) < Cardinality(places) /\ f \in [places -> others]
    BY <1>3, <1>4, <1>5, <1>6
  <2> HIDE DEF places, others
  <2>2. \E x, y \in places : x # y /\ f[x] = f[y]
    BY <2>1, FS_PigeonHole
  <2> QED
    BY <2>2 DEF places
<1> QED
  BY <1>2, <1>7

LEMMA EachAsks ==
  ASSUME NEW S, S \subseteq Lines, NEW f \in Orders(S)
  PROVE  /\ LinesOf(Each(f, Break)) = {Break(l) : l \in S}
         /\ LinesOf(Each(f, Clear)) = {Clear(l) : l \in S}
<1>1. \A i \in DOMAIN f : f[i] \in S
  BY DEF Orders
<1>2. \A l \in S : \E i \in DOMAIN f : f[i] = l
  BY OrderIsOnto
<1>3. /\ DOMAIN Each(f, Break) = DOMAIN f
      /\ \A i \in DOMAIN f : Each(f, Break)[i] = Break(f[i])
      /\ DOMAIN Each(f, Clear) = DOMAIN f
      /\ \A i \in DOMAIN f : Each(f, Clear)[i] = Clear(f[i])
  BY DEF Each
<1>4. /\ LinesOf(Each(f, Break)) = {Break(f[i]) : i \in DOMAIN f}
      /\ LinesOf(Each(f, Clear)) = {Clear(f[i]) : i \in DOMAIN f}
  BY <1>3 DEF LinesOf
<1> HIDE DEF LinesOf, Each, Break, Clear
<1> QED
  BY <1>1, <1>2, <1>4
-----------------------------------------------------------------------------
(* How a thread's requests change.                                         *)

LEMMA FirstIsAsked ==
  ASSUME IInv, NEW t \in Threads, pc[t] # "idle"
  PROVE  /\ Request(t) \in IdeCommand /\ Request(t) \in Asks(t)
         /\ Asks(t) = {Request(t)} \cup LinesOf(Tail(todo[t]))
         /\ todo[t] # <<>>
<1>1. todo[t] # <<>> /\ todo[t] \in Seq(IdeCommand) /\ Request(t) \in IdeCommand
  BY RequestType DEF IInv, Busy
<1> QED
  BY <1>1, InHeadOrTail DEF Asks, Request

(* What a thread may come to ask for while it works off its requests.      *)
Byproducts == {Do("getglobals"), Break(NoMarkerLine)}

LEMMA BeginAsksLess ==
  ASSUME IInv, NEW t \in Threads, Begin(t)
  PROVE  Asks(t)' \subseteq Asks(t) \cup Byproducts
<1>1. /\ Asks(t) = {Request(t)} \cup LinesOf(Tail(todo[t]))
      /\ Tail(todo[t]) \in Seq(IdeCommand)
  BY FirstIsAsked, RequestType DEF Begin, IInv
<1>2. todo \in [Threads -> Seq(IdeCommand)] /\ Asks(t)' = LinesOf(todo'[t])
  BY DEF IInv, IdeInv, IdeTypeOK, Asks, LinesOf
<1>3. CASE UNCHANGED todo
  BY <1>3 DEF Asks, LinesOf
<1>4. CASE Undertake(t, Tail(todo[t]))
  BY <1>1, <1>2, <1>4 DEF Undertake
<1>5. CASE todo' = [todo EXCEPT ![t] = <<Break(NoMarkerLine)>> \o Tail(@)]
  <2> DEFINE first == <<Break(NoMarkerLine)>>
             rest == Tail(todo[t])
  <2>1. first \in Seq(IdeCommand) /\ LinesOf(first) = {Break(NoMarkerLine)}
    BY CommandTypes, InOne DEF BreakableLines
  <2>2. rest \in Seq(IdeCommand) /\ LinesOf(rest) \subseteq Asks(t)
    BY <1>1
  <2>3. todo'[t] = first \o rest
    BY <1>2, <1>5
  <2> HIDE DEF first, rest
  <2>4. LinesOf(first \o rest) = LinesOf(first) \cup LinesOf(rest)
    BY <2>1, <2>2, InConcat
  <2> QED
    BY <1>2, <2>1, <2>2, <2>3, <2>4 DEF Byproducts
<1> QED
  BY <1>3, <1>4, <1>5 DEF Begin, Install, Uninstall, TooLate, PlainRequest

LEMMA RestAsksLess ==
  ASSUME IInv, NEW t \in Threads, pc[t] = "reply", NEW rest \in AfterReply(t)
  PROVE  LinesOf(rest) \subseteq LinesOf(Tail(todo[t])) \cup Byproducts
<1>1. Tail(todo[t]) \in Seq(IdeCommand) /\ <<>> \in Seq(IdeCommand)
  BY RequestType, EmptySeq DEF IInv
<1>2. ASSUME NEW n \in 1..MaxFrames, NEW r \in Seq(IdeCommand)
      PROVE  LinesOf(Globals(n) \o r) \subseteq LinesOf(r) \cup Byproducts
  <2>1. n \in Nat /\ Do("getglobals") \in IdeCommand
    BY PdaAssumption, CommandTypes DEF PlainVerbs, ConsoleVerbs, QueryVerbs
  <2>2. /\ Globals(n) \in Seq(IdeCommand)
        /\ \A i \in DOMAIN Globals(n) : Globals(n)[i] = Do("getglobals")
    BY <2>1 DEF Globals
  <2>3. LinesOf(Globals(n)) \subseteq Byproducts
    BY <2>2 DEF LinesOf, Byproducts
  <2> QED
    BY <1>2, <2>2, <2>3, InConcat
<1>3. CASE Request(t).verb = "stackforide"
  <2>1. PICK n \in 1..MaxFrames :
          rest = Globals(n) \o (IF n > 1 THEN Tail(todo[t]) ELSE <<>>)
    BY <1>3 DEF AfterReply
  <2> QED
    BY <1>1, <1>2, <2>1, InEmpty
<1>4. CASE Request(t).verb # "stackforide"
  <2>1. rest = Tail(todo[t]) \/ rest = <<>>
    BY <1>4 DEF AfterReply
  <2> QED
    BY <2>1, InEmpty
<1> QED
  BY <1>3, <1>4

LEMMA RequestsAskLess ==
  ASSUME IInv, NEW t \in Threads, Requests(t)
  PROVE  /\ pc[t] # "idle"
         /\ Asks(t)' \subseteq Asks(t) \cup Byproducts
         /\ \A u \in Threads \ {t} : pc'[u] = pc[u] /\ todo'[u] = todo[u]
         /\ pc'[t] = "idle" => todo'[t] = <<>>
<1> USE DEF IInv, IdeInv, IdeTypeOK
<1>1. CASE Begin(t)
  <2>1. OnlyMoves(t)
    BY <1>1, BeginTypes
  <2>2. pc'[t] = "idle" => todo'[t] = <<>>
    BY <1>1 DEF Begin, Install, Uninstall, TooLate, PlainRequest, MaySend, Undertake
  <2> QED
    BY <1>1, <2>1, <2>2, BeginAsksLess DEF OnlyMoves, Begin
<1>2. CASE SendRequest(t)
  BY <1>2 DEF SendRequest, Asks, LinesOf
<1>3. ASSUME pc[t] = "reply", NEW rest, Undertake(t, rest),
             LinesOf(rest) \subseteq LinesOf(Tail(todo[t])) \cup Byproducts
      PROVE  /\ Asks(t)' \subseteq Asks(t) \cup Byproducts
             /\ \A u \in Threads \ {t} : pc'[u] = pc[u] /\ todo'[u] = todo[u]
             /\ pc'[t] = "idle" => todo'[t] = <<>>
  <2>1. Asks(t) = {Request(t)} \cup LinesOf(Tail(todo[t]))
    BY <1>3, FirstIsAsked
  <2>2. todo'[t] = rest /\ Asks(t)' = LinesOf(rest)
    BY <1>3 DEF Undertake, Asks, LinesOf
  <2> QED
    BY <1>3, <2>1, <2>2 DEF Undertake
<1>4. CASE ReadReply(t)
  <2>1. PICK rest \in AfterReply(t) : Undertake(t, rest)
    BY <1>4 DEF ReadReply
  <2>2. LinesOf(rest) \subseteq LinesOf(Tail(todo[t])) \cup Byproducts
    BY <1>4, RestAsksLess DEF ReadReply, Release
  <2> QED
    BY <1>3, <1>4, <2>1, <2>2 DEF ReadReply, Release
<1>5. CASE ReadNull(t) \/ ReadFails(t)
  <2>1. PICK rest \in {Tail(todo[t]), <<>>} : Undertake(t, rest)
    BY <1>5 DEF ReadNull, ReadFails
  <2> QED
    BY <1>3, <1>5, <2>1, InEmpty DEF ReadNull, ReadFails, Release
<1> QED
  BY <1>1, <1>2, <1>4, <1>5 DEF Requests, SendRequest
-----------------------------------------------------------------------------
(* What ldb does to the breakpoints.                                       *)

LEMMA WhoChangesBreakpoints ==
  ASSUME LdbNext
  PROVE  \/ UNCHANGED breakpoints
         \/ /\ requests # <<>>
            /\ DoBreak(Head(requests)) \/ DoClear(Head(requests))
<1>1. ASSUME NEW cmd, Execute(cmd)
      PROVE  UNCHANGED breakpoints \/ DoBreak(cmd) \/ DoClear(cmd)
  BY <1>1 DEF Execute, DoQuery, DoSuspend, DoStep, DoResume, DoQuit, DoSilent,
              DoUnknown, DoPopData, DoNoWord, Dies
<1>2. CASE Parse
  BY <1>1, <1>2 DEF Parse
<1>3. CASE HookLine
  BY <1>3 DEF HookLine, Pass, StopAtBreakpoint, StopAtStep
<1> QED
  BY <1>2, <1>3 DEF LdbNext, Start, Finish, Fail, PeerClosed, SendFails, Killed

LEMMA WhoReplies ==
  ASSUME LdbNext
  PROVE  UNCHANGED replies \/ (requests # <<>> /\ Execute(Head(requests)))
<1>1. CASE HookLine
  BY <1>1 DEF HookLine, Pass, StopAtBreakpoint, StopAtStep, wire
<1> QED
  BY <1>1 DEF LdbNext, Start, Finish, Fail, Parse, PeerClosed, SendFails, Killed,
              wire

LEMMA BreakIsDoBreak ==
  ASSUME NEW cmd, Execute(cmd), cmd.verb = "break", cmd.line # NoWord
  PROVE  DoBreak(cmd)
BY DEF Execute, DoQuery, DoSuspend, DoClear, DoStep, DoResume, DoQuit, DoSilent,
       DoUnknown, DoPopData, DoNoWord, Dies, QueryVerbs, SilentVerbs, ForeignVerbs

(* A process that has ended, or waits for a command, can only be killed.   *)
LEMMA NothingToDo ==
  ASSUME connected, LdbNext, Ended \/ (at = "parse" /\ requests = <<>>)
  PROVE  at' = "aborted" /\ UNCHANGED <<debuggerStates, breakpoints, place>>
<1>1. ~HookLine
  BY DEF HookLine, Pass, StopAtBreakpoint, StopAtStep, Arrive, Ended
<1>2. ~Parse
  <2>1. ASSUME NEW cmd, Execute(cmd)
        PROVE  at = "parse"
    BY <2>1 DEF Execute, DoQuery, DoSuspend, DoBreak, DoClear, DoStep, DoResume,
                DoQuit, DoSilent, DoUnknown, DoPopData, DoNoWord, Dies, Receive
  <2> QED
    BY <2>1 DEF Parse, Ended
<1>3. ~Start /\ ~Finish /\ ~Fail /\ ~PeerClosed /\ ~SendFails
  BY DEF Start, Finish, Fail, PeerClosed, SendFails, Ended
<1>4. Killed
  BY <1>1, <1>2, <1>3 DEF LdbNext
<1> QED
  BY <1>4 DEF Killed

(* What ldb finds on the socket is the request of the monitor's holder.    *)
LEMMA HolderAsked ==
  ASSUME IInv, MaxReplyLines = 1, requests # <<>>
  PROVE  /\ lock \in Threads /\ pc[lock] = "reply" /\ Asked(lock)
         /\ Head(requests) = Request(lock) /\ Request(lock) \in IdeCommand
<1>1. /\ OneAtATime /\ lock \in Threads \cup {Nobody}
      /\ \A t \in Threads : pc[t] = "reply" <=> lock = t
  BY DEF IInv, IdeInv, IdeTypeOK, Exchange
<1>2. lock \in Threads /\ Asked(lock) /\ pc[lock] = "reply"
  BY <1>1 DEF OneAtATime, Quiet, AnsweredTo
<1>3. Request(lock) \in IdeCommand
  BY <1>2, FirstIsAsked
<1> QED
  BY <1>2, <1>3 DEF Asked

(* A thread that finds a reply finds its own.                              *)
LEMMA HolderIsAnswered ==
  ASSUME IInv, MaxReplyLines = 1, NEW t \in Threads, ReadReply(t)
  PROVE  lock = t /\ AnsweredTo(t)
<1>1. lock = t /\ OneAtATime
  BY DEF ReadReply, Release, IInv, IdeInv, Exchange
<1> QED
  BY <1>1 DEF OneAtATime, Quiet, Asked, ReadReply
-----------------------------------------------------------------------------
(* The steps keep Issued.                                                  *)

LEMMA LdbKeepsIssued ==
  ASSUME Known, Issued, LdbStep
  PROVE  Issued'
<1>1. /\ LdbNext /\ connected /\ IInv /\ (closed => Ended)
      /\ UNCHANGED <<lock, pc, todo, fTerminated, processTerminated>>
  BY DEF Known, Told, SocketsLive, LdbStep, ideState, requesting, termination
<1>2. IdleHasNone'
  BY <1>1 DEF Issued, IdleHasNone
<1>3. TerminatedIsClosed'
  <2>1. ~closed
    BY <1>1, LdbClosesAtTheEnd
  <2> QED
    BY <1>1, <2>1 DEF Issued, TerminatedIsClosed, IsTerminated
<1>4. ASSUME MaxReplyLines = 1, NEW t \in Threads, Acknowledged(t)'
      PROVE  /\ Request(t)'.line \in LinesOf(breakpoints[source])'
             /\ (at = "parse" \/ Ended)'
  <2>1. Request(t)' = Request(t) /\ lock = t /\ (AnsweredTo(t))'
    BY <1>1, <1>4 DEF Acknowledged, Request
  <2>2. LinesOf(breakpoints[source])' = LinesOf(breakpoints'[source'])
    BY DEF LinesOf
  <2>3. CASE AnsweredTo(t)
    <3>1. Acknowledged(t)
      BY <1>4, <2>1, <2>3 DEF Acknowledged
    <3>2. /\ Request(t).line \in LinesOf(breakpoints[source])
          /\ Ended \/ (at = "parse" /\ requests = <<>>)
      BY <1>4, <2>3, <3>1 DEF Issued, BreaksAreSet, AnsweredTo
    <3>3. at' = "aborted" /\ UNCHANGED <<breakpoints, source>>
      BY <1>1, <3>2, NothingToDo DEF place
    <3> QED
      BY <2>1, <2>2, <3>2, <3>3 DEF Ended
  <2>4. CASE ~AnsweredTo(t)
    <3>1. Quiet \/ Asked(t)
      BY <1>1, <1>4, <2>1, <2>4 DEF IInv, IdeInv, Exchange, OneAtATime
    <3>2. replies = <<>> /\ replies' # <<>>
      BY <2>1, <3>1 DEF Quiet, Asked, AnsweredTo
    <3>3. requests # <<>> /\ Execute(Head(requests))
      BY <1>1, <3>2, WhoReplies
    <3>4. Head(requests) = Request(t) /\ Request(t) \in IdeCommand
      BY <1>1, <1>4, <2>1, <3>3, HolderAsked
    <3>5. Request(t).verb = "break" /\ Request(t).line # NoLine
      BY <1>4, <2>1 DEF Acknowledged
    <3>6. DoBreak(Request(t))
      BY <3>3, <3>4, <3>5, BreakIsDoBreak, IdeCommandLine
    <3>7. /\ at = "parse" /\ UNCHANGED <<at, source>>
          /\ breakpoints' = [breakpoints EXCEPT ![source] =
                               Append(@, Request(t).line)]
      BY <3>5, <3>6 DEF DoBreak, Receive, place
    <3>8. /\ source \in Sources /\ breakpoints \in [Sources -> Seq(BreakableLines)]
          /\ Request(t).line \in BreakableLines
      BY <1>1, <3>4, <3>5, IdeCommandLine
         DEF IInv, LdbTypeOK
    <3>9. LinesOf(Append(breakpoints[source], Request(t).line))
            = LinesOf(breakpoints[source]) \cup {Request(t).line}
      BY <3>8, AppendedLines
    <3>10. breakpoints'[source'] = Append(breakpoints[source], Request(t).line)
      BY <3>7, <3>8
    <3> QED
      BY <2>1, <2>2, <3>7, <3>9, <3>10
  <2> QED
    BY <2>3, <2>4
<1>5. BreaksAreSet'
  BY <1>4 DEF BreaksAreSet
<1> QED
  BY <1>2, <1>3, <1>5 DEF Issued

(* Steps of the IDE in which the holder of the monitor stays as it is.     *)
LEMMA HolderWaits ==
  ASSUME Known, Issued, UNCHANGED <<ldbState, lock, requests, replies>>,
         \A t \in Threads : pc[t] = "reply" => todo'[t] = todo[t]
  PROVE  BreaksAreSet'
<1> SUFFICES ASSUME MaxReplyLines = 1, NEW t \in Threads, Acknowledged(t)'
             PROVE  /\ Request(t)'.line \in LinesOf(breakpoints[source])'
                    /\ (at = "parse" \/ Ended)'
  BY DEF BreaksAreSet
<1>1. pc[t] = "reply" /\ lock = t
  BY DEF Known, IInv, IdeInv, Exchange, Acknowledged
<1>2. Request(t)' = Request(t)
  BY <1>1 DEF Request
<1>3. Acknowledged(t)
  BY <1>1, <1>2 DEF Acknowledged, AnsweredTo
<1>4. UNCHANGED <<at, LinesOf(breakpoints[source])>>
  BY DEF ldbState, LinesOf
<1> QED
  BY <1>2, <1>3, <1>4 DEF Issued, BreaksAreSet, Ended

LEMMA RequestKeepsIssued ==
  ASSUME Known, Issued, NEW t \in Threads, RequestStep(t)
  PROVE  Issued'
<1>1. IInv /\ Requests(t) /\ UNCHANGED ldbState
  BY DEF Known, RequestStep
<1>2. IdleHasNone'
  BY <1>1, RequestsAskLess DEF Issued, IdleHasNone
<1>3. TerminatedIsClosed'
  <2>1. UNCHANGED <<closed, fTerminated, processTerminated>>
    BY <1>1 DEF Requests, Begin, SendRequest, ReadReply, ReadNull, ReadFails,
       termination, wire
  <2> QED
    BY <2>1 DEF Issued, TerminatedIsClosed, IsTerminated
<1>4. BreaksAreSet'
  <2>1. CASE Begin(t)
    <3>1. UNCHANGED <<lock, requests, replies>> /\ pc[t] # "reply"
      BY <2>1 DEF Begin, wire
    <3>2. \A u \in Threads : pc[u] = "reply" => todo'[u] = todo[u]
      BY <1>1, <3>1, RequestsAskLess
    <3> QED
      BY <1>1, <3>1, <3>2, HolderWaits
  <2>2. CASE SendRequest(t)
    <3>1. lock = Nobody /\ lock' = t /\ UNCHANGED replies
      BY <2>2 DEF SendRequest
    <3>2. MaxReplyLines = 1 => replies' = <<>>
      BY <1>1, <3>1 DEF IInv, IdeInv, Exchange, OneAtATime, Quiet
    <3> QED
      BY <3>2 DEF BreaksAreSet, Acknowledged, AnsweredTo
  <2>3. CASE Release(t)
    <3>1. lock' \notin Threads
      BY <2>3, PdaAssumption DEF Release, Threads
    <3> QED
      BY <3>1 DEF BreaksAreSet, Acknowledged
  <2> QED
    BY <1>1, <2>1, <2>2, <2>3 DEF Requests, ReadReply, ReadNull, ReadFails
<1> QED
  BY <1>2, <1>3, <1>4 DEF Issued

(* What the user's operations hand to a thread: only a thread that edits   *)
(* breakpoints clears any, and none that is wanted; only a thread that     *)
(* finds the program shown suspended lets it go.                           *)
Editing == {"add", "delete", "enable", "disable", "change", "manager"}
Edits(t) == t \in Users /\ Duties[t] \cap Editing # {}
IsWanted(l) == l \in registered /\ l \in enabled /\ managerEnabled

Hands(t) ==
  /\ pc[t] = "idle" /\ pc'[t] \in {"idle", "ready"}
  /\ pc'[t] = "idle" => todo'[t] = <<>>
  /\ \A u \in Threads \ {t} : pc'[u] = pc[u] /\ todo'[u] = todo[u]
  /\ \A c \in Asks(t)' :
       /\ c.verb \in ResumingVerbs => IsSuspended
       /\ c.verb = "clear" => Edits(t) /\ ~IsWanted(c.line)'
  /\ Edits(t) \/ UNCHANGED <<registered, enabled, managerEnabled>>
  /\ UNCHANGED <<lock, wire, dispatching, flags, installation, termination>>

LEMMA UndertakeHands ==
  ASSUME IInv, NEW t \in Users, pc[t] = "idle", NEW rs, Undertake(t, rs)
  PROVE  /\ pc'[t] \in {"idle", "ready"} /\ (pc'[t] = "idle" => todo'[t] = <<>>)
         /\ \A u \in Threads \ {t} : pc'[u] = pc[u] /\ todo'[u] = todo[u]
         /\ Asks(t)' = LinesOf(rs)
<1>1. /\ t \in Threads /\ pc \in [Threads -> {"idle", "ready", "lock", "reply"}]
      /\ todo \in [Threads -> Seq(IdeCommand)]
  BY DEF Threads, IInv, IdeInv, IdeTypeOK
<1>2. todo'[t] = rs
  BY <1>1 DEF Undertake
<1>3. Asks(t)' = LinesOf(rs)
  BY <1>2 DEF Asks, LinesOf
<1> QED
  BY <1>1, <1>2, <1>3 DEF Undertake

LEMMA AskHands ==
  ASSUME IInv, NEW t \in Users, NEW op, NEW rs, Ask(t, op, rs),
         \A c \in LinesOf(rs) : /\ c.verb \in ResumingVerbs => IsSuspended
                                /\ c.verb # "clear"
  PROVE  Hands(t)
<1>1. pc[t] = "idle" /\ Undertake(t, rs)
  BY DEF Ask, Acts
<1>2. UNCHANGED <<lock, wire, dispatching, flags, manager, installation, termination>>
  BY DEF Ask
<1> QED
  BY <1>1, <1>2, UndertakeHands DEF Hands, manager

LEMMA ControlsHand ==
  ASSUME IInv, NEW t \in Users, UserControls(t)
  PROVE  Hands(t)
<1>1. \A v : LinesOf(<<Do(v)>>) = {Do(v)}
  BY InOne
<1>2. \A v : Do(v).verb = v
  BY DEF Do
<1>3. CASE Resume(t)
  BY <1>1, <1>2, <1>3, AskHands DEF Resume
<1>4. CASE StepOver(t)
  BY <1>1, <1>2, <1>4, AskHands DEF StepOver
<1>5. CASE Suspend(t)
  BY <1>1, <1>2, <1>5, AskHands DEF Suspend, ResumingVerbs
<1>6. CASE Terminate(t)
  BY <1>1, <1>2, <1>6, AskHands DEF Terminate, ResumingVerbs
<1>7. CASE RemoveWatchpoint(t)
  BY <1>1, <1>2, <1>7, AskHands DEF RemoveWatchpoint, ResumingVerbs
<1> QED
  BY <1>3, <1>4, <1>5, <1>6, <1>7 DEF UserControls

LEMMA InspectsHand ==
  ASSUME IInv, NEW t \in Users, UserInspects(t)
  PROVE  Hands(t)
<1> DEFINE one(v) == <<Do(v)>>
           frames == <<Do("stackforide"), Do("drop")>>
           values == <<Do("data"), Do("data"), Do("popdata")>>
<1>1. /\ \A v : LinesOf(one(v)) = {Do(v)}
      /\ LinesOf(frames) = {Do("stackforide"), Do("drop")}
      /\ LinesOf(values) = {Do("data"), Do("popdata")}
  BY DEF LinesOf
<1>2. \A v : Do(v).verb = v
  BY DEF Do
<1>3. ASSUME NEW op, NEW v \in {"stackforide", "var", "setvar", "data", "pushdata"},
             Ask(t, op, one(v))
      PROVE  Hands(t)
  <2> HIDE DEF one
  <2> QED
    BY <1>1, <1>2, <1>3, AskHands DEF ResumingVerbs
<1>4. ASSUME Ask(t, "drop", frames) \/ Ask(t, "popdata", values)
      PROVE  Hands(t)
  <2> HIDE DEF frames, values
  <2> QED
    BY <1>1, <1>2, <1>4, AskHands DEF ResumingVerbs
<1> QED
  BY <1>3, <1>4 DEF UserInspects, GetStackFrames, PopFrame, GetValue, SetValue,
                    GetDataStack, PopData, PushData

LEMMA NotifyHands ==
  ASSUME IInv, NEW t \in Users, NEW op \in Editing, UserEdits(t, op),
         NEW rs, Notify(t, rs),
         \A c \in LinesOf(rs) : /\ c.verb \in BreakpointVerbs
                                /\ c.verb = "clear" => ~IsWanted(c.line)'
  PROVE  Hands(t)
<1>1. PICK qs \in {rs, <<>>} : Undertake(t, qs)
  BY DEF Notify
<1>2. pc[t] = "idle" /\ Edits(t)
  BY DEF UserEdits, Acts, Edits
<1>3. \A c \in LinesOf(qs) : /\ c.verb \notin ResumingVerbs
                             /\ c.verb = "clear" => ~IsWanted(c.line)'
  BY <1>1, InEmpty DEF BreakpointVerbs, ResumingVerbs
<1>4. UNCHANGED <<lock, wire, dispatching, flags, installation, termination>>
  BY DEF UserEdits
<1> QED
  BY <1>1, <1>2, <1>3, <1>4, UndertakeHands DEF Hands

(* A request for one breakpoint.                                           *)
LEMMA OneRequestHands ==
  ASSUME IInv, NEW t \in Users, NEW op \in Editing, UserEdits(t, op), NEW l,
         \/ Notify(t, <<Break(l)>>)
         \/ Notify(t, <<Clear(l)>>) /\ ~IsWanted(l)'
  PROVE  Hands(t)
<1> DEFINE break == <<Break(l)>>
           clear == <<Clear(l)>>
<1>1. LinesOf(break) = {Break(l)} /\ LinesOf(clear) = {Clear(l)}
  BY InOne
<1>2. /\ Break(l).verb = "break" /\ Clear(l).verb = "clear" /\ Clear(l).line = l
      /\ "break" \in BreakpointVerbs /\ "clear" \in BreakpointVerbs
  BY DEF Break, Clear, BreakpointVerbs
<1>3. Notify(t, break) \/ (Notify(t, clear) /\ ~IsWanted(l)')
  OBVIOUS
<1> HIDE DEF break, clear
<1>4. CASE Notify(t, break)
  <2>1. \A c \in LinesOf(break) : /\ c.verb \in BreakpointVerbs
                                  /\ c.verb = "clear" => ~IsWanted(c.line)'
    BY <1>1, <1>2
  <2> QED
    BY <1>4, <2>1, NotifyHands
<1>5. CASE Notify(t, clear) /\ ~IsWanted(l)'
  <2>1. \A c \in LinesOf(clear) : c = Clear(l)
    BY <1>1
  <2>2. \A c \in LinesOf(clear) : c.verb \in BreakpointVerbs /\ c.line = l
    BY <1>2, <2>1
  <2>3. \A c \in LinesOf(clear) : c.verb = "clear" => ~IsWanted(c.line)'
    BY <1>5, <2>2 DEF IsWanted
  <2> QED
    BY <1>5, <2>2, <2>3, NotifyHands
<1> QED
  BY <1>3, <1>4, <1>5

LEMMA EditsHand ==
  ASSUME IInv, NEW t \in Users, UserEditsBreakpoints(t)
  PROVE  Hands(t)
<1>1. registered \subseteq Lines
  BY DEF IInv, IdeInv, IdeTypeOK
<1>2. /\ \A l : Break(l).verb = "break" /\ Clear(l).verb = "clear" /\ Clear(l).line = l
      /\ "break" \in BreakpointVerbs /\ "clear" \in BreakpointVerbs
  BY DEF Break, Clear, BreakpointVerbs
<1>5. CASE ToggleManager(t)
  <2>1. PICK order \in Orders(registered) :
          Notify(t, IF managerEnabled' THEN Each(order, Break)
                                       ELSE Each(order, Clear))
    BY <1>5 DEF ToggleManager
  <2> DEFINE rs == IF managerEnabled' THEN Each(order, Break)
                                      ELSE Each(order, Clear)
  <2>2. /\ LinesOf(Each(order, Break)) = {Break(l) : l \in registered}
        /\ LinesOf(Each(order, Clear)) = {Clear(l) : l \in registered}
    BY <1>1, EachAsks
  <2>3. \A c \in LinesOf(rs) : /\ c.verb \in BreakpointVerbs
                               /\ c.verb = "clear" => ~IsWanted(c.line)'
    BY <1>2, <2>2 DEF IsWanted
  <2>4. Notify(t, rs) /\ UserEdits(t, "manager") /\ "manager" \in Editing
    BY <1>5, <2>1 DEF ToggleManager, Editing
  <2> HIDE DEF rs
  <2> QED
    BY <2>3, <2>4, NotifyHands
<1>6. ASSUME NEW l \in Lines, AddBreakpoint(t, l)
      PROVE  Hands(t)
  BY <1>6, OneRequestHands DEF AddBreakpoint, Editing
<1>7. ASSUME NEW l \in Lines, DeleteBreakpoint(t, l)
      PROVE  Hands(t)
  BY <1>7, OneRequestHands DEF DeleteBreakpoint, Editing, IsWanted
<1>8. ASSUME NEW l \in Lines, EnableBreakpoint(t, l)
      PROVE  Hands(t)
  BY <1>8, OneRequestHands DEF EnableBreakpoint, Changed, Editing, IsWanted
<1>9. ASSUME NEW l \in Lines, DisableBreakpoint(t, l)
      PROVE  Hands(t)
  BY <1>9, OneRequestHands DEF DisableBreakpoint, Changed, Editing, IsWanted
<1>10. ASSUME NEW l \in Lines, ChangeBreakpoint(t, l)
       PROVE  Hands(t)
  BY <1>10, OneRequestHands DEF ChangeBreakpoint, Changed, Editing, IsWanted
<1> QED
  BY <1>5, <1>6, <1>7, <1>8, <1>9, <1>10 DEF UserEditsBreakpoints

LEMMA UserStepHands ==
  ASSUME IInv, UserStep
  PROVE  (\E t \in Users : Hands(t)) /\ UNCHANGED ldbState
BY ControlsHand, InspectsHand, EditsHand DEF UserStep

(* The job hands itself what "started" asks for; it clears nothing.        *)
LEMMA StartedAsks ==
  ASSUME IInv, DispatchStarted
  PROVE  /\ pc[Job] = "idle" /\ pc'[Job] = "ready"
         /\ \A u \in Threads \ {Job} : pc'[u] = pc[u] /\ todo'[u] = todo[u]
         /\ \E order \in Orders(registered) :
              todo'[Job] = Each(order, Break) \o <<Do("resume")>>
         /\ Asks(Job)' = {Break(l) : l \in registered} \cup {Do("resume")}
<1>1. PICK order \in Orders(registered) :
        Undertake(Job, Each(order, Break) \o <<Do("resume")>>)
  BY DEF DispatchStarted
<1> DEFINE breaks == Each(order, Break)
           last == <<Do("resume")>>
<1>2. /\ registered \subseteq Lines /\ Job \in Threads
      /\ pc \in [Threads -> {"idle", "ready", "lock", "reply"}]
      /\ todo \in [Threads -> Seq(IdeCommand)]
  BY DEF IInv, IdeInv, IdeTypeOK, Threads
<1>3. breaks \in Seq(IdeCommand) /\ LinesOf(breaks) = {Break(l) : l \in registered}
  BY <1>2, EachType, EachAsks
<1>4. last \in Seq(IdeCommand) /\ LinesOf(last) = {Do("resume")} /\ Len(last) = 1
  <2>1. Do("resume") \in IdeCommand
    BY CommandTypes DEF PlainVerbs, ConsoleVerbs, ResumingVerbs
  <2> QED
    BY <2>1, InOne
<1>5. Undertake(Job, breaks \o last)
  BY <1>1
<1> HIDE DEF breaks, last
<1>6. LinesOf(breaks \o last) = LinesOf(breaks) \cup LinesOf(last)
  BY <1>3, <1>4, InConcat
<1>7. breaks \o last # <<>>
  BY <1>3, <1>4, ConcatEqualIffEmpty
<1>8. /\ todo'[Job] = breaks \o last /\ pc'[Job] = "ready"
      /\ \A u \in Threads \ {Job} : pc'[u] = pc[u] /\ todo'[u] = todo[u]
  BY <1>2, <1>5, <1>7 DEF Undertake
<1>9. Asks(Job)' = LinesOf(breaks \o last)
  BY <1>8 DEF Asks, LinesOf
<1>10. todo'[Job] = Each(order, Break) \o <<Do("resume")>>
  BY <1>8 DEF breaks, last
<1> QED
  BY <1>3, <1>4, <1>6, <1>8, <1>9, <1>10 DEF DispatchStarted, MayRead
-----------------------------------------------------------------------------
LEMMA UserKeepsIssued ==
  ASSUME Known, Issued, UserStep
  PROVE  Issued'
<1>1. PICK t \in Users : Hands(t)
  BY UserStepHands DEF Known
<1>2. UNCHANGED ldbState
  BY DEF UserStep
<1>3. t \in Threads
  BY DEF Threads
<1>4. IdleHasNone'
  BY <1>1, <1>3 DEF Hands, Issued, IdleHasNone
<1>5. TerminatedIsClosed'
  BY <1>1 DEF Hands, Issued, TerminatedIsClosed, IsTerminated, termination, wire
<1>6. \A u \in Threads : pc[u] = "reply" => todo'[u] = todo[u]
  BY <1>1 DEF Hands
<1>7. BreaksAreSet'
  BY <1>1, <1>2, <1>6, HolderWaits DEF Hands, wire
<1> QED
  BY <1>4, <1>5, <1>7 DEF Issued

LEMMA DispatchKeepsIssued ==
  ASSUME Known, Issued, DispatchStep
  PROVE  Issued'
<1>1. Dispatch /\ UNCHANGED <<ldbState, lock, requests, replies, closed>>
  BY DEF DispatchStep, Dispatch, DispatchStarted, StartedHandled, DispatchEvent,
         BreakpointHandles, MarkerFails, EndOfEvents, EventReadFails, requesting, wire
<1>2. /\ \A u \in Threads : pc[u] = "reply" => todo'[u] = todo[u]
      /\ IdleHasNone'
  <2>1. CASE DispatchStarted
    BY <2>1, StartedAsks DEF Known, Issued, IdleHasNone
  <2>2. CASE UNCHANGED requesting
    BY <2>2 DEF requesting, Issued, IdleHasNone
  <2> QED
    BY <1>1, <2>1, <2>2 DEF Dispatch, StartedHandled, DispatchEvent,
       BreakpointHandles, MarkerFails, EndOfEvents, EventReadFails
<1>3. TerminatedIsClosed'
  <2>1. UNCHANGED termination \/ closed
    BY <1>1 DEF Dispatch, DispatchStarted, StartedHandled, DispatchEvent,
       BreakpointHandles, MarkerFails, EndOfEvents, EventReadFails
  <2> QED
    BY <1>1, <2>1 DEF termination, Issued, TerminatedIsClosed, IsTerminated
<1>4. BreaksAreSet'
  BY <1>1, <1>2, HolderWaits
<1> QED
  BY <1>2, <1>3, <1>4 DEF Issued

LEMMA NextIssued == Known /\ Issued /\ [Next]_vars => Issued'
<1> SUFFICES ASSUME Known, Issued, [Next]_vars PROVE Issued'
  OBVIOUS
<1>1. ASSUME UNCHANGED <<ldbState, requesting, wire>>,
             UNCHANGED termination \/ closed
      PROVE  Issued'
  <2>1. IdleHasNone'
    BY <1>1 DEF requesting, Issued, IdleHasNone
  <2>2. TerminatedIsClosed'
    BY <1>1 DEF termination, wire, Issued, TerminatedIsClosed, IsTerminated
  <2>3. BreaksAreSet'
    BY <1>1, HolderWaits DEF requesting, wire
  <2> QED
    BY <2>1, <2>2, <2>3 DEF Issued
<1>2. CASE PlatformStep
  BY <1>1, <1>2 DEF PlatformStep, Listen, ProcessMonitor
<1>3. CASE UNCHANGED vars
  BY <1>1, <1>3 DEF vars, ideState
<1> QED
  BY <1>2, <1>3, LdbKeepsIssued, UserKeepsIssued, DispatchKeepsIssued,
     RequestKeepsIssued DEF Next, Over

LEMMA InitIssued == Init => Issued
BY PdaAssumption DEF Init, WireInit, IdeInit, Issued, IdleHasNone,
   TerminatedIsClosed, BreaksAreSet, Acknowledged, IsTerminated, Threads

LEMMA IssuedAlways == Spec => [](Known /\ Issued)
<1>1. Spec => []Known
  BY InitIInv, NextIInv, ToldAlways, PTL DEF Spec, Known
<1> QED
  BY <1>1, InitIssued, NextIssued, PTL DEF Spec
-----------------------------------------------------------------------------
(* A breakpoint that is installed stays set: it leaves the vector of ldb   *)
(* only while the request to clear it is being made, and is then no longer *)
(* a listener.                                                             *)

Exchanging(t) == pc[t] \in {"lock", "reply"}
Being(l) == \E t \in Threads : Exchanging(t) /\ Request(t) \in {Break(l), Clear(l)}
SetSomewhere(l) == \E s \in Sources : l \in LinesOf(breakpoints[s])

(* Two threads could add and delete the same breakpoint at the same time.  *)
OneEditor == \A t, u \in Users : Edits(t) /\ Edits(u) => t = u

Listed == ~closed => \A l \in listeners : Being(l) \/ SetSomewhere(l)

EditorsClear ==
  \A t \in Threads : \A c \in Asks(t) :
    c.verb = "clear" => Edits(t) /\ ~IsWanted(c.line)

ClearedIsGone ==
  \A t \in Threads :
    Exchanging(t) /\ Request(t).verb = "clear" /\ Request(t).line \in registered
      => Request(t).line \notin listeners

Kept == Listed /\ EditorsClear /\ ClearedIsGone

(* Steps of the IDE that leave the threads with an exchange alone.         *)
LEMMA BeingStays ==
  ASSUME NEW t \in Threads,
         \A u \in Threads \ {t} : pc'[u] = pc[u] /\ todo'[u] = todo[u],
         NEW l, Being(l), ~(Exchanging(t) /\ Request(t) \in {Break(l), Clear(l)})
  PROVE  Being(l)'
<1>1. PICK u \in Threads \ {t} : Exchanging(u) /\ Request(u) \in {Break(l), Clear(l)}
  BY DEF Being
<1>2. pc'[u] = pc[u] /\ todo'[u] = todo[u]
  BY <1>1
<1>3. Exchanging(u)' /\ Request(u)' = Request(u)
  BY <1>1, <1>2 DEF Exchanging, Request
<1>4. Break(l)' = Break(l) /\ Clear(l)' = Clear(l)
  BY DEF Break, Clear
<1> QED
  BY <1>1, <1>3, <1>4 DEF Being

LEMMA SetStays ==
  ASSUME UNCHANGED breakpoints, NEW l, SetSomewhere(l)
  PROVE  SetSomewhere(l)'
BY DEF SetSomewhere, LinesOf

(* A command on a line is the one that names it.                           *)
LEMMA CommandOnLine ==
  ASSUME NEW cmd \in Command
  PROVE  /\ cmd.verb = "break" => cmd = Break(cmd.line)
         /\ cmd.verb = "clear" => cmd = Clear(cmd.line)
BY DEF Command, Break, Clear, PlainVerbs, QueryVerbs, ResumingVerbs, ForeignVerbs,
       SilentVerbs, ConsoleVerbs

LEMMA LdbKeepsListed ==
  ASSUME Known, MaxReplyLines = 1, Listed, LdbStep
  PROVE  Listed'
<1>1. /\ LdbNext /\ connected /\ IInv /\ (closed => Ended)
      /\ UNCHANGED <<pc, todo, listeners>>
  BY DEF Known, Told, SocketsLive, LdbStep, ideState, requesting, installation
<1>2. ~closed
  BY <1>1, LdbClosesAtTheEnd
<1>3. ASSUME NEW l, Being(l)
      PROVE  Being(l)'
  BY <1>1, <1>3 DEF Being, Exchanging, Request, Break, Clear
<1>4. ASSUME NEW l, SetSomewhere(l), ~Being(l)
      PROVE  SetSomewhere(l)'
  <2>1. PICK s \in Sources : l \in LinesOf(breakpoints[s])
    BY <1>4 DEF SetSomewhere
  <2> SUFFICES l \in LinesOf(breakpoints'[s])
    BY DEF SetSomewhere, LinesOf
  <2> DEFINE cmd == Head(requests)
  <2>2. CASE UNCHANGED breakpoints
    BY <2>1, <2>2
  <2>3. ASSUME requests # <<>>
        PROVE  /\ cmd \in Command /\ source \in Sources
               /\ breakpoints \in [Sources -> Seq(BreakableLines)]
               /\ cmd.verb = "clear" => cmd.line # l
               /\ cmd.verb \in {"break", "clear"} => cmd.line \in BreakableLines \cup {NoLine}
    <3>1. /\ lock \in Threads /\ pc[lock] = "reply"
          /\ cmd = Request(lock) /\ cmd \in IdeCommand
      BY <1>1, <2>3, HolderAsked
    <3>2. cmd # Clear(l)
      BY <1>4, <3>1 DEF Being, Exchanging
    <3>3. cmd.verb = "clear" => cmd.line # l
      BY <3>1, <3>2, CommandOnLine, IdeCommandsAreCommands
    <3> QED
      BY <1>1, <3>1, <3>3, IdeCommandLine DEF IInv, LdbTypeOK
  <2>4. ASSUME requests # <<>>, DoBreak(cmd)
        PROVE  l \in LinesOf(breakpoints'[s])
    <3>1. CASE breakpoints' = [breakpoints EXCEPT ![source] = Append(@, cmd.line)]
                 /\ cmd.line # NoLine
      <4>1. cmd.line \in BreakableLines
        BY <2>3, <2>4, <3>1 DEF DoBreak
      <4>2. breakpoints[source] \in Seq(BreakableLines)
        BY <2>3, <2>4
      <4>3. LinesOf(Append(breakpoints[source], cmd.line))
              = LinesOf(breakpoints[source]) \cup {cmd.line}
        BY <4>1, <4>2, AppendedLines
      <4> QED
        BY <2>1, <2>3, <2>4, <3>1, <4>3
    <3> QED
      BY <2>2, <2>4, <3>1 DEF DoBreak
  <2>5. ASSUME requests # <<>>, DoClear(cmd)
        PROVE  l \in LinesOf(breakpoints'[s])
    <3>1. CASE /\ cmd.line \in LinesOf(breakpoints[source])
               /\ breakpoints' = [breakpoints EXCEPT ![source] = EraseFirst(@, cmd.line)]
      <4>1. breakpoints[source] \in Seq(BreakableLines)
        BY <2>3, <2>5
      <4>2. l # cmd.line
        BY <2>3, <2>5 DEF DoClear
      <4>3. l \in LinesOf(breakpoints[source])
              => l \in LinesOf(EraseFirst(breakpoints[source], cmd.line))
        BY <3>1, <4>1, <4>2, EraseFirstProperties
      <4> QED
        BY <2>1, <2>3, <2>5, <3>1, <4>3
    <3> QED
      BY <2>2, <2>5, <3>1 DEF DoClear
  <2> QED
    BY <1>1, <2>2, <2>4, <2>5, WhoChangesBreakpoints
<1> QED
  BY <1>1, <1>2, <1>3, <1>4 DEF Listed

LEMMA RequestKeepsListed ==
  ASSUME Known, Issued, MaxReplyLines = 1, Kept,
         NEW t \in Threads, RequestStep(t)
  PROVE  Listed'
<1>1. /\ IInv /\ Requests(t) /\ UNCHANGED <<breakpoints, source, closed, registered>>
      /\ \A u \in Threads \ {t} : pc'[u] = pc[u] /\ todo'[u] = todo[u]
  <2>1. UNCHANGED <<closed, manager>>
    BY DEF RequestStep, Requests, Begin, SendRequest, ReadReply, ReadNull,
           ReadFails, wire
  <2> QED
    BY <2>1, RequestsAskLess DEF Known, RequestStep, ldbState, manager
<1>2. /\ pc \in [Threads -> {"idle", "ready", "lock", "reply"}]
      /\ listeners \subseteq Lines
  BY <1>1 DEF IInv, IdeInv, IdeTypeOK
<1>3. pc[t] # "idle" /\ Request(t) \in IdeCommand /\ Request(t) \in Command
  BY <1>1, RequestsAskLess, FirstIsAsked, IdeCommandsAreCommands
<1> SUFFICES ASSUME ~closed, NEW l \in listeners'
             PROVE  Being(l)' \/ SetSomewhere(l)'
  BY <1>1 DEF Listed
<1>4. l \in listeners => Being(l) \/ SetSomewhere(l)
  BY DEF Kept, Listed
<1>5. ASSUME l \in listeners,
             Exchanging(t) => Request(t) \notin {Break(l), Clear(l)}
      PROVE  Being(l)' \/ SetSomewhere(l)'
  BY <1>1, <1>4, <1>5, BeingStays, SetStays
<1>6. CASE Begin(t)
  <2>1. ~Exchanging(t)
    BY <1>6 DEF Begin, Exchanging
  <2>2. CASE l \in listeners
    BY <1>5, <2>1, <2>2
  <2>3. CASE l \notin listeners
    <3>1. Install(t) /\ l = Request(t).line /\ MaySend(t) /\ UNCHANGED todo
      BY <1>6, <2>3 DEF Begin, Install, Uninstall, TooLate, PlainRequest, installation
    <3>2. Request(t) = Break(l)
      BY <1>3, <3>1, CommandOnLine DEF Install
    <3>3. pc'[t] = "lock" /\ Request(t)' = Request(t)
      BY <1>2, <3>1 DEF MaySend, Request
    <3>4. Exchanging(t)' /\ Request(t)' = Break(l)'
      BY <3>2, <3>3 DEF Exchanging, Break
    <3> QED
      BY <3>4 DEF Being
  <2> QED
    BY <2>2, <2>3
<1>7. CASE SendRequest(t)
  <2>1. pc[t] = "lock" /\ pc'[t] = "reply" /\ UNCHANGED <<todo, listeners>>
    BY <1>2, <1>7 DEF SendRequest, installation
  <2>2. CASE Request(t) \in {Break(l), Clear(l)}
    <3>1. Exchanging(t)' /\ Request(t)' \in {Break(l)', Clear(l)'}
      BY <2>1, <2>2 DEF Exchanging, Request, Break, Clear
    <3> QED
      BY <3>1 DEF Being
  <2> QED
    BY <1>5, <2>1, <2>2
<1>8. CASE ReadReply(t)
  <2>1. pc[t] = "reply" /\ Detach(t)
    BY <1>8 DEF ReadReply, Release
  <2>2. l \in listeners
    BY <2>1 DEF Detach, installation
  <2>3. CASE Request(t) = Break(l)
    <3>1. Request(t).verb = "break" /\ Request(t).line = l /\ l # NoLine
      BY <1>2, <2>2, <2>3, LinesAssumption DEF Break, NoLine
    <3>2. Acknowledged(t)
      BY <1>1, <1>8, <3>1, HolderIsAnswered DEF Acknowledged
    <3>3. l \in LinesOf(breakpoints[source]) /\ source \in Sources
      BY <1>1, <3>1, <3>2 DEF Issued, BreaksAreSet, IInv, LdbTypeOK
    <3>4. SetSomewhere(l)
      BY <3>3 DEF SetSomewhere
    <3> QED
      BY <1>1, <3>4, SetStays
  <2>4. CASE Request(t) = Clear(l)
    <3>1. Request(t).verb = "clear" /\ Request(t).line = l
      BY <2>4 DEF Clear
    <3>2. l \in registered
      BY <1>1, <2>1, <3>1 DEF Detach
    <3> QED
      BY <2>1, <2>2, <3>1, <3>2 DEF Kept, ClearedIsGone, Exchanging
  <2> QED
    BY <1>5, <2>2, <2>3, <2>4
<1> QED
  BY <1>1, <1>6, <1>7, <1>8 DEF Requests, ReadNull, ReadFails

LEMMA RequestKeepsClears ==
  ASSUME Known, Issued, Kept, NEW t \in Threads, RequestStep(t)
  PROVE  EditorsClear' /\ ClearedIsGone'
<1>1. /\ IInv /\ Requests(t) /\ UNCHANGED <<registered, enabled, managerEnabled>>
      /\ \A u \in Threads \ {t} : pc'[u] = pc[u] /\ todo'[u] = todo[u]
      /\ Asks(t)' \subseteq Asks(t) \cup Byproducts
  <2>1. UNCHANGED manager
    BY DEF RequestStep, Requests, Begin, SendRequest, ReadReply, ReadNull, ReadFails
  <2> QED
    BY <2>1, RequestsAskLess DEF Known, RequestStep, manager
<1>2. pc \in [Threads -> {"idle", "ready", "lock", "reply"}]
  BY <1>1 DEF IInv, IdeInv, IdeTypeOK
<1>3. \A c \in Byproducts : c.verb # "clear"
  BY DEF Byproducts, Do, Break
<1>4. \A u \in Threads \ {t} : Asks(u)' = Asks(u)
  BY <1>1 DEF Asks, LinesOf
<1>5. EditorsClear'
  <2> SUFFICES ASSUME NEW u \in Threads, NEW c \in Asks(u)', c.verb = "clear"
               PROVE  Edits(u) /\ ~IsWanted(c.line)'
    BY DEF EditorsClear, Edits
  <2>1. c \in Asks(u)
    BY <1>1, <1>3, <1>4
  <2> QED
    BY <1>1, <2>1 DEF Kept, EditorsClear, IsWanted
<1>6. ClearedIsGone'
  <2> SUFFICES ASSUME NEW u \in Threads, Exchanging(u)', Request(u)'.verb = "clear",
                      Request(u)'.line \in registered
               PROVE  Request(u)'.line \notin listeners'
    BY <1>1 DEF ClearedIsGone
  <2>1. CASE Begin(t)
    <3>1. CASE u = t
      <4>1. pc'[t] = "lock" \/ pc'[t] = "reply"
        BY <3>1 DEF Exchanging
      <4>2. CASE Uninstall(t)
        <5>1. Request(t)' = Request(t)
          BY <4>2 DEF Uninstall, Request
        <5> QED
          BY <3>1, <4>2, <5>1 DEF Uninstall
      <4>3. ~TooLate(t)
        BY <1>2, <4>1 DEF TooLate, Undertake
      <4>4. CASE PlainRequest(t)
        <5>1. Request(t)' = Request(t)
          BY <4>4 DEF PlainRequest, Request
        <5> QED
          BY <3>1, <4>4, <5>1 DEF PlainRequest, BreakpointVerbs
      <4>5. CASE Install(t)
        <5>1. UNCHANGED todo => Request(t)' = Request(t)
          BY DEF Request
        <5>2. ~Undertake(t, Tail(todo[t]))
          BY <1>2, <4>1 DEF Undertake
        <5>3. CASE todo' = [todo EXCEPT ![t] = <<Break(NoMarkerLine)>> \o Tail(@)]
          <6> DEFINE rest == Tail(todo[t])
          <6>1. rest \in Seq(IdeCommand) /\ Break(NoMarkerLine) \in IdeCommand
            BY <1>1, <2>1, RequestType, CommandTypes DEF Begin, IInv, BreakableLines
          <6>2. todo'[t] = <<Break(NoMarkerLine)>> \o rest
            BY <1>1, <5>3 DEF IInv, IdeInv, IdeTypeOK
          <6> HIDE DEF rest
          <6>3. Head(<<Break(NoMarkerLine)>> \o rest) = Break(NoMarkerLine)
            BY <6>1
          <6>4. Request(t)' = Break(NoMarkerLine)
            BY <6>2, <6>3 DEF Request
          <6> QED
            BY <3>1, <6>4 DEF Break
        <5> QED
          BY <3>1, <4>5, <5>1, <5>2, <5>3 DEF Install
      <4> QED
        BY <2>1, <4>2, <4>3, <4>4, <4>5 DEF Begin
    <3>2. CASE u # t
      <4>1. Exchanging(u) /\ Request(u)' = Request(u)
        BY <1>1, <3>2 DEF Exchanging, Request
      <4>2. Request(u).line \notin listeners
        BY <4>1 DEF Kept, ClearedIsGone
      <4>3. pc[u] # "idle"
        BY <4>1 DEF Exchanging
      <4>4. Request(u) \in Asks(u)
        BY <1>1, <4>3, FirstIsAsked
      <4>5. ~IsWanted(Request(u).line)
        BY <4>1, <4>4 DEF Kept, EditorsClear
      <4>6. \A l \in listeners' : l \in listeners \/ (l \in enabled /\ managerEnabled)
        BY <2>1 DEF Begin, Install, Uninstall, TooLate, PlainRequest, installation
      <4> QED
        BY <4>1, <4>2, <4>5, <4>6 DEF IsWanted
    <3> QED
      BY <3>1, <3>2
  <2>2. CASE SendRequest(t)
    <3>1. UNCHANGED <<todo, listeners>> /\ pc[t] = "lock"
      BY <2>2 DEF SendRequest, installation
    <3>2. Exchanging(u) /\ Request(u)' = Request(u)
      BY <1>1, <3>1 DEF Exchanging, Request
    <3> QED
      BY <3>1, <3>2 DEF Kept, ClearedIsGone
  <2>3. CASE ReadReply(t) \/ ReadNull(t) \/ ReadFails(t)
    <3>1. listeners' \subseteq listeners
      BY <2>3 DEF ReadReply, ReadNull, ReadFails, Detach, installation
    <3>2. pc'[t] \in {"idle", "ready"}
      BY <1>2, <2>3 DEF ReadReply, ReadNull, ReadFails, Undertake
    <3>3. u # t
      BY <3>2 DEF Exchanging
    <3>4. Exchanging(u) /\ Request(u)' = Request(u)
      BY <1>1, <3>3 DEF Exchanging, Request
    <3> QED
      BY <3>1, <3>4 DEF Kept, ClearedIsGone
  <2> QED
    BY <1>1, <2>1, <2>2, <2>3 DEF Requests
<1> QED
  BY <1>5, <1>6

LEMMA UserKeepsKept ==
  ASSUME Known, Kept, OneEditor, UserStep
  PROVE  Kept'
<1>1. PICK t \in Users : Hands(t)
  BY UserStepHands DEF Known
<1>2. /\ t \in Threads /\ pc[t] = "idle" /\ pc'[t] \in {"idle", "ready"}
      /\ \A u \in Threads \ {t} : pc'[u] = pc[u] /\ todo'[u] = todo[u]
      /\ UNCHANGED <<breakpoints, closed, listeners>>
      /\ Edits(t) \/ UNCHANGED <<registered, enabled, managerEnabled>>
  BY <1>1 DEF Hands, Threads, UserStep, ldbState, wire, installation
<1>3. ~Exchanging(t) /\ ~Exchanging(t)'
  BY <1>2 DEF Exchanging
<1>4. Listed'
  <2>1. ASSUME NEW l, Being(l)
        PROVE  Being(l)'
    BY <1>2, <1>3, <2>1, BeingStays
  <2> QED
    BY <1>2, <2>1, SetStays DEF Kept, Listed
<1>5. ASSUME NEW u \in Threads \ {t}, NEW c \in Asks(u), c.verb = "clear"
      PROVE  /\ Edits(u) /\ ~IsWanted(c.line)'
             /\ UNCHANGED <<registered, enabled, managerEnabled>>
  <2>1. Edits(u) /\ ~IsWanted(c.line)
    BY <1>5 DEF Kept, EditorsClear
  <2>2. ~Edits(t)
    BY <2>1 DEF OneEditor, Edits
  <2> QED
    BY <1>2, <2>1, <2>2 DEF IsWanted
<1>6. EditorsClear'
  <2> SUFFICES ASSUME NEW u \in Threads, NEW c \in Asks(u)', c.verb = "clear"
               PROVE  Edits(u) /\ ~IsWanted(c.line)'
    BY DEF EditorsClear, Edits
  <2>1. CASE u = t
    BY <1>1, <2>1 DEF Hands
  <2>2. CASE u # t
    <3>1. c \in Asks(u)
      BY <1>2, <2>2 DEF Asks, LinesOf
    <3> QED
      BY <1>5, <2>2, <3>1
  <2> QED
    BY <2>1, <2>2
<1>7. ClearedIsGone'
  <2> SUFFICES ASSUME NEW u \in Threads, Exchanging(u)', Request(u)'.verb = "clear",
                      Request(u)'.line \in registered'
               PROVE  Request(u)'.line \notin listeners'
    BY DEF ClearedIsGone
  <2>1. u # t
    BY <1>3
  <2>2. Exchanging(u) /\ Request(u)' = Request(u) /\ pc[u] # "idle"
    BY <1>2, <2>1 DEF Exchanging, Request
  <2>3. Request(u) \in Asks(u)
    BY <2>2, FirstIsAsked DEF Known
  <2>4. UNCHANGED registered
    BY <1>5, <2>1, <2>2, <2>3
  <2> QED
    BY <1>2, <2>2, <2>4 DEF Kept, ClearedIsGone
<1> QED
  BY <1>4, <1>6, <1>7 DEF Kept

(* Steps that leave the threads with an exchange and the breakpoints.      *)
LEMMA ElsewhereKeepsKept ==
  ASSUME Known, Kept, NEW t \in Threads, pc[t] = "idle", ~Exchanging(t)',
         \A u \in Threads \ {t} : pc'[u] = pc[u] /\ todo'[u] = todo[u],
         \A c \in Asks(t)' : c.verb # "clear" \/ c \in Asks(t),
         UNCHANGED <<breakpoints, closed, listeners, registered, enabled,
                     managerEnabled>>
  PROVE  Kept'
<1>1. Listed'
  <2>1. ASSUME NEW l, Being(l)
        PROVE  Being(l)'
    BY <2>1, BeingStays DEF Exchanging
  <2> QED
    BY <2>1, SetStays DEF Kept, Listed
<1>2. EditorsClear'
  <2> SUFFICES ASSUME NEW u \in Threads, NEW c \in Asks(u)', c.verb = "clear"
               PROVE  Edits(u) /\ ~IsWanted(c.line)'
    BY DEF EditorsClear, Edits
  <2>1. c \in Asks(u)
    BY DEF Asks, LinesOf
  <2> QED
    BY <2>1 DEF Kept, EditorsClear, IsWanted
<1>3. ClearedIsGone'
  <2> SUFFICES ASSUME NEW u \in Threads, Exchanging(u)', Request(u)'.verb = "clear",
                      Request(u)'.line \in registered
               PROVE  Request(u)'.line \notin listeners
    BY DEF ClearedIsGone
  <2>1. Exchanging(u) /\ Request(u)' = Request(u)
    BY DEF Exchanging, Request
  <2> QED
    BY <2>1 DEF Kept, ClearedIsGone
<1> QED
  BY <1>1, <1>2, <1>3 DEF Kept

LEMMA StillKeepsKept ==
  ASSUME Kept, UNCHANGED <<breakpoints, closed, listeners, registered, enabled,
                           managerEnabled, pc, todo>>
  PROVE  Kept'
<1>1. /\ \A t \in Threads : UNCHANGED <<Request(t), Asks(t), Exchanging(t)>>
      /\ \A l : UNCHANGED <<Break(l), Clear(l), SetSomewhere(l), IsWanted(l)>>
  BY DEF Request, Asks, LinesOf, Exchanging, SetSomewhere, Break, Clear, IsWanted
<1>2. \A l : Being(l) => Being(l)'
  BY <1>1 DEF Being
<1>3. Listed'
  BY <1>1, <1>2 DEF Kept, Listed
<1>4. EditorsClear'
  BY <1>1 DEF Kept, EditorsClear, Edits
<1>5. ClearedIsGone'
  BY <1>1 DEF Kept, ClearedIsGone
<1> QED
  BY <1>3, <1>4, <1>5 DEF Kept

LEMMA LdbKeepsKept ==
  ASSUME Known, Kept, MaxReplyLines = 1, LdbStep
  PROVE  Kept'
<1>1. UNCHANGED <<pc, todo, registered, enabled, managerEnabled, listeners>>
  BY DEF LdbStep, ideState, requesting, manager, installation
<1>2. /\ \A t \in Threads : UNCHANGED <<Request(t), Asks(t), Exchanging(t)>>
      /\ \A l : UNCHANGED IsWanted(l)
  BY <1>1 DEF Request, Asks, LinesOf, Exchanging, IsWanted
<1>3. EditorsClear' /\ ClearedIsGone'
  BY <1>1, <1>2 DEF Kept, EditorsClear, ClearedIsGone, Edits
<1> QED
  BY <1>3, LdbKeepsListed DEF Kept

LEMMA DispatchKeepsKept ==
  ASSUME Known, Kept, DispatchStep
  PROVE  Kept'
<1>1. Dispatch /\ UNCHANGED <<breakpoints, closed, listeners, registered, enabled,
                              managerEnabled>>
  BY DEF DispatchStep, Dispatch, DispatchStarted, StartedHandled, DispatchEvent,
         BreakpointHandles, MarkerFails, EndOfEvents, EventReadFails, wire, manager,
         installation, ldbState
<1>2. CASE DispatchStarted
  <2>1. /\ pc[Job] = "idle" /\ pc'[Job] = "ready"
        /\ \A u \in Threads \ {Job} : pc'[u] = pc[u] /\ todo'[u] = todo[u]
        /\ Asks(Job)' = {Break(l) : l \in registered} \cup {Do("resume")}
    BY <1>2, StartedAsks DEF Known
  <2>3. \A c \in Asks(Job)' : c.verb # "clear"
    BY <2>1 DEF Break, Do
  <2>2. Job \in Threads /\ ~Exchanging(Job)'
    BY <2>1 DEF Threads, Exchanging
  <2> QED
    BY <1>1, <2>1, <2>2, <2>3, ElsewhereKeepsKept
<1>3. CASE UNCHANGED requesting
  BY <1>1, <1>3, StillKeepsKept DEF requesting
<1> QED
  BY <1>1, <1>2, <1>3 DEF Dispatch, StartedHandled, DispatchEvent,
     BreakpointHandles, MarkerFails, EndOfEvents, EventReadFails

LEMMA InitKept == Init => Kept
<1> SUFFICES ASSUME Init PROVE Kept
  OBVIOUS
<1>1. \A t \in Threads : Asks(t) = {} /\ pc[t] = "idle"
  BY InEmpty DEF Init, IdeInit, Asks
<1>2. listeners = {}
  BY DEF Init, IdeInit
<1> QED
  BY <1>1, <1>2 DEF Kept, Listed, EditorsClear, ClearedIsGone, Exchanging

LEMMA NextKept ==
  ASSUME MaxReplyLines = 1, OneEditor
  PROVE  Known /\ Issued /\ Kept /\ [Next]_vars => Kept'
<1> SUFFICES ASSUME Known, Issued, Kept, [Next]_vars PROVE Kept'
  OBVIOUS
<1>1. ASSUME NEW t \in Threads, RequestStep(t)
      PROVE  Kept'
  BY <1>1, RequestKeepsListed, RequestKeepsClears DEF Kept
<1>2. CASE PlatformStep
  BY <1>2, StillKeepsKept
     DEF PlatformStep, Listen, ProcessMonitor, requesting, manager, installation,
         wire, ldbState
<1>3. CASE UNCHANGED vars
  BY <1>3, StillKeepsKept
     DEF vars, ideState, requesting, manager, installation, wire, ldbState
<1> QED
  BY <1>1, <1>2, <1>3, LdbKeepsKept, UserKeepsKept, DispatchKeepsKept DEF Next, Over

(* A breakpoint that is registered and in the target's listeners is in a   *)
(* vector of ldb, or a request about it is being made                      *)
(* (PDALineBreakpoint.java:103-107, 139-144).                              *)
InstalledSomewhere ==
  ~closed => \A l \in registered \cap listeners : Pending(l) \/ SetSomewhere(l)

LEMMA KeptIsInstalled == IInv /\ Kept => InstalledSomewhere
<1> SUFFICES ASSUME IInv, Kept, NEW l, Being(l) PROVE Pending(l)
  BY DEF Kept, Listed, InstalledSomewhere
<1>1. PICK t \in Threads : Exchanging(t) /\ Request(t) \in {Break(l), Clear(l)}
  BY DEF Being
<1>2. Request(t) \in Asks(t)
  BY <1>1, FirstIsAsked DEF Exchanging
<1> QED
  BY <1>1, <1>2 DEF Pending, Asks, LinesOf

(* No installed breakpoint is lost, whatever the order of requests, hits   *)
(* and edits, with values of one line and one thread that edits            *)
(* breakpoints (two that add and delete the same one can lose it).         *)
THEOREM NoneIsLost ==
  ASSUME MaxReplyLines = 1, OneEditor
  PROVE  Spec => []InstalledSomewhere
<1>1. Spec => [](Known /\ Issued /\ Kept)
  BY IssuedAlways, InitKept, NextKept, PTL DEF Spec
<1>2. Known /\ Issued /\ Kept => InstalledSomewhere
  BY KeptIsInstalled DEF Known
<1> QED
  BY <1>1, <1>2, PTL

(* In a program of one file the vector is the one of that file, which is   *)
(* what the breakpoints' property asks of ldb: it keeps its vectors by the *)
(* source it is stopped in, and a "break" does not say which it means      *)
(* (LuaDebugger.cpp:1141-1163).                                            *)
THEOREM InstalledBreakpointsAreSet ==
  ASSUME MaxReplyLines = 1, OneEditor, Sources = {Main}
  PROVE  Spec => []InstalledIsSet
<1>1. InstalledSomewhere => InstalledIsSet
  BY DEF InstalledSomewhere, SetSomewhere, InstalledIsSet
<1> QED
  BY <1>1, NoneIsLost, PTL
-----------------------------------------------------------------------------
(***************************************************************************)
(* The program is not let go before the breakpoints that are registered at *)
(* the launch are set.  Until then ldb is in its first stop, which the     *)
(* user does not see: the job that would show it is itself busy setting    *)
(* the breakpoints, and resumes the program with its last request.         *)
(***************************************************************************)

NoEditor == \A t \in Users : ~Edits(t)

Wanted == registered \cap enabled
IsSet(l) == l \in LinesOf(breakpoints[Main])
AllSet == \A l \in Wanted : IsSet(l)

(* The requests of "started": the breaks, then the one that lets ldb go.   *)
LetsGoLast(q) ==
  q # <<>> => /\ q[Len(q)] = Do("resume")
              /\ \A i \in 1..Len(q) - 1 : q[i].verb = "break"

(* The job has not read "started" yet; it is working off its requests.     *)
Waiting ==
  /\ jobState = "reading" /\ todo[Job] = <<>>
  /\ IF at = "accepted" THEN events = <<>>
                        ELSE events # <<>> /\ Head(events) = Started

Starting ==
  /\ jobState = "starting" /\ at # "accepted"
  /\ LetsGoLast(todo[Job])
  /\ \A l \in Wanted : Break(l) \in Asks(Job) \/ IsSet(l)

(* The first line that is hooked is one of the main chunk.                 *)
FirstStop ==
  /\ at \in {"accepted", "run"} => currentline = NoLine
  /\ at = "parse" => source = Main

(* Nobody else lets ldb go.                                                *)
Early == \A t \in Users : \A c \in Asks(t) : c.verb \notin ResumingVerbs

Launching ==
  /\ debuggerStates = "STEPPING"
  /\ Ended \/ (FirstStop /\ Early /\ ~fSuspended /\ (Waiting \/ Starting))

Launch == managerEnabled /\ (AllSet \/ Launching)

(* What is proved of every reachable state before.                         *)
Before == Known /\ Issued /\ Kept
-----------------------------------------------------------------------------
(* The requests of the job.                                                *)

LEMMA BreakOrLast ==
  ASSUME NEW q \in Seq(IdeCommand), q # <<>>, LetsGoLast(q)
  PROVE  \/ Head(q).verb = "break" /\ Len(q) > 1
         \/ Head(q) = Do("resume") /\ LinesOf(q) = {Do("resume")}
<1>1. Len(q) \in Nat /\ Len(q) > 0 /\ Head(q) = q[1] /\ DOMAIN q = 1..Len(q)
  BY HeadTailProperties, LenProperties, EmptySeq
<1>2. CASE Len(q) = 1
  <2>1. q[1] = Do("resume") /\ DOMAIN q = {1}
    BY <1>1, <1>2 DEF LetsGoLast
  <2>2. LinesOf(q) = {q[1]}
    BY <2>1 DEF LinesOf
  <2> QED
    BY <1>1, <2>1, <2>2
<1>3. CASE Len(q) # 1
  BY <1>1, <1>3 DEF LetsGoLast
<1> QED
  BY <1>2, <1>3

LEMMA RestLetsGoLast ==
  ASSUME NEW q \in Seq(IdeCommand), q # <<>>, LetsGoLast(q)
  PROVE  LetsGoLast(Tail(q))
<1> DEFINE rest == Tail(q)
<1>1. /\ Len(q) \in Nat /\ Len(q) > 0
      /\ rest \in Seq(IdeCommand) /\ Len(rest) = Len(q) - 1
      /\ \A i \in 1..Len(q) - 1 : rest[i] = q[i + 1]
  BY HeadTailProperties, LenProperties, EmptySeq
<1> HIDE DEF rest
<1>2. ASSUME rest # <<>> PROVE LetsGoLast(rest)
  <2>1. Len(rest) # 0
    BY <1>1, <1>2, EmptySeq
  <2>2. rest[Len(rest)] = q[Len(q)]
    BY <1>1, <2>1
  <2>3. \A i \in 1..Len(rest) - 1 : rest[i] = q[i + 1] /\ i + 1 \in 1..Len(q) - 1
    BY <1>1, <2>1
  <2> QED
    BY <2>2, <2>3 DEF LetsGoLast
<1>3. LetsGoLast(rest)
  BY <1>2 DEF LetsGoLast
<1> QED
  BY <1>3 DEF rest

LEMMA OtherBreakFirst ==
  ASSUME NEW q \in Seq(IdeCommand), Len(q) > 1, LetsGoLast(q),
         NEW b \in IdeCommand, b.verb = "break"
  PROVE  LetsGoLast(<<b>> \o Tail(q))
<1> DEFINE first == <<b>>
           rest == Tail(q)
           s == first \o rest
<1>1. /\ Len(q) \in Nat /\ q # <<>>
      /\ rest \in Seq(IdeCommand) /\ Len(rest) = Len(q) - 1
      /\ \A i \in 1..Len(q) - 1 : rest[i] = q[i + 1]
  BY HeadTailProperties, LenProperties, EmptySeq
<1>2. first \in Seq(IdeCommand) /\ Len(first) = 1 /\ first[1] = b
  OBVIOUS
<1> HIDE DEF first, rest
<1>3. /\ Len(s) = 1 + (Len(q) - 1)
      /\ \A i \in 1..1 + (Len(q) - 1) :
           s[i] = IF i <= 1 THEN first[i] ELSE rest[i - 1]
  <2>1. first \in Seq(IdeCommand) /\ rest \in Seq(IdeCommand)
    BY <1>1, <1>2
  <2>2. /\ Len(first \o rest) = Len(first) + Len(rest)
        /\ \A i \in 1..Len(first) + Len(rest) :
             (first \o rest)[i] = IF i <= Len(first) THEN first[i]
                                                    ELSE rest[i - Len(first)]
    BY <2>1, ConcatProperties
  <2>3. Len(first) = 1 /\ Len(rest) = Len(q) - 1 /\ Len(q) \in Nat
    BY <1>1, <1>2
  <2>4. ASSUME NEW i \in 1..1 + (Len(q) - 1)
        PROVE  s[i] = IF i <= 1 THEN first[i] ELSE rest[i - 1]
    <3>1. i \in 1..Len(first) + Len(rest)
      BY <2>3
    <3> QED
      BY <2>2, <2>3, <3>1
  <2> QED
    BY <2>2, <2>3, <2>4
<1> HIDE DEF s
<1>4. Len(s) = Len(q) /\ s[1] = b
  BY <1>1, <1>2, <1>3
<1>5. ASSUME NEW i \in 2..Len(q) PROVE s[i] = q[i]
  BY <1>1, <1>3, <1>5
<1>6. s[Len(s)] = q[Len(q)]
  BY <1>1, <1>4, <1>5
<1>7. \A i \in 1..Len(s) - 1 : i = 1 \/ i \in 2..Len(q)
  BY <1>1, <1>4
<1>8. LetsGoLast(s)
  BY <1>1, <1>4, <1>5, <1>6, <1>7 DEF LetsGoLast
<1> QED
  BY <1>8 DEF s, first, rest

LEMMA StartedLetsGoLast ==
  ASSUME NEW S, S \subseteq Lines, NEW f \in Orders(S)
  PROVE  LetsGoLast(Each(f, Break) \o <<Do("resume")>>)
<1> DEFINE breaks == Each(f, Break)
           last == <<Do("resume")>>
           s == breaks \o last
<1>1. breaks \in Seq(IdeCommand) /\ \A i \in DOMAIN breaks : breaks[i].verb = "break"
  <2>1. \A i \in DOMAIN breaks : breaks[i] = Break(f[i])
    BY DEF Each
  <2>2. \A l : Break(l).verb = "break"
    BY DEF Break
  <2>3. breaks \in Seq(IdeCommand) /\ DOMAIN breaks = DOMAIN f
    BY EachType DEF Each
  <2> QED
    BY <2>1, <2>2, <2>3
<1>2. last \in Seq(IdeCommand) /\ Len(last) = 1 /\ last[1] = Do("resume")
  <2>1. Do("resume") \in IdeCommand
    BY CommandTypes DEF PlainVerbs, ConsoleVerbs, ResumingVerbs
  <2> QED
    BY <2>1
<1> HIDE DEF breaks, last
<1>3. /\ Len(breaks) \in Nat /\ DOMAIN breaks = 1..Len(breaks)
      /\ Len(s) = Len(breaks) + 1
      /\ \A i \in 1..Len(breaks) + 1 :
           s[i] = IF i <= Len(breaks) THEN breaks[i] ELSE last[i - Len(breaks)]
  <2>1. /\ Len(breaks) \in Nat /\ DOMAIN breaks = 1..Len(breaks)
        /\ Len(breaks \o last) = Len(breaks) + Len(last)
        /\ \A i \in 1..Len(breaks) + Len(last) :
             (breaks \o last)[i] = IF i <= Len(breaks) THEN breaks[i]
                                                      ELSE last[i - Len(breaks)]
    BY <1>1, <1>2, ConcatProperties, LenProperties
  <2> QED
    BY <1>2, <2>1
<1> HIDE DEF s
<1>4. s[Len(s)] = Do("resume")
  <2>1. Len(s) \in 1..Len(breaks) + 1 /\ ~(Len(s) <= Len(breaks)) /\ Len(s) - Len(breaks) = 1
    BY <1>3
  <2> QED
    BY <1>2, <1>3, <2>1
<1>5. \A i \in 1..Len(s) - 1 : s[i].verb = "break"
  BY <1>1, <1>3
<1> QED
  BY <1>4, <1>5 DEF LetsGoLast, s, breaks, last

-----------------------------------------------------------------------------
(* A breakpoint that is set before the program runs is set for good.       *)

LEMMA NobodyClears ==
  ASSUME Before, NoEditor, NEW t \in Threads, NEW c \in Asks(t)
  PROVE  c.verb # "clear"
BY DEF Before, Kept, EditorsClear, NoEditor, Edits

LEMMA SetForGood ==
  ASSUME Before, MaxReplyLines = 1, NoEditor, LdbNext, NEW l, IsSet(l)
  PROVE  IsSet(l)'
<1>1. IInv /\ breakpoints \in [Sources -> Seq(BreakableLines)]
  BY DEF Before, Known, IInv, LdbTypeOK
<1> SUFFICES l \in LinesOf(breakpoints'[Main])
  BY DEF IsSet, LinesOf
<1>2. CASE UNCHANGED breakpoints
  BY <1>2 DEF IsSet
<1> DEFINE cmd == Head(requests)
<1>3. ASSUME requests # <<>>
      PROVE  cmd \in IdeCommand /\ cmd.verb # "clear"
  <2>1. lock \in Threads /\ pc[lock] = "reply" /\ cmd = Request(lock)
    BY <1>1, <1>3, HolderAsked
  <2>2. Request(lock) \in Asks(lock) /\ Request(lock) \in IdeCommand
    BY <1>1, <2>1, FirstIsAsked
  <2> QED
    BY <2>1, <2>2, NobodyClears
<1>4. ASSUME requests # <<>>, DoBreak(cmd), cmd.line # NoLine
      PROVE  l \in LinesOf(breakpoints'[Main])
  <2>1. breakpoints' = [breakpoints EXCEPT ![source] = Append(@, cmd.line)]
    BY <1>4 DEF DoBreak
  <2>2. source \in Sources /\ breakpoints[source] \in Seq(BreakableLines)
    BY <1>1 DEF IInv, LdbTypeOK
  <2>3. cmd.line \in BreakableLines
    BY <1>3, <1>4, IdeCommandLine
  <2>4. LinesOf(Append(breakpoints[source], cmd.line))
          = LinesOf(breakpoints[source]) \cup {cmd.line}
    BY <2>2, <2>3, AppendedLines
  <2> QED
    BY <1>1, <2>1, <2>4, SourcesAssumption DEF IsSet
<1>5. requests # <<>> => ~DoClear(cmd)
  BY <1>3 DEF DoClear
<1> QED
  BY <1>2, <1>4, <1>5, WhoChangesBreakpoints DEF DoBreak

LEMMA LdbKeepsAllSet ==
  ASSUME Before, MaxReplyLines = 1, NoEditor, AllSet, LdbStep
  PROVE  AllSet'
<1>1. LdbNext /\ UNCHANGED <<registered, enabled>>
  BY DEF LdbStep, ideState, manager
<1> QED
  BY <1>1, SetForGood DEF AllSet, Wanted

(* The IDE's steps leave the breakpoints of both sides alone.              *)
LEMMA IdeKeepsAllSet ==
  ASSUME AllSet, UNCHANGED <<registered, enabled, breakpoints>>
  PROVE  AllSet'
BY DEF AllSet, Wanted, IsSet, LinesOf
-----------------------------------------------------------------------------
(* The steps of ldb while the session is launched.                         *)

(* The first stop of a program that steps: at the first line hooked.       *)
LEMMA FirstHook ==
  ASSUME HookLine, debuggerStates = "STEPPING", connected, FirstStop
  PROVE  /\ at = "run" /\ at' = "parse" /\ source' = Main
         /\ UNCHANGED debuggerStates /\ events' = events \o EntryEvents
<1>1. PICK s \in Sources, l \in Lines : StopAtStep(s, l)
  BY DEF HookLine, Pass, StopAtBreakpoint, Hits
<1> QED
  BY <1>1 DEF StopAtStep, Arrive, FirstStop, Emit

(* A command that neither steps nor resumes leaves the process stopped.    *)
LEMMA StaysStopped ==
  ASSUME connected, NEW cmd, Execute(cmd),
         cmd.verb \notin ResumingVerbs \cup ConsoleVerbs
  PROVE  /\ Ended' \/ (at = "parse" /\ at' = "parse" /\ UNCHANGED source)
         /\ UNCHANGED debuggerStates
         /\ UNCHANGED events \/ events' = events \o <<SuspendedClient>>
<1>1. ~DoStep(cmd) /\ ~DoResume(cmd) /\ ~DoQuit(cmd)
  BY DEF DoStep, DoResume, DoQuit, ResumingVerbs, ConsoleVerbs
<1>2. CASE DoSuspend(cmd)
  BY <1>2 DEF DoSuspend, Receive, Emit, place
<1>3. CASE DoPopData(cmd) \/ DoNoWord(cmd)
  BY <1>3 DEF DoPopData, DoNoWord, Dies, Ended
<1> QED
  BY <1>1, <1>2, <1>3 DEF Execute, DoQuery, DoBreak, DoClear, DoSilent, DoUnknown,
     Receive, place

(* The holder of the monitor lets ldb go only once everything is set.      *)
LEMMA NobodyLetsGo ==
  ASSUME Before, MaxReplyLines = 1, at = "parse", FirstStop, Early,
         Waiting \/ Starting, requests # <<>>, ~AllSet
  PROVE  Head(requests).verb \notin ResumingVerbs \cup ConsoleVerbs
<1> DEFINE cmd == Head(requests)
<1>1. IInv
  BY DEF Before, Known
<1>2. /\ lock \in Threads /\ pc[lock] # "idle" /\ todo[lock] # <<>>
      /\ cmd = Request(lock) /\ cmd \in IdeCommand /\ cmd \in Asks(lock)
      /\ todo[lock] \in Seq(IdeCommand)
  <2>1. lock \in Threads /\ pc[lock] = "reply" /\ cmd = Request(lock)
    BY <1>1, HolderAsked
  <2> QED
    BY <1>1, <2>1, FirstIsAsked, RequestType DEF IInv
<1> HIDE DEF cmd
<1>3. cmd.verb \notin ConsoleVerbs
  BY <1>2 DEF IdeCommand
<1>4. CASE lock \in Users
  BY <1>2, <1>3, <1>4 DEF Early, cmd
<1>5. CASE lock = Job
  <2>1. Starting
    BY <1>2, <1>5 DEF Waiting
  <2>2. CASE Head(todo[Job]).verb = "break"
    BY <1>2, <1>3, <1>5, <2>2 DEF Request, ResumingVerbs, cmd
  <2>3. CASE LinesOf(todo[Job]) = {Do("resume")}
    <3>1. \A l : Break(l) \notin Asks(Job)
      BY <2>3 DEF Asks, Break, Do
    <3> QED
      BY <2>1, <3>1 DEF Starting, AllSet
  <2> QED
    BY <1>2, <1>5, <2>1, <2>2, <2>3, BreakOrLast DEF Starting
<1> QED
  BY <1>2, <1>4, <1>5 DEF Threads

(* What a step of ldb does not touch.                                      *)
LEMMA LdbKeepsQueues ==
  ASSUME Before, MaxReplyLines = 1, NoEditor, LdbStep
  PROVE  /\ UNCHANGED <<jobState, fSuspended, todo, managerEnabled>>
         /\ Early => Early'
         /\ at' # "accepted" /\ Starting => Starting'
<1>1. UNCHANGED <<jobState, fSuspended, todo, managerEnabled, registered, enabled>>
  BY DEF LdbStep, ideState, requesting, dispatching, flags, manager
<1>2. \A t : UNCHANGED Asks(t)
  BY <1>1 DEF Asks, LinesOf
<1>3. Early => Early'
  BY <1>2 DEF Early
<1>4. at' # "accepted" /\ Starting => Starting'
  <2> SUFFICES ASSUME at' # "accepted", Starting PROVE Starting'
    OBVIOUS
  <2>1. \A l \in Wanted : Break(l)' \in Asks(Job)' \/ IsSet(l)'
    BY <1>2, SetForGood DEF LdbStep, Starting, Break
  <2>2. LetsGoLast(todo[Job])'
    BY <1>1 DEF Starting, LetsGoLast, Do
  <2> QED
    BY <1>1, <2>1, <2>2 DEF Starting, Wanted
<1> QED
  BY <1>1, <1>3, <1>4

LEMMA HeadStays ==
  ASSUME NEW S, NEW r \in Seq(S), NEW s \in Seq(S), r # <<>>
  PROVE  r \o s # <<>> /\ Head(r \o s) = Head(r)
<1>1. /\ Len(r) \in Nat /\ Len(r) > 0 /\ Head(r) = r[1]
      /\ Len(s) \in Nat
  BY HeadTailProperties, LenProperties, EmptySeq
<1>2. /\ r \o s \in Seq(S) /\ Len(r \o s) = Len(r) + Len(s)
      /\ \A i \in 1..Len(r) + Len(s) :
           (r \o s)[i] = IF i <= Len(r) THEN r[i] ELSE s[i - Len(r)]
  BY ConcatProperties
<1>3. r \o s # <<>> /\ (r \o s)[1] = r[1]
  BY <1>1, <1>2, ConcatEqualIffEmpty
<1> QED
  BY <1>1, <1>2, <1>3, HeadTailProperties

LEMMA LdbKeepsLaunch ==
  ASSUME Before, MaxReplyLines = 1, NoEditor, Launch, LdbStep
  PROVE  Launch'
<1>1. /\ LdbNext /\ connected /\ managerEnabled' /\ events \in Seq(Events)
      /\ UNCHANGED <<jobState, fSuspended, todo>>
      /\ Early => Early'
      /\ at' # "accepted" /\ Starting => Starting'
  <2>1. connected /\ events \in Seq(Events)
    BY DEF Before, Known, Told, SocketsLive, IInv, IdeInv, WireTypeOK
  <2> QED
    BY <2>1, LdbKeepsQueues DEF LdbStep, Launch
<1>2. CASE AllSet
  BY <1>1, <1>2, LdbKeepsAllSet DEF Launch
<1>3. ASSUME Launching, ~AllSet
      PROVE  Launching'
  <2>1. debuggerStates = "STEPPING"
    BY <1>3 DEF Launching
  <2>2. CASE Ended
    <3>1. at' = "aborted" /\ UNCHANGED debuggerStates
      BY <1>1, <2>2, NothingToDo
    <3> QED
      BY <2>1, <3>1 DEF Launching, Ended
  <2>3. ASSUME Ended', UNCHANGED debuggerStates
        PROVE  Launching'
    BY <2>1, <2>3 DEF Launching
  <2>4. ASSUME UNCHANGED debuggerStates, FirstStop', Waiting' \/ Starting', ~Ended
        PROVE  Launching'
    BY <1>1, <1>3, <2>1, <2>4 DEF Launching
  <2>5. CASE ~Ended /\ Start
    <3>1. Waiting /\ events = <<>> /\ currentline = NoLine
      BY <1>3, <2>5 DEF Launching, Start, Starting, Waiting, FirstStop
    <3>2. /\ at' = "run" /\ UNCHANGED <<debuggerStates, currentline>>
          /\ events' = events \o <<Started>>
      BY <1>1, <2>5 DEF Start, Emit, place
    <3>3. events' = <<Started>>
      BY <3>1, <3>2
    <3>4. events' # <<>> /\ Head(events') = Started
      BY <3>3
    <3>5. Waiting' /\ FirstStop'
      BY <1>1, <3>1, <3>2, <3>4 DEF Waiting, FirstStop, Started, Event
    <3> QED
      BY <2>4, <2>5, <3>2, <3>5
  <2>6. ASSUME at # "accepted", at' # "accepted", Waiting \/ Starting,
               \/ UNCHANGED events
               \/ events' = events \o EntryEvents
               \/ events' = events \o <<SuspendedClient>>
        PROVE  Waiting' \/ Starting'
    <3>1. CASE Starting
      BY <1>1, <2>6, <3>1
    <3>2. CASE Waiting
      <4>1. EntryEvents \in Seq(Events) /\ <<SuspendedClient>> \in Seq(Events)
        BY EventTypes
      <4>2. events # <<>> /\ Head(events) = Started
        BY <2>6, <3>2 DEF Waiting
      <4>3. events' # <<>> /\ Head(events') = Started
        BY <1>1, <2>6, <4>1, <4>2, HeadStays
      <4> QED
        BY <1>1, <2>6, <3>2, <4>3 DEF Waiting, Started, Event
    <3> QED
      BY <2>6, <3>1, <3>2
  <2>7. CASE ~Ended /\ HookLine
    <3>1. /\ at = "run" /\ at' = "parse" /\ source' = Main
          /\ UNCHANGED debuggerStates /\ events' = events \o EntryEvents
      BY <1>1, <1>3, <2>1, <2>7, FirstHook DEF Launching
    <3>2. FirstStop'
      BY <3>1 DEF FirstStop
    <3>3. Waiting' \/ Starting'
      BY <1>3, <2>6, <2>7, <3>1 DEF Launching
    <3> QED
      BY <2>4, <2>7, <3>1, <3>2, <3>3
  <2>8. CASE ~Ended /\ Parse
    <3> DEFINE cmd == Head(requests)
    <3>1. requests # <<>> /\ Execute(cmd) /\ at = "parse"
      BY <2>8 DEF Parse, Execute, DoQuery, DoSuspend, DoBreak, DoClear, DoStep,
                  DoResume, DoQuit, DoSilent, DoUnknown, DoPopData, DoNoWord, Dies, Receive
    <3>2. cmd.verb \notin ResumingVerbs \cup ConsoleVerbs
      BY <1>3, <2>8, <3>1, NobodyLetsGo DEF Launching
    <3>3. /\ Ended' \/ (at = "parse" /\ at' = "parse" /\ UNCHANGED source)
          /\ UNCHANGED debuggerStates
          /\ UNCHANGED events \/ events' = events \o <<SuspendedClient>>
      BY <1>1, <3>1, <3>2, StaysStopped
    <3>4. CASE at' = "parse" /\ UNCHANGED source
      <4>1. FirstStop'
        BY <1>3, <2>8, <3>1, <3>4 DEF Launching, FirstStop
      <4>2. Waiting' \/ Starting'
        BY <1>3, <2>6, <2>8, <3>1, <3>3, <3>4 DEF Launching
      <4> QED
        BY <2>4, <2>8, <3>3, <4>1, <4>2
    <3> QED
      BY <2>3, <3>3, <3>4
  <2>9. CASE Finish \/ Fail \/ Killed
    BY <2>3, <2>9 DEF Finish, Fail, Killed, Ended
  <2> QED
    BY <1>1, <2>2, <2>5, <2>7, <2>8, <2>9 DEF LdbNext, PeerClosed, SendFails
<1> QED
  BY <1>1, <1>2, <1>3 DEF Launch

-----------------------------------------------------------------------------
(* The steps of the IDE while the session is launched.                     *)

LEMMA ClosedLaunch ==
  ASSUME Before, Launch, ~AllSet, closed, UNCHANGED <<ldbState, managerEnabled>>
  PROVE  Launch'
<1>1. Ended /\ Launching /\ managerEnabled'
  BY DEF Before, Known, Told, SocketsLive, Launch
<1>2. UNCHANGED <<Ended, debuggerStates>>
  BY DEF ldbState, Ended
<1> QED
  BY <1>1, <1>2 DEF Launching, Launch

(* Steps that keep the queue of the job.                                   *)
LEMMA ElsewhereKeepsLaunch ==
  ASSUME Launch, ~AllSet, Early => Early',
         UNCHANGED <<ldbState, events, jobState, todo[Job], fSuspended,
                     registered, enabled, managerEnabled>>
  PROVE  Launch'
<1>1. /\ \A l : UNCHANGED <<Break(l), IsSet(l)>>
      /\ UNCHANGED <<Started, Do("resume"), Wanted, Asks(Job), at, debuggerStates,
                     source, currentline>>
  BY DEF Break, IsSet, LinesOf, Started, Event, Do, Wanted, Asks, ldbState
<1>2. FirstStop => FirstStop'
  BY <1>1 DEF FirstStop
<1>3. Waiting => Waiting'
  BY <1>1 DEF Waiting
<1>4. LetsGoLast(todo[Job]) => LetsGoLast(todo[Job])'
  BY <1>1 DEF LetsGoLast
<1>5. Starting => Starting'
  BY <1>1, <1>4 DEF Starting
<1>6. Launching'
  BY <1>1, <1>2, <1>3, <1>5 DEF Launch, Launching, Ended
<1> QED
  BY <1>6 DEF Launch

LEMMA UserKeepsLaunch ==
  ASSUME Before, NoEditor, Launch, UserStep
  PROVE  Launch'
<1>1. PICK t \in Users : Hands(t)
  BY UserStepHands DEF Before, Known
<1>2. UNCHANGED <<registered, enabled, managerEnabled, events, jobState, fSuspended,
                  ldbState, breakpoints>>
  BY <1>1 DEF Hands, NoEditor, wire, dispatching, flags, UserStep, ldbState
<1>3. CASE AllSet
  BY <1>2, <1>3, IdeKeepsAllSet DEF Launch
<1>4. CASE ~AllSet
  <2>1. UNCHANGED todo[Job]
    BY <1>1, PdaAssumption DEF Hands, Threads
  <2>2. CASE Ended
    <3>1. Ended' /\ UNCHANGED debuggerStates
      BY <1>2, <2>2 DEF ldbState, Ended
    <3> QED
      BY <1>2, <1>4, <3>1 DEF Launch, Launching
  <2>3. CASE ~Ended
    <3>1. ~IsSuspended
      BY <1>4, <2>3 DEF Launch, Launching, IsSuspended
    <3>2. \A u \in Users \ {t} : Asks(u)' = Asks(u)
      BY <1>1 DEF Hands, Threads, Asks, LinesOf
    <3>3. Early => Early'
      BY <1>1, <3>1, <3>2 DEF Hands, Early
    <3> QED
      BY <1>2, <1>4, <2>1, <3>3, ElsewhereKeepsLaunch
  <2> QED
    BY <2>2, <2>3
<1> QED
  BY <1>3, <1>4

LEMMA DispatchKeepsLaunch ==
  ASSUME Before, Launch, DispatchStep
  PROVE  Launch'
<1>1. /\ IInv /\ Dispatch
      /\ UNCHANGED <<ldbState, registered, enabled, managerEnabled, breakpoints>>
  BY DEF DispatchStep, Dispatch, DispatchStarted, StartedHandled, DispatchEvent,
         BreakpointHandles, MarkerFails, EndOfEvents, EventReadFails, manager,
         ldbState, Before, Known
<1>2. CASE AllSet
  BY <1>1, <1>2, IdeKeepsAllSet DEF Launch
<1>3. CASE ~AllSet /\ closed
  BY <1>1, <1>3, ClosedLaunch
<1>4. ASSUME ~AllSet, ~closed
      PROVE  Launch'
  <2>1. ~IsTerminated
    BY <1>4 DEF Before, Issued, TerminatedIsClosed
  <2>2. Launching
    BY <1>4 DEF Launch
  <2>3. CASE Ended
    <3>1. Ended' /\ UNCHANGED debuggerStates
      BY <1>1, <2>3 DEF ldbState, Ended
    <3> QED
      BY <1>1, <2>2, <3>1 DEF Launch, Launching
  <2>4. CASE BreakpointHandles
    <3>1. UNCHANGED <<events, jobState, todo, fSuspended>>
      BY <2>4 DEF BreakpointHandles, wire, requesting
    <3>2. Early => Early'
      BY <3>1 DEF Early, Asks, LinesOf
    <3> QED
      BY <1>1, <1>4, <3>1, <3>2, ElsewhereKeepsLaunch
  <2>5. CASE ~Ended /\ DispatchStarted
    <3>1. /\ Waiting /\ at # "accepted" /\ jobState' = "starting"
          /\ FirstStop /\ Early /\ ~fSuspended'
      BY <2>2, <2>5 DEF Launching, DispatchStarted, MayRead, Starting, Waiting, flags
    <3>2. PICK order \in Orders(registered) :
            todo'[Job] = Each(order, Break) \o <<Do("resume")>>
      BY <1>1, <2>5, StartedAsks
    <3>3. LetsGoLast(todo'[Job])
      BY <1>1, <3>2, StartedLetsGoLast DEF IInv, IdeInv, IdeTypeOK
    <3>4. /\ Asks(Job)' = {Break(l) : l \in registered} \cup {Do("resume")}
          /\ \A u \in Threads \ {Job} : todo'[u] = todo[u]
      BY <1>1, <2>5, StartedAsks
    <3>5. \A l \in Wanted' : Break(l)' \in Asks(Job)'
      BY <1>1, <3>4 DEF Wanted, Break
    <3>6. LetsGoLast(todo[Job])'
      BY <3>3 DEF LetsGoLast, Do
    <3>7. /\ UNCHANGED <<at, debuggerStates>>
          /\ FirstStop'
      BY <1>1, <3>1 DEF ldbState, FirstStop
    <3>8. Starting'
      BY <3>1, <3>5, <3>6, <3>7 DEF Starting
    <3>9. Early'
      BY <3>1, <3>4, PdaAssumption DEF Early, Asks, LinesOf, Threads
    <3>10. Launching'
      BY <2>2, <3>1, <3>7, <3>8, <3>9 DEF Launching
    <3> QED
      BY <1>1, <3>10 DEF Launch
  <2>6. CASE ~Ended /\ StartedHandled
    <3>1. Starting /\ pc[Job] = "idle"
      BY <2>2, <2>6 DEF Launching, StartedHandled, Waiting
    <3>2. Asks(Job) = {}
      BY <3>1, InEmpty DEF Before, Issued, IdleHasNone, Asks, Threads
    <3> QED
      BY <1>4, <3>1, <3>2 DEF Starting, AllSet
  <2>7. ~Ended => ~DispatchEvent /\ ~MarkerFails
    BY <2>2 DEF Launching, DispatchEvent, MarkerFails, MayRead, Waiting, Starting,
                Started, SyntaxError, Event
  <2> QED
    BY <1>1, <1>4, <2>1, <2>3, <2>4, <2>5, <2>6, <2>7
       DEF Dispatch, EndOfEvents, EventReadFails
<1> QED
  BY <1>2, <1>3, <1>4

(* The job goes on with its requests: a break is dropped only if it is not *)
(* wanted, and otherwise it is acknowledged, in the main chunk.            *)
LEMMA JobKeepsStarting ==
  ASSUME Before, MaxReplyLines = 1, managerEnabled, ~AllSet, ~closed,
         FirstStop, ~Ended, Starting, RequestStep(Job)
  PROVE  Starting'
<1>1. /\ IInv /\ Requests(Job) /\ ~IsTerminated /\ Job \in Threads
      /\ UNCHANGED <<at, breakpoints, registered, enabled, jobState>>
  <2>1. UNCHANGED <<manager, dispatching>>
    BY DEF RequestStep, Requests, Begin, SendRequest, ReadReply, ReadNull, ReadFails
  <2> QED
    BY <2>1 DEF Before, Known, Issued, TerminatedIsClosed, RequestStep, ldbState,
                manager, dispatching, Threads
<1> DEFINE q == todo[Job]
           rest == Tail(q)
<1>2. /\ pc[Job] # "idle" /\ q # <<>> /\ q \in Seq(IdeCommand)
      /\ rest \in Seq(IdeCommand)
      /\ Asks(Job) = {Request(Job)} \cup LinesOf(rest)
      /\ todo \in [Threads -> Seq(IdeCommand)]
  BY <1>1, RequestsAskLess, FirstIsAsked, RequestType DEF IInv, IdeInv, IdeTypeOK
<1>3. Request(Job).verb = "break" /\ Len(q) > 1
  <2>1. CASE LinesOf(q) = {Do("resume")}
    <3>1. \A l : Break(l) \notin Asks(Job)
      BY <2>1 DEF Asks, Break, Do
    <3> QED
      BY <3>1 DEF Starting, AllSet
  <2> QED
    BY <1>2, <2>1, BreakOrLast DEF Starting, Request
<1>4. LetsGoLast(q) /\ LetsGoLast(rest)
  BY <1>2, RestLetsGoLast DEF Starting
<1>5. \A l \in Wanted : l \in registered /\ l \in enabled /\ MarkerExists(l)
  BY DEF Wanted, MarkerExists
<1>6. /\ \A l : UNCHANGED <<Break(l), IsSet(l)>>
      /\ UNCHANGED Wanted
      /\ Asks(Job)' = LinesOf(todo'[Job])
  BY <1>1 DEF Break, IsSet, LinesOf, Wanted, Asks
<1> HIDE DEF q, rest
<1>7. ASSUME NEW r, todo'[Job] = r, LetsGoLast(r), LinesOf(rest) \subseteq LinesOf(r),
             \A l \in Wanted : Request(Job) = Break(l) => Break(l) \in LinesOf(r) \/ IsSet(l)
      PROVE  Starting'
  <2>1. \A l \in Wanted : Break(l) \in Asks(Job)' \/ IsSet(l)
    BY <1>2, <1>6, <1>7 DEF Starting
  <2>2. LetsGoLast(todo[Job])'
    BY <1>7 DEF LetsGoLast, Do
  <2> QED
    BY <1>1, <1>6, <2>1, <2>2 DEF Starting
<1>8. ASSUME UNCHANGED todo
      PROVE  Starting'
  <2>1. todo'[Job] = q /\ LinesOf(q) = Asks(Job)
    BY <1>8 DEF q, Asks
  <2> QED
    BY <1>2, <1>4, <1>7, <2>1
<1>9. CASE Begin(Job)
  <2>1. CASE Install(Job)
    <3> DEFINE line == Request(Job).line
    <3>1. CASE /\ MarkerExists(line) /\ ~(line \in enabled /\ managerEnabled)
               /\ Undertake(Job, Tail(todo[Job]))
      <4>1. todo'[Job] = rest
        BY <1>1, <1>2, <3>1 DEF Undertake, rest, q
      <4>2. \A l \in Wanted : Request(Job) # Break(l)
        BY <1>5, <3>1 DEF Break
      <4> QED
        BY <1>4, <1>7, <4>1, <4>2
    <3>2. CASE /\ ~MarkerExists(line)
               /\ todo' = [todo EXCEPT ![Job] = <<Break(NoMarkerLine)>> \o Tail(@)]
      <4> DEFINE b == Break(NoMarkerLine)
                 first == <<b>>
      <4>1. b \in IdeCommand /\ b.verb = "break"
        BY CommandTypes DEF BreakableLines, Break
      <4>2. LetsGoLast(first \o rest)
        BY <1>2, <1>3, <1>4, <4>1, OtherBreakFirst DEF rest
      <4>3. todo'[Job] = first \o rest
        BY <1>1, <1>2, <3>2 DEF rest, q
      <4>4. first \in Seq(IdeCommand)
        BY <4>1
      <4> HIDE DEF b, first
      <4>5. LinesOf(rest) \subseteq LinesOf(first \o rest)
        BY <1>2, <4>4, InConcat
      <4>6. \A l \in Wanted : Request(Job) # Break(l)
        BY <1>5, <3>2 DEF Break
      <4> QED
        BY <1>7, <4>2, <4>3, <4>5, <4>6
    <3> QED
      BY <1>8, <2>1, <3>1, <3>2 DEF Install
  <2> QED
    BY <1>1, <1>3, <1>8, <1>9, <2>1
       DEF Begin, Uninstall, TooLate, PlainRequest, BreakpointVerbs
<1>10. CASE SendRequest(Job)
  BY <1>8, <1>10 DEF SendRequest
<1>11. CASE ReadReply(Job)
  <2>1. todo'[Job] = rest
    <3>1. AfterReply(Job) = {Tail(todo[Job])}
      BY <1>3 DEF AfterReply
    <3>2. Undertake(Job, Tail(todo[Job]))
      BY <1>11, <3>1 DEF ReadReply
    <3> QED
      BY <1>1, <1>2, <3>2 DEF Undertake, rest, q
  <2>2. ASSUME NEW l \in Wanted, Request(Job) = Break(l)
        PROVE  IsSet(l)
    <3>1. l \in Lines
      BY <1>1, <2>2 DEF Wanted, IInv, IdeInv, IdeTypeOK
    <3>2. Request(Job).line = l /\ l # NoLine
      BY <2>2, <3>1, LinesAssumption DEF Break, NoLine
    <3>3. Acknowledged(Job)
      BY <1>1, <1>3, <1>11, <3>2, HolderIsAnswered DEF Acknowledged
    <3>4. l \in LinesOf(breakpoints[source]) /\ at = "parse"
      BY <1>1, <3>2, <3>3 DEF Before, Issued, BreaksAreSet
    <3> QED
      BY <3>4 DEF FirstStop, IsSet
  <2> QED
    BY <1>4, <1>7, <2>1, <2>2
<1> QED
  BY <1>1, <1>9, <1>10, <1>11 DEF Requests, ReadNull, ReadFails

LEMMA RequestKeepsLaunch ==
  ASSUME Before, MaxReplyLines = 1, Launch, NEW t \in Threads, RequestStep(t)
  PROVE  Launch'
<1>1. /\ IInv /\ Requests(t)
      /\ UNCHANGED <<ldbState, registered, enabled, managerEnabled, breakpoints,
                     jobState, fSuspended, events>>
  <2>1. UNCHANGED <<manager, dispatching, flags, events>>
    BY DEF RequestStep, Requests, Begin, SendRequest, ReadReply, ReadNull, ReadFails,
           wire
  <2> QED
    BY <2>1 DEF Before, Known, RequestStep, manager, dispatching, flags, ldbState
<1>2. CASE AllSet
  BY <1>1, <1>2, IdeKeepsAllSet DEF Launch
<1>3. CASE ~AllSet /\ closed
  BY <1>1, <1>3, ClosedLaunch
<1>4. ASSUME ~AllSet, ~closed
      PROVE  Launch'
  <2>1. /\ \A u \in Threads \ {t} : Asks(u)' = Asks(u) /\ todo'[u] = todo[u]
        /\ Asks(t)' \subseteq Asks(t) \cup Byproducts /\ pc[t] # "idle"
    BY <1>1, RequestsAskLess DEF Asks, LinesOf
  <2>2. \A c \in Byproducts : c.verb \notin ResumingVerbs
    BY DEF Byproducts, Do, Break, ResumingVerbs
  <2>3. Early => Early'
    BY <2>1, <2>2 DEF Early, Threads
  <2>4. CASE t # Job
    <3>1. UNCHANGED todo[Job]
      BY <2>1, <2>4 DEF Threads
    <3> QED
      BY <1>1, <1>4, <2>3, <3>1, ElsewhereKeepsLaunch
  <2>5. CASE t = Job
    <3>1. Launching /\ managerEnabled'
      BY <1>1, <1>4 DEF Launch
    <3>2. UNCHANGED <<Ended, debuggerStates, FirstStop>>
      BY <1>1 DEF ldbState, Ended, FirstStop
    <3>3. CASE Ended
      BY <3>1, <3>2, <3>3 DEF Launch, Launching
    <3>4. CASE ~Ended
      <4>1. todo[Job] # <<>>
        BY <1>1, <2>1, <2>5, FirstIsAsked
      <4>2. Starting /\ FirstStop
        BY <3>1, <3>4, <4>1 DEF Launching, Waiting
      <4>3. Starting'
        BY <1>4, <2>5, <3>4, <4>2, JobKeepsStarting DEF Launch
      <4> QED
        BY <1>1, <2>3, <3>1, <3>2, <4>3 DEF Launch, Launching
    <3> QED
      BY <3>3, <3>4
  <2> QED
    BY <2>4, <2>5
<1> QED
  BY <1>2, <1>3, <1>4
-----------------------------------------------------------------------------
LEMMA InitLaunch == Init => Launch
<1> SUFFICES ASSUME Init PROVE Launch
  OBVIOUS
<1>1. /\ managerEnabled /\ debuggerStates = "STEPPING" /\ at = "accepted"
      /\ currentline = NoLine /\ ~fSuspended /\ events = <<>> /\ jobState = "reading"
      /\ \A t \in Threads : todo[t] = <<>>
  BY DEF Init, IdeInit, LdbInit, WireInit
<1>2. Early
  BY <1>1, InEmpty DEF Early, Asks, Threads
<1>3. Waiting /\ FirstStop
  BY <1>1 DEF Waiting, FirstStop, Threads
<1> QED
  BY <1>1, <1>2, <1>3 DEF Launch, Launching

LEMMA NextLaunch ==
  ASSUME MaxReplyLines = 1, NoEditor
  PROVE  Before /\ Launch /\ [Next]_vars => Launch'
<1> SUFFICES ASSUME Before, Launch, [Next]_vars PROVE Launch'
  OBVIOUS
<1>1. ASSUME UNCHANGED <<ldbState, events, jobState, todo, fSuspended, registered,
                         enabled, managerEnabled>>
      PROVE  Launch'
  <2>1. Early => Early'
    BY <1>1 DEF Early, Asks, LinesOf
  <2>2. UNCHANGED breakpoints
    BY <1>1 DEF ldbState
  <2> QED
    BY <1>1, <2>1, <2>2, ElsewhereKeepsLaunch, IdeKeepsAllSet DEF Launch
<1>2. CASE PlatformStep
  BY <1>1, <1>2 DEF PlatformStep, Listen, ProcessMonitor, requesting, dispatching,
                    flags, manager, wire
<1>3. CASE UNCHANGED vars
  BY <1>1, <1>3 DEF vars, ideState, requesting, dispatching, flags, manager, wire
<1> QED
  BY <1>2, <1>3, LdbKeepsLaunch, UserKeepsLaunch, DispatchKeepsLaunch,
     RequestKeepsLaunch DEF Next, Over

(* Once the program runs to its breakpoints, all that were registered and  *)
(* enabled at the launch are set in the main chunk: the first stop is not  *)
(* shown before the job has set them and resumed the program, whatever the *)
(* users do in between and whenever ldb dies (PDADebugTarget.java:389-409).*)
(* For users that edit no breakpoint and values of one line.               *)
THEOREM BreakpointsComeFirst ==
  ASSUME MaxReplyLines = 1, NoEditor
  PROVE  Spec => []SetBeforeRunning
<1>1. OneEditor
  BY DEF NoEditor, OneEditor
<1>2. Spec => []Before
  <2>1. Known /\ Issued /\ Kept /\ [Next]_vars => Kept'
    BY <1>1, NextKept
  <2> QED
    BY <2>1, IssuedAlways, InitKept, PTL DEF Spec, Before
<1>3. Before /\ Launch /\ [Next]_vars => Launch'
  BY NextLaunch
<1>4. Launch => SetBeforeRunning
  BY DEF Launch, Launching, AllSet, Wanted, IsSet, SetBeforeRunning
<1> QED
  BY <1>2, <1>3, <1>4, InitLaunch, PTL DEF Spec
=============================================================================
