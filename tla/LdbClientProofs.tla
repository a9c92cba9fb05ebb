-------------------------- MODULE LdbClientProofs ---------------------------
(***************************************************************************)
(* ldb, driven by any peer, implements the line debugger of the module     *)
(* Debugger: every step of ldb is one of its steps, or changes nothing     *)
(* that it talks about.                                                    *)
(***************************************************************************)
EXTENDS LdbClient, LdbProofs
-----------------------------------------------------------------------------
(* The types, with the peer's own variable.                                *)

LEMMA ClientSendTyping ==
  ASSUME LdbTyping, NEW cmd \in ClientCommands, ClientSend(cmd)
  PROVE  LdbTyping'
<1>1. requests' \in Seq(Command)
  BY ClientAssumption, AppendProperties DEF ClientSend, LdbTyping, WireTypeOK
<1>2. LdbTypeOK'
  BY DEF ClientSend, ldbState, LdbTyping, LdbTypeOK
<1>3. WireTypeOK'
  BY <1>1 DEF ClientSend, LdbTyping, WireTypeOK
<1> QED
  BY <1>2, <1>3 DEF LdbTyping

LEMMA ClientTakesTyping ==
  ASSUME LdbTyping, ClientTakesReply \/ ClientTakesEvent \/ HangUp
  PROVE  LdbTyping'
<1>1. replies' \in Seq(Reply) /\ events' \in Seq(Events)
  BY HeadTailProperties
     DEF ClientTakesReply, ClientTakesEvent, HangUp, LdbTyping, WireTypeOK
<1>2. LdbTypeOK'
  BY DEF ClientTakesReply, ClientTakesEvent, HangUp, ldbState, LdbTyping, LdbTypeOK
<1>3. requests' \in Seq(Command) /\ closed' \in BOOLEAN
  BY DEF ClientTakesReply, ClientTakesEvent, HangUp, LdbTyping, WireTypeOK
<1>4. connected' \in BOOLEAN
  BY DEF ClientTakesReply, ClientTakesEvent, HangUp, LdbTyping, WireTypeOK
<1> QED
  BY <1>1, <1>2, <1>3, <1>4 DEF LdbTyping, WireTypeOK

LEMMA StutterTyping ==
  ASSUME LdbTyping, UNCHANGED vars
  PROVE  LdbTyping'
<1>1. LdbTypeOK'
  BY DEF vars, ldbState, LdbTyping, LdbTypeOK
<1>2. WireTypeOK'
  BY DEF vars, wire, LdbTyping, WireTypeOK
<1> QED
  BY <1>1, <1>2 DEF LdbTyping

LEMMA HeardType ==
  ASSUME TypeOK, [Next]_vars
  PROVE  heard' \in Events
<1>1. CASE ClientTakesEvent
  BY <1>1, HeadTailProperties DEF ClientTakesEvent, TypeOK, WireTypeOK
<1>2. CASE UNCHANGED heard
  BY <1>2 DEF TypeOK
<1> QED
  BY <1>1, <1>2 DEF Next, ClientSend, ClientTakesReply, HangUp, Over, vars

LEMMA InitTyping == Init => TypeOK
<1>1. Started \in Events
  BY DEF Started, Event, Events
<1> QED
  BY <1>1, LdbInitTyping DEF Init, TypeOK, LdbTyping

LEMMA NextTyping == TypeOK /\ [Next]_vars => TypeOK'
<1> SUFFICES ASSUME TypeOK, [Next]_vars PROVE TypeOK'
  OBVIOUS
<1>1. LdbTyping
  BY DEF TypeOK, LdbTyping
<1>2. LdbTyping'
  BY <1>1, LdbNextTyping, ClientSendTyping, ClientTakesTyping, StutterTyping
     DEF Next, Over
<1> QED
  BY <1>2, HeardType DEF TypeOK, LdbTyping

(* The state of ldb and of its wire has its declared types whatever the    *)
(* peer sends and whenever it goes (LuaDebugger.cpp:925-1300).             *)
THEOREM ClientTypeCorrect == Spec => []TypeOK
BY InitTyping, NextTyping, PTL DEF Spec
-----------------------------------------------------------------------------
(* The refinement.  What the abstract debugger sees of a state: its mode,  *)
(* whether it is stepping, the lines with a breakpoint, and its place.     *)

Same == UNCHANGED <<at, debuggerStates, breakpoints, place>>

LEMMA ModeOf ==
  /\ at = "accepted" <=> Mode = "ready"
  /\ at = "run" <=> Mode = "running"
  /\ at = "parse" <=> Mode = "stopped"
  /\ at \notin {"accepted", "run", "parse"} <=> Mode = "over"
BY DEF Mode

LEMMA NextModeOf ==
  /\ at' = "accepted" <=> Mode' = "ready"
  /\ at' = "run" <=> Mode' = "running"
  /\ at' = "parse" <=> Mode' = "stopped"
  /\ at' \notin {"accepted", "run", "parse"} <=> Mode' = "over"
BY DEF Mode

LEMMA SameIsStutter ==
  ASSUME Same
  PROVE  UNCHANGED D!vars
BY DEF Same, D!vars, Mode, Stepping, Breaks, place

LEMMA EndIsEnd ==
  ASSUME at' \in {"exited", "aborted"},
         UNCHANGED <<debuggerStates, breakpoints, place>>
  PROVE  [D!Next]_D!vars
<1>1. UNCHANGED <<Stepping, Breaks, place>>
  BY DEF Stepping, Breaks
<1>2. Mode' = "over"
  BY NextModeOf
<1>3. CASE Mode = "over"
  BY <1>1, <1>2, <1>3 DEF D!vars
<1>4. CASE Mode # "over"
  BY <1>1, <1>2, <1>4 DEF D!Next, D!End
<1> QED
  BY <1>3, <1>4

LEMMA GoIsGo ==
  ASSUME at = "parse", at' = "run", UNCHANGED <<breakpoints, place>>
  PROVE  D!Next
<1>1. Mode = "stopped" /\ Mode' = "running"
  BY ModeOf, NextModeOf
<1>2. Stepping' \in BOOLEAN
  BY DEF Stepping
<1>3. UNCHANGED <<Breaks, place>>
  BY DEF Breaks
<1> QED
  BY <1>1, <1>2, <1>3 DEF D!Next, D!Go

(* The hook stops exactly where the debugger must.                         *)
LEMMA HookIsReach ==
  ASSUME TypeOK, HookLine
  PROVE  D!Next
<1>1. PICK s \in Sources, l \in Lines :
        Pass(s, l) \/ StopAtBreakpoint(s, l) \/ StopAtStep(s, l)
  BY DEF HookLine
<1>2. /\ at = "run" /\ place' = <<s, l>>
      /\ UNCHANGED <<debuggerStates, breakpoints>>
  BY <1>1 DEF Pass, StopAtBreakpoint, StopAtStep, Arrive, place
<1>3. Breaks[s] = LinesOf(breakpoints[s])
  BY DEF Breaks
<1>4. at' = IF D!MustStop(s, l) THEN "parse" ELSE "run"
  <2>1. debuggerStates \in {"STEPPING", "CONTINUING"}
    BY DEF TypeOK, LdbTypeOK
  <2> QED
    BY <1>1, <1>2, <1>3, <2>1
       DEF Pass, StopAtBreakpoint, StopAtStep, Hits, D!MustStop, Stepping
<1>5. /\ Mode = "running"
      /\ Mode' = IF D!MustStop(s, l) THEN "stopped" ELSE "running"
  BY <1>2, <1>4, ModeOf, NextModeOf
<1>6. UNCHANGED <<Stepping, Breaks>>
  BY <1>2 DEF Stepping, Breaks
<1>7. D!Reach(s, l)
  BY <1>2, <1>5, <1>6 DEF D!Reach
<1> QED
  BY <1>7 DEF D!Next
-----------------------------------------------------------------------------
(* break and clear change one line of the source ldb is stopped in.        *)

LEMMA OneVectorChanges ==
  ASSUME TypeOK, at = "parse", NEW vector, NEW l \in BreakableLines,
         breakpoints' = [breakpoints EXCEPT ![source] = vector],
         \/ LinesOf(vector) = LinesOf(breakpoints[source]) \cup {l}
         \/ LinesOf(vector) = LinesOf(breakpoints[source]) \ {l}
         \/ LinesOf(vector) = LinesOf(breakpoints[source]),
         UNCHANGED <<at, debuggerStates, place>>
  PROVE  [D!Next]_D!vars
<1>1. source \in Sources /\ breakpoints \in [Sources -> Seq(BreakableLines)]
  BY DEF TypeOK, LdbTypeOK
<1>2. /\ Breaks = [s \in Sources |-> LinesOf(breakpoints[s])]
      /\ Breaks' = [s \in Sources |-> LinesOf(breakpoints'[s])]
  BY DEF Breaks, LinesOf
<1>3. \A s \in Sources : breakpoints'[s] = IF s = source THEN vector
                                                         ELSE breakpoints[s]
  BY <1>1
<1>4. Breaks' = [Breaks EXCEPT ![source] = LinesOf(vector)]
  BY <1>1, <1>2, <1>3
<1>5. Breaks[source] = LinesOf(breakpoints[source]) /\ place[1] = source
  BY <1>1, <1>2 DEF place
<1>6. Mode = "stopped" /\ UNCHANGED <<Mode, Stepping, place>>
  BY ModeOf DEF Mode, Stepping
<1>7. CASE LinesOf(vector) = LinesOf(breakpoints[source])
  <2>1. Breaks' = Breaks
    BY <1>1, <1>2, <1>4, <1>5, <1>7
  <2> QED
    BY <1>6, <2>1 DEF D!vars
<1>8. CASE LinesOf(vector) = LinesOf(breakpoints[source]) \cup {l}
  <2>1. Breaks' = [Breaks EXCEPT ![place[1]] = @ \cup {l}]
    BY <1>4, <1>5, <1>8
  <2> QED
    BY <1>6, <2>1 DEF D!Next, D!ChangeBreaks
<1>9. CASE LinesOf(vector) = LinesOf(breakpoints[source]) \ {l}
  <2>1. Breaks' = [Breaks EXCEPT ![place[1]] = @ \ {l}]
    BY <1>4, <1>5, <1>9
  <2> QED
    BY <1>6, <2>1 DEF D!Next, D!ChangeBreaks
<1> QED
  BY <1>7, <1>8, <1>9

LEMMA BreakIsChange ==
  ASSUME TypeOK, NEW cmd, DoBreak(cmd)
  PROVE  [D!Next]_D!vars
<1>1. cmd \in Command
  BY ReceiveType DEF DoBreak, TypeOK, WireTypeOK
<1>2. at = "parse" /\ UNCHANGED <<at, debuggerStates, place>>
  BY DEF DoBreak, Receive, place
<1>3. CASE cmd.line = NoLine
  BY <1>2, <1>3, SameIsStutter DEF DoBreak, Same
<1>4. CASE cmd.line # NoLine
  <2>1. cmd.line \in BreakableLines
    BY <1>1, <1>4, CommandLine DEF DoBreak
  <2>2. breakpoints[source] \in Seq(BreakableLines)
    BY DEF TypeOK, LdbTypeOK
  <2> DEFINE vector == Append(breakpoints[source], cmd.line)
  <2>3. breakpoints' = [breakpoints EXCEPT ![source] = vector]
    BY <1>4 DEF DoBreak
  <2>4. LinesOf(vector) = LinesOf(breakpoints[source]) \cup {cmd.line}
    BY <2>1, <2>2, AppendedLines
  <2> HIDE DEF vector
  <2> QED
    BY <1>2, <2>1, <2>3, <2>4, OneVectorChanges
<1> QED
  BY <1>3, <1>4

LEMMA ClearIsChange ==
  ASSUME TypeOK, NEW cmd, DoClear(cmd)
  PROVE  [D!Next]_D!vars
<1>1. at = "parse" /\ UNCHANGED <<at, debuggerStates, place>>
  BY DEF DoClear, Receive, place
<1>2. CASE cmd.line \notin LinesOf(breakpoints[source])
  BY <1>1, <1>2, SameIsStutter DEF DoClear, Same
<1>3. CASE cmd.line \in LinesOf(breakpoints[source])
  <2>1. breakpoints[source] \in Seq(BreakableLines)
    BY DEF TypeOK, LdbTypeOK
  <2>2. cmd.line \in BreakableLines
    BY <1>3, <2>1, ElementOfSeq, LenProperties DEF LinesOf
  <2> DEFINE vector == EraseFirst(breakpoints[source], cmd.line)
  <2>3. breakpoints' = [breakpoints EXCEPT ![source] = vector]
    BY <1>3 DEF DoClear
  <2>4. /\ LinesOf(vector) \subseteq LinesOf(breakpoints[source])
        /\ LinesOf(breakpoints[source]) \ {cmd.line} \subseteq LinesOf(vector)
    BY <1>3, <2>1, EraseFirstProperties
  <2> HIDE DEF vector
  <2>5. \/ LinesOf(vector) = LinesOf(breakpoints[source]) \ {cmd.line}
        \/ LinesOf(vector) = LinesOf(breakpoints[source])
    BY <2>4
  <2> QED
    BY <1>1, <2>2, <2>3, <2>5, OneVectorChanges
<1> QED
  BY <1>2, <1>3

LEMMA ExecuteRefines ==
  ASSUME TypeOK, NEW cmd, Execute(cmd)
  PROVE  [D!Next]_D!vars
<1>1. CASE DoQuery(cmd) \/ DoSuspend(cmd) \/ DoSilent(cmd) \/ DoUnknown(cmd)
  <2>1. Same
    BY <1>1 DEF DoQuery, DoSuspend, DoSilent, DoUnknown, Receive, Same
  <2> QED
    BY <2>1, SameIsStutter
<1>2. CASE DoStep(cmd) \/ DoResume(cmd) \/ DoQuit(cmd)
  <2>1. at = "parse" /\ at' = "run" /\ UNCHANGED <<breakpoints, place>>
    BY <1>2 DEF DoStep, DoResume, DoQuit, Receive
  <2> QED
    BY <2>1, GoIsGo
<1>3. CASE DoPopData(cmd) \/ DoNoWord(cmd)
  BY <1>3, EndIsEnd DEF DoPopData, DoNoWord, Dies
<1> QED
  BY <1>1, <1>2, <1>3, BreakIsChange, ClearIsChange DEF Execute

LEMMA LdbRefines ==
  ASSUME TypeOK, LdbNext
  PROVE  [D!Next]_D!vars
<1>1. CASE Start
  <2>1. Mode = "ready" /\ Mode' = "running"
    BY <1>1, ModeOf, NextModeOf DEF Start
  <2>2. UNCHANGED <<Stepping, Breaks, place>>
    BY <1>1 DEF Start, Stepping, Breaks
  <2> QED
    BY <2>1, <2>2 DEF D!Next, D!Launch
<1>2. CASE Finish \/ Fail \/ SendFails \/ Killed
  <2>1. /\ at' \in {"exited", "aborted"}
        /\ UNCHANGED <<debuggerStates, breakpoints, place>>
    BY <1>2 DEF Finish, Fail, SendFails, Killed
  <2> QED
    BY <2>1, EndIsEnd
<1>3. CASE HookLine
  BY <1>3, HookIsReach
<1>4. CASE Parse
  BY <1>4, ExecuteRefines DEF Parse
<1>5. CASE PeerClosed
  BY <1>5, GoIsGo DEF PeerClosed
<1> QED
  BY <1>1, <1>2, <1>3, <1>4, <1>5 DEF LdbNext

LEMMA InitRefines == Init => D!Init
<1> SUFFICES ASSUME Init PROVE D!Init
  OBVIOUS
<1>1. Mode = "ready" /\ Stepping = TRUE /\ place = <<Main, NoLine>>
  BY DEF Init, LdbInit, Mode, Stepping, place
<1>2. Breaks = [s \in Sources |-> {}]
  BY DEF Init, LdbInit, Breaks, LinesOf
<1> QED
  BY <1>1, <1>2 DEF D!Init

LEMMA NextRefines == TypeOK /\ [Next]_vars => [D!Next]_D!vars
<1> SUFFICES ASSUME TypeOK, [Next]_vars PROVE [D!Next]_D!vars
  OBVIOUS
<1>1. CASE LdbNext
  BY <1>1, LdbRefines
<1>2. CASE UNCHANGED ldbState
  BY <1>2, SameIsStutter DEF ldbState, Same, place
<1> QED
  BY <1>1, <1>2
     DEF Next, ClientSend, ClientTakesReply, ClientTakesEvent, HangUp, Over, vars

(* ldb implements the line debugger: it stops at exactly the lines with a  *)
(* breakpoint of the source they are in (or at every line when stepping),  *)
(* stays there until it is told to go on or its peer is gone, and changes  *)
(* breakpoints one line at a time (HookRoutine and commandParser,          *)
(* LuaDebugger.cpp:925-1378), for any scripts, lines, breakpoints and peer.*)
THEOREM LdbIsADebugger == Spec => IsADebugger
BY InitRefines, NextRefines, ClientTypeCorrect, PTL DEF Spec, IsADebugger, D!Spec
-----------------------------------------------------------------------------
(* What the peer was told last.  In the command loop that is "suspended":  *)
(* every way into the loop ends with it, and no command that stays in the  *)
(* loop sends anything else.                                               *)

ToldOfStop == connected /\ at = "parse" => LastEvent.kind = "suspended"

(* Taking an event does not change which was the last one.                 *)
LEMMA TakingKeepsLast ==
  ASSUME TypeOK, ClientTakesEvent
  PROVE  LastEvent' = LastEvent
<1>1. events \in Seq(Events) /\ events # <<>>
  BY DEF TypeOK, WireTypeOK, ClientTakesEvent
<1>2. events' = Tail(events) /\ heard' = Head(events)
  BY DEF ClientTakesEvent
<1> QED
  BY <1>1, <1>2, LastOfTail DEF LastEvent

LEMMA LastTold ==
  ASSUME TypeOK, NEW kind, Tells(kind)
  PROVE  LastEvent'.kind = kind
<1>1. events' # <<>> /\ events'[Len(events')].kind = kind
  BY TellsLast DEF TypeOK, WireTypeOK
<1> QED
  BY <1>1 DEF LastEvent

(* A step of ldb keeps the peer informed.                                  *)
LEMMA LdbTellsTheMode ==
  ASSUME TypeOK, ToldOfStop, LdbNext, UNCHANGED heard, connected
  PROVE  /\ at' = "parse" => LastEvent'.kind = "suspended"
         /\ Leaves /\ Head(requests).verb # "quit" => LastEvent'.kind = "resumed"
<1>1. TellsItAll
  BY LdbNextTells
<1>2. CASE Ends
  BY <1>2 DEF Ends, Leaves
<1>3. CASE Silent
  <2>1. LastEvent' = LastEvent
    BY <1>3 DEF Silent, LastEvent
  <2> QED
    BY <1>3, <2>1 DEF Silent, Leaves, ToldOfStop
<1>4. CASE TellsStarted
  BY <1>4 DEF TellsStarted, Leaves
<1>5. CASE TellsStopped
  BY <1>5, LastTold DEF TellsStopped, Leaves
<1>6. CASE TellsResumed
  BY <1>6, LastTold DEF TellsResumed
<1>7. CASE TellsStepped
  BY <1>7 DEF TellsStepped, Leaves
<1>8. CASE Quits
  BY <1>8 DEF Quits
<1> QED
  BY <1>1, <1>2, <1>3, <1>4, <1>5, <1>6, <1>7, <1>8 DEF TellsItAll

LEMMA StepTellsTheMode ==
  ASSUME TypeOK, ToldOfStop, [Next]_vars, connected'
  PROVE  /\ at' = "parse" => LastEvent'.kind = "suspended"
         /\ Leaves /\ Head(requests).verb # "quit" => LastEvent'.kind = "resumed"
<1>1. CASE LdbNext /\ UNCHANGED heard
  BY <1>1, LdbTellsTheMode, LdbKeepsConnected
<1>2. CASE ClientTakesEvent
  <2>1. LastEvent' = LastEvent
    BY <1>2, TakingKeepsLast
  <2> QED
    BY <1>2, <2>1 DEF ClientTakesEvent, ldbState, ToldOfStop, Leaves
<1>3. CASE UNCHANGED <<events, ldbState, heard>> /\ connected
  <2>1. LastEvent' = LastEvent
    BY <1>3 DEF LastEvent
  <2> QED
    BY <1>3, <2>1 DEF ldbState, ToldOfStop, Leaves
<1> QED
  BY <1>1, <1>2, <1>3
     DEF Next, ClientSend, ClientTakesReply, HangUp, Over, vars, wire

LEMMA NextKeepsTold == TypeOK /\ ToldOfStop /\ [Next]_vars => ToldOfStop'
BY StepTellsTheMode DEF ToldOfStop

(* A peer that listens can tell from the last event where ldb is: while    *)
(* ldb is in the command loop that event is a "suspended", and a command   *)
(* that lets it go to the next breakpoint has said "resumed" last, whatever*)
(* commands the peer sent and however far behind it reads                  *)
(* (LuaDebugger.cpp:940-950, 1235-1256, 1328-1345).                        *)
THEOREM TheEventsTellTheMode == Spec => EventsTellTheMode
<1>1. Init => ToldOfStop
  BY DEF Init, LdbInit, ToldOfStop
<1>2. TypeOK /\ ToldOfStop /\ [Next]_vars =>
        [connected' =>
           /\ at' = "parse" => LastEvent'.kind = "suspended"
           /\ Leaves /\ Head(requests).verb # "quit" =>
                LastEvent'.kind = "resumed"]_vars
  BY StepTellsTheMode
<1>3. Spec => []TypeOK
  BY ClientTypeCorrect
<1>4. Spec => []ToldOfStop
  BY <1>1, <1>3, NextKeepsTold, PTL DEF Spec
<1> QED
  BY <1>2, <1>3, <1>4, PTL DEF Spec, EventsTellTheMode
=============================================================================
