----------------------------- MODULE LdbClient ------------------------------
(***************************************************************************)
(* ldb with the most general peer: any sequence of commands, several of    *)
(* them on the wire at once, replies and events taken at any time, and the *)
(* sockets closed at any time.                                             *)
(***************************************************************************)
EXTENDS Ldb

CONSTANTS
  ClientCommands,  \* the commands this peer sends
  MaxPipeline,     \* bound: commands on the wire
  MaxUnread,       \* bound: unread events and replies before a new command
  MaxEntries       \* bound: breakpoint entries of one source

ASSUME ClientAssumption == ClientCommands \subseteq Command

VARIABLE heard     \* the last event the peer has taken

vars == <<wire, ldbState, heard>>

ClientSend(cmd) ==
  /\ connected /\ ~closed
  /\ Len(requests) < MaxPipeline
  /\ Len(events) <= MaxUnread /\ Len(replies) <= MaxUnread
  /\ cmd.verb = "break" =>
       \A s \in Sources : Len(breakpoints[s]) + Len(requests) < MaxEntries
  /\ requests' = Append(requests, cmd)
  /\ UNCHANGED <<replies, events, connected, closed, ldbState, heard>>

ClientTakesReply ==
  /\ connected /\ replies # <<>>
  /\ replies' = Tail(replies)
  /\ UNCHANGED <<requests, events, connected, closed, ldbState, heard>>

ClientTakesEvent ==
  /\ connected /\ events # <<>>
  /\ heard' = Head(events)
  /\ events' = Tail(events)
  /\ UNCHANGED <<requests, replies, connected, closed, ldbState>>

HangUp ==
  /\ connected
  /\ connected' = FALSE
  /\ UNCHANGED <<requests, replies, events, closed, ldbState, heard>>

(* The process has ended; nothing is left to do.                           *)
Over == closed /\ ~connected /\ UNCHANGED vars

Init == WireInit /\ LdbInit /\ heard = Started

Next ==
  \/ LdbNext /\ UNCHANGED heard
  \/ \E cmd \in ClientCommands : ClientSend(cmd)
  \/ ClientTakesReply \/ ClientTakesEvent \/ HangUp \/ Over

Spec == Init /\ [][Next]_vars

(* ldb is scheduled by the operating system: a receive returns once there  *)
(* is something to return, and a program that is not stopped runs on.      *)
FairSpec ==
  /\ Spec
  /\ WF_vars(Start /\ UNCHANGED heard)
  /\ WF_vars(Parse /\ UNCHANGED heard)
  /\ WF_vars(PeerClosed /\ UNCHANGED heard)
  /\ WF_vars(Runs /\ UNCHANGED heard)
-----------------------------------------------------------------------------
(* The state has the types the modules declare.                            *)
TypeOK == WireTypeOK /\ LdbTypeOK /\ heard \in Events

LastEvent == IF events = <<>> THEN heard ELSE events[Len(events)]

(* The events tell an attentive IDE where ldb is: whenever ldb is in the   *)
(* command loop the last event sent is a "suspended", and a step that      *)
(* leaves the loop for the next breakpoint has sent a "resumed" last,      *)
(* however many commands it had received (LuaDebugger.cpp:940-950,         *)
(* 1235-1256, 1328-1345). The console's quit resumes silently.             *)
Leaves == at = "parse" /\ at' = "run" /\ debuggerStates' = "CONTINUING"

EventsTellTheMode ==
  [][connected' =>
       /\ at' = "parse" => LastEvent'.kind = "suspended"
       /\ Leaves /\ Head(requests).verb # "quit" =>
            LastEvent'.kind = "resumed"]_vars

(* ldb keeps the promise of a line debugger, with its vectors read as sets *)
(* (HookRoutine, LuaDebugger.cpp:1302-1378).                               *)
Mode == CASE at = "accepted" -> "ready"
          [] at = "run" -> "running"
          [] at = "parse" -> "stopped"
          [] OTHER -> "over"
Stepping == debuggerStates = "STEPPING"
Breaks == [s \in Sources |-> LinesOf(breakpoints[s])]

D == INSTANCE Debugger WITH
       BreakLines <- BreakableLines,
       Nowhere <- NoLine,
       mode <- Mode,
       stepping <- Stepping,
       breaks <- Breaks,
       where <- place

IsADebugger == D!Spec

(* ldb never waits for a peer that has gone: the failing receive leaves    *)
(* the command loop (LuaDebugger.cpp:985-988).                             *)
NoOrphanWait == ~connected ~> (at # "parse")
-----------------------------------------------------------------------------
(* Statements of the documentation of the debug model about ldb.           *)

Executed(verb) == Parse /\ Head(requests).verb = verb

Answered(verb) ==
  connected /\ Executed(verb) => Len(replies') = Len(replies) + 1

(* "clear N - clear the breakpoint on line N; reply is ok"                 *)
(* (PDADebugElement.java:48-49): every clear is answered.                  *)
ClearIsAnswered == [][Answered("clear")]_vars
=============================================================================
