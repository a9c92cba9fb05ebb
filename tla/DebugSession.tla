---------------------------- MODULE DebugSession ----------------------------
(***************************************************************************)
(* A debug session: the Eclipse debug target and ldb, joined by the two    *)
(* sockets.  Steps interleave; a step of one side leaves the state of the  *)
(* other alone and meets it only on the wire.                              *)
(***************************************************************************)
EXTENDS Ldb, PdaTarget

CONSTANTS
  MaxBacklog,   \* bound: unread events when the user acts
  MaxEntries    \* bound: breakpoint entries of one source when the user acts

vars == <<wire, ldbState, ideState>>

Init == WireInit /\ LdbInit /\ IdeInit

(* The user is no faster than the bounds allow.                            *)
Paced ==
  /\ Len(events) <= MaxBacklog
  /\ \A s \in Sources : Len(breakpoints[s]) < MaxEntries

LdbStep == LdbNext /\ UNCHANGED ideState

UserStep ==
  /\ Paced
  /\ \E t \in Users :
       UserControls(t) \/ UserInspects(t) \/ UserEditsBreakpoints(t)
  /\ UNCHANGED ldbState

RequestStep(t) == Requests(t) /\ UNCHANGED ldbState
DispatchStep == Dispatch /\ UNCHANGED ldbState
PlatformStep == (Listen \/ ProcessMonitor) /\ UNCHANGED ldbState

(* The session is over: the process has gone, nobody has anything to do.   *)
Over ==
  /\ processTerminated /\ jobState = "finished"
  /\ \A t \in Threads : pc[t] = "idle"
  /\ UNCHANGED vars

Next ==
  \/ LdbStep \/ UserStep \/ DispatchStep \/ PlatformStep \/ Over
  \/ \E t \in Threads : RequestStep(t)

Spec == Init /\ [][Next]_vars

(* ldb and the job are scheduled; a thread whose request is answered or    *)
(* refused reads on.  Nothing is assumed of the fairness of the monitor,   *)
(* which the job may lose to users again and again, of the user, or of the *)
(* script, which may loop for ever.                                        *)
FairSpec ==
  /\ Spec
  /\ WF_vars(Start /\ UNCHANGED ideState)
  /\ WF_vars(Parse /\ UNCHANGED ideState)
  /\ WF_vars(Runs /\ UNCHANGED ideState)
  /\ WF_vars(DispatchStep)
  /\ WF_vars((Begin(Job) \/ SendRequest(Job)) /\ UNCHANGED ldbState)
  /\ WF_vars(ProcessMonitor /\ UNCHANGED ldbState)
  /\ \A t \in Threads :
       WF_vars((ReadReply(t) \/ ReadNull(t)) /\ UNCHANGED ldbState)
-----------------------------------------------------------------------------
(* The state has the types the modules declare.                            *)
TypeOK == WireTypeOK /\ LdbTypeOK /\ IdeTypeOK

(* A reply is read by the thread that asked, and it answers that thread's  *)
(* own request: sendRequest holds the socket's monitor from the command to *)
(* the reply (PDADebugTarget.java:474-487), so at most one command or      *)
(* reply is under way and ldb's receive (LuaDebugger.cpp:954-997), which   *)
(* would discard a second command, never finds one.                        *)
RepliesMatch ==
  /\ Len(requests) + Len(replies) <= 1
  /\ \A t \in Threads : pc[t] = "reply" =>
       /\ lock = t
       /\ requests # <<>> => requests[1] = Request(t)
       /\ replies # <<>> => replies[1].to = Request(t)

Delivered == events = <<>> /\ jobState = "reading" /\ hit = NoLine
              /\ at # "accepted"

(* Once the events are delivered the thread's state is ldb's: suspended in *)
(* the command loop, not suspended in a program resumed to its next        *)
(* breakpoint (PDAThread.java:280-315).                                    *)
ModesAgree ==
  Delivered =>
    /\ at = "parse" => fSuspended
    /\ at = "run" /\ debuggerStates = "CONTINUING" => ~fSuspended

Pending(l) == \E t \in Threads : \E i \in DOMAIN todo[t] :
                 todo[t][i] \in {Break(l), Clear(l)}

(* No installed breakpoint is lost: a registered breakpoint that is in the *)
(* target's listeners, with no request about it under way, is in ldb's     *)
(* vector (PDALineBreakpoint.java:103-107, 139-144).                       *)
InstalledIsSet ==
  ~closed => \A l \in registered \cap listeners :
               Pending(l) \/ l \in LinesOf(breakpoints[Main])

(* The program is not let go before the breakpoints that are registered    *)
(* when the session starts are set: resume is the last request "started"   *)
(* makes, and no user thread sees the first stop before that               *)
(* (PDADebugTarget.java:389-409).  For users that edit no breakpoint.      *)
SetBeforeRunning ==
  debuggerStates = "CONTINUING" =>
    registered \cap enabled \subseteq LinesOf(breakpoints[Main])

(* A request that reaches a stopped ldb is answered.                       *)
StoppedAnswers ==
  \A t \in Threads :
    (pc[t] = "reply" /\ at = "parse") ~> (pc[t] # "reply")

(* A stop becomes visible: the thread is shown suspended, or ldb has moved *)
(* on, or the job is still waiting for its own requests.                   *)
StopIsShown ==
  (at = "parse" /\ jobState = "reading") ~>
    (fSuspended \/ at # "parse" \/ jobState # "reading")

(* The dispatch job ends once ldb has gone, whatever it was doing: in the  *)
(* middle of its own requests, waiting for the monitor, with events left   *)
(* to read or after a reset (PDADebugTarget.java:107-125). The users come  *)
(* to rest, or they might keep the monitor among themselves.               *)
JobEnds ==
  <>[](\A t \in Users : pc[t] = "idle") => (closed ~> jobState = "finished")

(* "Sends a request to the PDA interpreter, waits for and returns the      *)
(* reply." (PDADebugElement.java:44): the line a thread finds is its own.  *)
ReplyIsTheRequests ==
  \A t \in Threads :
    pc[t] = "reply" /\ replies # <<>> => replies[1].to = Request(t)
=============================================================================
