----------------------------- MODULE PdaTarget ------------------------------
(***************************************************************************)
(* The Eclipse side of a debug session: PDADebugTarget, its PDAThread and  *)
(* the line breakpoints.  Any thread of the IDE may send a request: it     *)
(* waits for the monitor of the request socket, writes one command and     *)
(* keeps the monitor until it has read one line.  One more thread, the     *)
(* event dispatch job, reads the event socket and hands each event to the  *)
(* listeners; it also sends requests, while it handles "started".          *)
(***************************************************************************)
EXTENDS Wire

CONSTANTS
  Users,       \* the threads of the IDE through which the user acts
  Job,         \* the event dispatch job
  Nobody,      \* the holder of a free monitor
  Duties,      \* which operations each of Users performs
  MaxFrames    \* bound: stack frames reported by one "stackforide"

Operations == {"resume", "step", "suspend", "frames", "drop", "variable",
               "data", "popdata", "pushdata", "setvar", "exit", "watch",
               "add", "delete", "enable", "disable", "change", "manager"}

ASSUME PdaAssumption ==
  /\ Job \notin Users
  /\ Nobody \notin Users \cup {Job}
  /\ Duties \in [Users -> SUBSET Operations]
  /\ MaxFrames \in Nat

Threads == Users \cup {Job}

VARIABLES
  lock,         \* who is inside synchronized(fRequestSocket)
  pc,           \* per thread: "idle", "ready", "lock", "reply"
  todo,         \* per thread: the requests its operation has left, in order
  jobState,     \* "reading", "starting", "finished"
  hit,          \* the breakpoint still to be told of the event in delivery
  fSuspended,   \* PDAThread
  fStepping,
  fBreakpoint,  \* the line of the breakpoint suspended at, or NoLine
  registered,   \* the breakpoints the platform's manager knows, by line
  enabled,      \* those whose marker says they are enabled
  managerEnabled, \* the platform's "skip all breakpoints" is off
  listening,    \* whether the target is a listener of that manager
  listeners,    \* the breakpoints in fEventListeners
  attached,     \* the breakpoints whose fTarget is set
  fTerminated,
  processTerminated \* what the platform's IProcess reports

requesting == <<lock, pc, todo>>
dispatching == <<jobState, hit>>
flags == <<fSuspended, fStepping, fBreakpoint>>
manager == <<registered, enabled, managerEnabled, listening>>
installation == <<listeners, attached>>
termination == <<fTerminated, processTerminated>>
ideState == <<requesting, dispatching, flags, manager, installation, termination>>

IdeTypeOK ==
  /\ lock \in Threads \cup {Nobody}
  /\ pc \in [Threads -> {"idle", "ready", "lock", "reply"}]
  /\ todo \in [Threads -> Seq(IdeCommand)]
  /\ jobState \in {"reading", "starting", "finished"}
  /\ hit \in Lines \cup {NoLine}
  /\ fSuspended \in BOOLEAN /\ fStepping \in BOOLEAN
  /\ fBreakpoint \in Lines \cup {NoLine}
  /\ registered \subseteq Lines /\ enabled \subseteq Lines
  /\ managerEnabled \in BOOLEAN /\ listening \in {"not yet", "yes", "removed"}
  /\ listeners \subseteq Lines /\ attached \subseteq Lines
  /\ fTerminated \in BOOLEAN /\ processTerminated \in BOOLEAN

(* The sockets are connected and the dispatch job is scheduled.            *)
IdeInit ==
  /\ lock = Nobody
  /\ pc = [t \in Threads |-> "idle"]
  /\ todo = [t \in Threads |-> <<>>]
  /\ jobState = "reading"
  /\ hit = NoLine
  /\ fSuspended = FALSE /\ fStepping = FALSE /\ fBreakpoint = NoLine
  /\ registered \in SUBSET Lines
  /\ enabled \in SUBSET registered
  /\ managerEnabled = TRUE /\ listening = "not yet"
  /\ listeners = {} /\ attached = {}
  /\ fTerminated = FALSE /\ processTerminated = FALSE
-----------------------------------------------------------------------------
IsTerminated == fTerminated \/ processTerminated
IsSuspended == fSuspended /\ ~IsTerminated

(* The breakpoints of a set, in the order of the manager's array.          *)
Orders(S) == {f \in [1..Cardinality(S) -> S] :
                \A i, j \in 1..Cardinality(S) : f[i] = f[j] => i = j}
Each(f, Cmd(_)) == [i \in DOMAIN f |-> Cmd(f[i])]

(* Thread t takes up the requests rs, or has none left.                    *)
Undertake(t, rs) ==
  /\ todo' = [todo EXCEPT ![t] = rs]
  /\ pc' = [pc EXCEPT ![t] = IF rs = <<>> THEN "idle" ELSE "ready"]
-----------------------------------------------------------------------------
(* The user acts through the debug views.  The guard is what the action's  *)
(* enablement asks when the user triggers it; the request follows later.   *)
Acts(t, op) == op \in Duties[t] /\ pc[t] = "idle"

Ask(t, op, rs) ==
  /\ Acts(t, op)
  /\ Undertake(t, rs)
  /\ UNCHANGED <<lock, dispatching, flags, manager, installation,
                 termination, wire>>

Resume(t) == IsSuspended /\ Ask(t, "resume", <<Do("resume")>>)
StepOver(t) == IsSuspended /\ Ask(t, "step", <<Do("step")>>)
Suspend(t) == ~IsTerminated /\ ~fSuspended /\ Ask(t, "suspend", <<Do("suspend")>>)
Terminate(t) == ~IsTerminated /\ Ask(t, "exit", <<Do("exit")>>)

(* The removal of a watchpoint; its installation sends nothing.            *)
RemoveWatchpoint(t) == ~IsTerminated /\ Ask(t, "watch", <<Do("watch")>>)

UserControls(t) ==
  Resume(t) \/ StepOver(t) \/ Suspend(t) \/ Terminate(t) \/ RemoveWatchpoint(t)

GetStackFrames(t) == IsSuspended /\ Ask(t, "frames", <<Do("stackforide")>>)

(* A frame is popped once canPop has counted the frames.                   *)
PopFrame(t) == IsSuspended /\ Ask(t, "drop", <<Do("stackforide"), Do("drop")>>)

GetValue(t) == Ask(t, "variable", <<Do("var")>>)
SetValue(t) == Ask(t, "setvar", <<Do("setvar")>>)
GetDataStack(t) == Ask(t, "data", <<Do("data")>>)

(* canPop reads the data stack, and pop reads it again.                    *)
PopData(t) ==
  IsSuspended /\ Ask(t, "popdata", <<Do("data"), Do("data"), Do("popdata")>>)

PushData(t) == IsSuspended /\ Ask(t, "pushdata", <<Do("pushdata")>>)

UserInspects(t) ==
  \/ GetStackFrames(t) \/ PopFrame(t) \/ GetValue(t) \/ SetValue(t)
  \/ GetDataStack(t) \/ PopData(t) \/ PushData(t)
-----------------------------------------------------------------------------
(* The user edits the breakpoints of the platform's manager, which tells   *)
(* the target in the same thread once the target listens.  A breakpoint is *)
(* first taken out of the manager's list, then the target is told, then    *)
(* its marker is deleted.                                                  *)
Notify(t, rs) == Undertake(t, IF listening = "yes" THEN rs ELSE <<>>)

UserEdits(t, op) ==
  /\ Acts(t, op)
  /\ UNCHANGED <<lock, dispatching, flags, listening, installation,
                 termination, wire>>

AddBreakpoint(t, l) ==
  /\ UserEdits(t, "add")
  /\ l \notin registered
  /\ registered' = registered \cup {l}
  /\ enabled' = enabled \cup {l}
  /\ Notify(t, <<Break(l)>>)
  /\ UNCHANGED managerEnabled

DeleteBreakpoint(t, l) ==
  /\ UserEdits(t, "delete")
  /\ l \in registered
  /\ registered' = registered \ {l}
  /\ Notify(t, <<Clear(l)>>)
  /\ UNCHANGED <<enabled, managerEnabled>>

(* breakpointChanged: an enabled breakpoint is added once more.            *)
Changed(l, on) == IF on /\ managerEnabled THEN <<Break(l)>> ELSE <<Clear(l)>>

EnableBreakpoint(t, l) ==
  /\ UserEdits(t, "enable")
  /\ l \in registered /\ l \notin enabled
  /\ enabled' = enabled \cup {l}
  /\ Notify(t, Changed(l, TRUE))
  /\ UNCHANGED <<registered, managerEnabled>>

DisableBreakpoint(t, l) ==
  /\ UserEdits(t, "disable")
  /\ l \in registered /\ l \in enabled
  /\ enabled' = enabled \ {l}
  /\ Notify(t, Changed(l, FALSE))
  /\ UNCHANGED <<registered, managerEnabled>>

ChangeBreakpoint(t, l) ==
  /\ UserEdits(t, "change")
  /\ l \in registered
  /\ Notify(t, Changed(l, l \in enabled))
  /\ UNCHANGED <<registered, enabled, managerEnabled>>

(* breakpointManagerEnablementChanged.                                     *)
ToggleManager(t) ==
  /\ UserEdits(t, "manager")
  /\ managerEnabled' = ~managerEnabled
  /\ \E order \in Orders(registered) :
       Notify(t, IF managerEnabled' THEN Each(order, Break)
                                    ELSE Each(order, Clear))
  /\ UNCHANGED <<registered, enabled>>

UserEditsBreakpoints(t) ==
  \/ ToggleManager(t)
  \/ \E l \in Lines :
       \/ AddBreakpoint(t, l) \/ DeleteBreakpoint(t, l)
       \/ EnableBreakpoint(t, l) \/ DisableBreakpoint(t, l)
       \/ ChangeBreakpoint(t, l)

(* The last lines of the constructor, after the job was scheduled.         *)
Listen ==
  /\ listening = "not yet"
  /\ listening' = "yes"
  /\ UNCHANGED <<requesting, dispatching, flags, registered, enabled,
                 managerEnabled, installation, termination, wire>>

(* The marker of a deleted breakpoint exists until the target was told.    *)
MarkerExists(l) ==
  l \in registered \/ \E t \in Users : todo[t] # <<>> /\ Head(todo[t]) = Clear(l)
-----------------------------------------------------------------------------
(* One request after the other.  breakpointAdded and breakpointRemoved     *)
(* decide when their turn comes; the listener is in place before, or gone  *)
(* before, the command is sent.  A deleted breakpoint counts as            *)
(* unregistered: it is installed, on the line a missing marker reports.    *)
Request(t) == Head(todo[t])
MaySend(t) == pc' = [pc EXCEPT ![t] = "lock"]

Install(t) ==
  /\ Request(t).verb = "break" /\ ~IsTerminated
  /\ LET l == Request(t).line
     IN \/ /\ MarkerExists(l) /\ l \in enabled /\ managerEnabled
           /\ listeners' = listeners \cup {l}
           /\ attached' = attached \cup {l}
           /\ MaySend(t)
           /\ UNCHANGED todo
        \/ /\ MarkerExists(l) /\ ~(l \in enabled /\ managerEnabled)
           /\ Undertake(t, Tail(todo[t]))
           /\ UNCHANGED installation
        \/ /\ ~MarkerExists(l)
           /\ todo' = [todo EXCEPT ![t] = <<Break(NoMarkerLine)>> \o Tail(@)]
           /\ MaySend(t)
           /\ UNCHANGED installation

(* Mutant: the breakpoint stays a listener.                                 *)
UninstallKeepsListener(t) ==
  /\ Request(t).verb = "clear" /\ ~IsTerminated
  /\ MaySend(t)
  /\ UNCHANGED <<todo, installation>>

Uninstall(t) ==
  /\ Request(t).verb = "clear" /\ ~IsTerminated
  /\ listeners' = listeners \ {Request(t).line}
  /\ MaySend(t)
  /\ UNCHANGED <<todo, attached>>

(* supportsBreakpoint is FALSE for a terminated target.                    *)
TooLate(t) ==
  /\ Request(t).verb \in BreakpointVerbs /\ IsTerminated
  /\ Undertake(t, Tail(todo[t]))
  /\ UNCHANGED installation

PlainRequest(t) ==
  /\ Request(t).verb \notin BreakpointVerbs
  /\ MaySend(t)
  /\ UNCHANGED <<todo, installation>>

Begin(t) ==
  /\ pc[t] = "ready"
  /\ Install(t) \/ Uninstall(t) \/ TooLate(t) \/ PlainRequest(t)
  /\ UNCHANGED <<lock, dispatching, flags, manager, termination, wire>>

(* Mutant: sendRequest without its monitor.                                 *)
SendRequestUnlocked(t) ==
  /\ pc[t] = "lock"
  /\ lock' = t
  /\ pc' = [pc EXCEPT ![t] = "reply"]
  /\ requests' = IF closed THEN requests ELSE Append(requests, Request(t))
  /\ UNCHANGED <<todo, dispatching, flags, manager, installation, termination,
                 replies, events, connected, closed>>

(* sendRequest: monitor, println, flush.  A PrintWriter hides the failure  *)
(* to write to a closed socket.                                            *)
SendRequest(t) ==
  /\ pc[t] = "lock"
  /\ lock = Nobody
  /\ lock' = t
  /\ pc' = [pc EXCEPT ![t] = "reply"]
  /\ requests' = IF closed THEN requests ELSE Append(requests, Request(t))
  /\ UNCHANGED <<todo, dispatching, flags, manager, installation, termination,
                 replies, events, connected, closed>>

Release(t) == pc[t] = "reply" /\ lock' = Nobody

(* remove: fTarget is reset once the reply is in; then the marker of a     *)
(* deleted breakpoint goes, and with it the line its listener matched.     *)
Detach(t) ==
  IF Request(t).verb = "clear"
    THEN LET l == Request(t).line
         IN /\ attached' = attached \ {l}
            /\ listeners' = IF l \in registered THEN listeners ELSE listeners \ {l}
    ELSE UNCHANGED installation

(* What is left to do after a reply.  Every frame the reply names asks for *)
(* the globals; a frame is popped only off a stack of two; a value is only *)
(* popped off a data stack that is not empty.                              *)
Globals(n) == [i \in 1..n |-> Do("getglobals")]

AfterReply(t) ==
  LET rest == Tail(todo[t])
  IN CASE Request(t).verb = "stackforide" ->
            {Globals(n) \o (IF n > 1 THEN rest ELSE <<>>) : n \in 1..MaxFrames}
       [] Request(t).verb = "data" -> {rest, <<>>}
       [] OTHER -> {rest}

ReadReply(t) ==
  /\ Release(t)
  /\ replies # <<>>
  /\ replies' = Tail(replies)
  /\ \E rest \in AfterReply(t) : Undertake(t, rest)
  /\ Detach(t)
  /\ UNCHANGED <<dispatching, flags, manager, termination, requests, events,
                 connected, closed>>

(* readLine at the end of the stream: null is no frames, no values, and a  *)
(* NullPointerException where the globals are split.                       *)
ReadNull(t) ==
  /\ Release(t)
  /\ closed /\ replies = <<>>
  /\ Undertake(t, IF Request(t).verb \in BreakpointVerbs
                    THEN Tail(todo[t]) ELSE <<>>)
  /\ Detach(t)
  /\ UNCHANGED <<dispatching, flags, manager, termination, wire>>

(* readLine on a reset connection, which discards what was not read: a     *)
(* DebugException, caught per breakpoint and per frame.                    *)
ReadFails(t) ==
  /\ Release(t)
  /\ closed
  /\ replies' = <<>>
  /\ Undertake(t, IF Request(t).verb \in BreakpointVerbs \cup {"getglobals"}
                    THEN Tail(todo[t]) ELSE <<>>)
  /\ UNCHANGED <<dispatching, flags, manager, installation, termination,
                 requests, events, connected, closed>>

Requests(t) ==
  Begin(t) \/ SendRequest(t) \/ ReadReply(t) \/ ReadNull(t) \/ ReadFails(t)
-----------------------------------------------------------------------------
(* EventDispatchJob.run.  The listeners of an event are the target, the    *)
(* thread and the installed breakpoints, in this order.                    *)
MayRead ==
  /\ jobState = "reading" /\ pc[Job] = "idle" /\ hit = NoLine
  /\ ~IsTerminated

(* Mutant: only the client's own suspension counts.                         *)
ThreadHandlesClientOnly(e) ==
  /\ fBreakpoint' = NoLine
  /\ fStepping' = (e = ResumedStep)
  /\ fSuspended' = CASE e.kind = "resumed" -> FALSE
                     [] e = SuspendedClient -> TRUE
                     [] OTHER -> fSuspended

(* PDAThread.handleEvent: fBreakpoint and fStepping are reset by any event *)
ThreadHandles(e) ==
  /\ fBreakpoint' = NoLine
  /\ fStepping' = (e = ResumedStep)
  /\ fSuspended' = CASE e.kind = "resumed" -> FALSE
                     [] e.kind = "suspended" -> TRUE
                     [] OTHER -> fSuspended

(* Mutants: the program is resumed first; the resuming command is misnamed. *)
DispatchStartedResumesFirst ==
  /\ MayRead
  /\ events # <<>> /\ Head(events) = Started
  /\ events' = Tail(events)
  /\ jobState' = "starting"
  /\ \E order \in Orders(registered) :
       Undertake(Job, <<Do("resume")>> \o Each(order, Break))
  /\ UNCHANGED <<lock, hit, flags, manager, installation, termination,
                 requests, replies, connected, closed>>

DispatchStartedMisnamed ==
  /\ MayRead
  /\ events # <<>> /\ Head(events) = Started
  /\ events' = Tail(events)
  /\ jobState' = "starting"
  /\ \E order \in Orders(registered) :
       Undertake(Job, Each(order, Break) \o <<Do("run")>>)
  /\ UNCHANGED <<lock, hit, flags, manager, installation, termination,
                 requests, replies, connected, closed>>

(* PDADebugTarget.started: the breakpoints registered so far, then resume. *)
DispatchStarted ==
  /\ MayRead
  /\ events # <<>> /\ Head(events) = Started
  /\ events' = Tail(events)
  /\ jobState' = "starting"
  /\ \E order \in Orders(registered) :
       Undertake(Job, Each(order, Break) \o <<Do("resume")>>)
  /\ UNCHANGED <<lock, hit, flags, manager, installation, termination,
                 requests, replies, connected, closed>>

(* The other listeners get "started" when the target is through with it.   *)
StartedHandled ==
  /\ jobState = "starting" /\ pc[Job] = "idle"
  /\ jobState' = "reading"
  /\ ThreadHandles(Started)
  /\ UNCHANGED <<requesting, hit, manager, installation, termination, wire>>

DispatchEvent ==
  /\ MayRead
  /\ events # <<>> /\ Head(events) # Started
  /\ events' = Tail(events)
  /\ ThreadHandles(Head(events))
  /\ hit' = IF /\ Head(events).cause = "breakpoint"
               /\ Head(events).line \in listeners
              THEN Head(events).line ELSE NoLine
  /\ UNCHANGED <<requesting, jobState, manager, installation, termination,
                 requests, replies, connected, closed>>

(* PDALineBreakpoint.handleHit, notifyThread.                              *)
BreakpointHandles ==
  /\ hit # NoLine
  /\ hit' = NoLine
  /\ fBreakpoint' = IF hit \in attached THEN hit ELSE fBreakpoint
  /\ UNCHANGED <<requesting, jobState, fSuspended, fStepping, manager,
                 installation, termination, wire>>

(* PDADebugTarget.handleEvent picks the line out of the error message; a   *)
(* message of another shape ends the job with a runtime exception.         *)
MarkerFails ==
  /\ MayRead
  /\ events # <<>> /\ Head(events) = SyntaxError
  /\ events' = Tail(events)
  /\ jobState' = "finished"
  /\ UNCHANGED <<requesting, hit, flags, manager, installation, termination,
                 requests, replies, connected, closed>>

(* Mutant: the job does not look whether there is anything more to read.    *)
EndOfEventsIgnored ==
  /\ jobState = "reading" /\ pc[Job] = "idle" /\ hit = NoLine
  /\ IsTerminated \/ (closed /\ events = <<>>)
  /\ UNCHANGED <<wire, ideState>>

(* The end of the stream, or a terminated process, ends the job; a reset   *)
(* connection terminates the target first.                                 *)
EndOfEvents ==
  /\ jobState = "reading" /\ pc[Job] = "idle" /\ hit = NoLine
  /\ IsTerminated \/ (closed /\ events = <<>>)
  /\ jobState' = "finished"
  /\ UNCHANGED <<requesting, hit, flags, manager, installation, termination, wire>>

EventReadFails ==
  /\ MayRead
  /\ closed
  /\ events' = <<>>
  /\ fTerminated' = TRUE
  /\ listening' = IF listening = "yes" THEN "removed" ELSE listening
  /\ UNCHANGED <<requesting, dispatching, flags, registered, enabled,
                 managerEnabled, installation, processTerminated, requests,
                 replies, connected, closed>>

Dispatch ==
  \/ DispatchStarted \/ StartedHandled \/ DispatchEvent
  \/ BreakpointHandles \/ MarkerFails \/ EndOfEvents \/ EventReadFails

(* The platform's process monitor notices that ldb has exited.             *)
ProcessMonitor ==
  /\ closed /\ ~processTerminated
  /\ processTerminated' = TRUE
  /\ UNCHANGED <<requesting, dispatching, flags, manager, installation,
                 fTerminated, wire>>

IdeNext ==
  \/ \E t \in Users : UserControls(t) \/ UserInspects(t) \/ UserEditsBreakpoints(t)
  \/ \E t \in Threads : Requests(t)
  \/ Listen \/ Dispatch \/ ProcessMonitor
=============================================================================
