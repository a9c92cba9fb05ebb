-------------------------------- MODULE Ldb ---------------------------------
(***************************************************************************)
(* The Lua debugger process of open-ldb in its IDE mode: the Lua VM calls  *)
(* HookRoutine before every source line, the hook decides whether to stop, *)
(* and a stop is a loop in commandParser that receives one command at a    *)
(* time, acts on it and answers it.  The process has a single thread, so   *)
(* a handler is one step: ldb only appends to the sockets while it runs,   *)
(* and a reader that is slow to take what was appended covers every moment *)
(* at which the appended text could have arrived.                          *)
(***************************************************************************)
EXTENDS Wire

CONSTANTS
  Sources,       \* the chunks of the Lua program, by ar->source
  Main,          \* the chunk the launch configuration names
  MaxReplyLines  \* bound: lines of a printed value; 1: no value has a newline

ASSUME SourcesAssumption == Main \in Sources
ASSUME ReplyLinesAssumption == MaxReplyLines \in Nat \ {0}

VARIABLES
  at,              \* where the process is
  debuggerStates,  \* the global of the same name
  breakpoints,     \* allScriptsBreakpoints: a vector of lines per source
  source,          \* ar->source of the last hook call
  currentline      \* ar->currentline of the last hook call

ldbState == <<at, debuggerStates, breakpoints, source, currentline>>
place == <<source, currentline>>

Places == {"accepted", "run", "parse", "exited", "aborted"}

LdbTypeOK ==
  /\ at \in Places
  /\ debuggerStates \in {"STEPPING", "CONTINUING"}
  /\ breakpoints \in [Sources -> Seq(BreakableLines)]
  /\ source \in Sources
  /\ currentline \in Lines \cup {NoLine}

(* Both sockets are accepted, nothing was sent, the script is not loaded.  *)
LdbInit ==
  /\ at = "accepted"
  /\ debuggerStates = "STEPPING"
  /\ breakpoints = [s \in Sources |-> <<>>]
  /\ source = Main
  /\ currentline = NoLine
-----------------------------------------------------------------------------
(* Small helpers.                                                          *)
LinesOf(vector) == {vector[i] : i \in DOMAIN vector}

(* Text sent to a closed peer is lost.                                     *)
Emit(es) == events' = IF connected THEN events \o es ELSE events
Answer(cmd, text) ==
  replies' = IF connected THEN Append(replies, [to |-> cmd, text |-> text])
                          ELSE replies

(* A value is sent as lua_tostring prints it: a newline inside it makes    *)
(* several lines of the reply.                                             *)
AnswerValue(cmd) ==
  \E n \in 1..MaxReplyLines :
    replies' = IF connected
      THEN replies \o [i \in 1..n |-> [to |-> cmd, text |-> "value"]]
      ELSE replies

(* The end of the process: the commands it has not received are lost.      *)
Close == closed' = TRUE /\ requests' = <<>>

(* vector::erase of the first element equal to l.                          *)
FirstAt(vector, l) ==
  CHOOSE i \in DOMAIN vector :
    vector[i] = l /\ \A j \in DOMAIN vector : vector[j] = l => i <= j

EraseFirst(vector, l) ==
  LET i == FirstAt(vector, l)
  IN  SubSeq(vector, 1, i - 1) \o SubSeq(vector, i + 1, Len(vector))
-----------------------------------------------------------------------------
(* main: the "started" event, then the script runs under the line hook.    *)
Start ==
  /\ at = "accepted"
  /\ at' = "run"
  /\ Emit(<<Started>>)
  /\ UNCHANGED <<debuggerStates, breakpoints, place, requests, replies,
                 connected, closed>>

(* The script ends: lua_pcall returns, main returns, the sockets close.    *)
Finish ==
  /\ at = "run"
  /\ at' = "exited"
  /\ Close
  /\ UNCHANGED <<debuggerStates, breakpoints, place, replies, events, connected>>

(* luaL_loadbuffer or lua_pcall reports an error: one event, then exit.    *)
Fail ==
  /\ at = "run"
  /\ at' = "exited"
  /\ Close
  /\ Emit(<<SyntaxError>>)
  /\ UNCHANGED <<debuggerStates, breakpoints, place, replies, connected>>
-----------------------------------------------------------------------------
(* Mutant: the breakpoints of the main chunk are compared in every chunk.   *)
HitsOfMain(s, l) ==
  debuggerStates = "CONTINUING" /\ l \in LinesOf(breakpoints[Main])

(* HookRoutine.                                                            *)
Hits(s, l) == debuggerStates = "CONTINUING" /\ l \in LinesOf(breakpoints[s])

(* The hook is set before the chunk is loaded and run (main, 1613-1617),   *)
(* so the first line it sees is the main chunk's.                          *)
Arrive(s, l) ==
  /\ at = "run"
  /\ currentline = NoLine => s = Main
  /\ source' = s
  /\ currentline' = l

(* Mutant: the parser does not announce that it has suspended.              *)
EntryEventsWithoutSuspended == <<ResumedClient, ResumedClient>>

(* The stream that collects the events is not emptied between two sends,   *)
(* so the first event of a pair is sent twice.                             *)
EntryEvents == <<ResumedClient, ResumedClient, SuspendedStep>>
HitEvents(l) == <<ResumedClient, ResumedClient, SuspendedBreakpoint(l)>>
StepEvents == <<ResumedStep, ResumedStep, SuspendedStep>>

Pass(s, l) ==
  /\ Arrive(s, l)
  /\ debuggerStates = "CONTINUING"
  /\ ~Hits(s, l)
  /\ UNCHANGED <<at, debuggerStates, breakpoints, wire>>

StopAtBreakpoint(s, l) ==
  /\ Arrive(s, l)
  /\ Hits(s, l)
  /\ at' = "parse"
  /\ Emit(HitEvents(l) \o EntryEvents)
  /\ UNCHANGED <<debuggerStates, breakpoints, requests, replies, connected,
                 closed>>

StopAtStep(s, l) ==
  /\ Arrive(s, l)
  /\ debuggerStates = "STEPPING"
  /\ at' = "parse"
  /\ Emit(EntryEvents)
  /\ UNCHANGED <<debuggerStates, breakpoints, requests, replies, connected,
                 closed>>

HookLine ==
  \E s \in Sources, l \in Lines :
    Pass(s, l) \/ StopAtBreakpoint(s, l) \/ StopAtStep(s, l)
-----------------------------------------------------------------------------
(* commandParser: recv returns every byte that has arrived, up to k        *)
(* commands; the text after the first newline is discarded.                *)
Receive(cmd) ==
  /\ at = "parse"
  /\ requests # <<>>
  /\ cmd = Head(requests)
  /\ \E k \in 1..Len(requests) :
        requests' = SubSeq(requests, k + 1, Len(requests))
  /\ UNCHANGED <<place, connected>>

(* Mutant: a variable that is not found is not answered.                    *)
DoQueryUnanswered(cmd) ==
  /\ cmd.verb \in QueryVerbs
  /\ Receive(cmd)
  /\ IF cmd.verb = "var" THEN UNCHANGED replies ELSE AnswerValue(cmd)
  /\ UNCHANGED <<at, debuggerStates, breakpoints, events, closed>>

(* getglobals, data, var, stackforide: the value.                          *)
DoQuery(cmd) ==
  /\ cmd.verb \in QueryVerbs
  /\ Receive(cmd)
  /\ AnswerValue(cmd)
  /\ UNCHANGED <<at, debuggerStates, breakpoints, events, closed>>

(* suspend: the program is already stopped, the parser stays in its loop.  *)
DoSuspend(cmd) ==
  /\ cmd.verb = "suspend"
  /\ Receive(cmd)
  /\ Answer(cmd, "ok")
  /\ Emit(<<SuspendedClient>>)
  /\ UNCHANGED <<at, debuggerStates, breakpoints, closed>>

(* Mutant: break without its test of the number.                            *)
DoBreakUnchecked(cmd) ==
  /\ cmd.verb = "break" /\ cmd.line # NoWord
  /\ Receive(cmd)
  /\ breakpoints' = [breakpoints EXCEPT ![source] = Append(@, cmd.line)]
  /\ Answer(cmd, "ok")
  /\ UNCHANGED <<at, debuggerStates, events, closed>>

(* break N: appended to the vector of the source the program is stopped in *)
DoBreak(cmd) ==
  /\ cmd.verb = "break" /\ cmd.line # NoWord
  /\ Receive(cmd)
  /\ IF cmd.line = NoLine
       THEN UNCHANGED <<breakpoints, replies>>
       ELSE /\ breakpoints' = [breakpoints EXCEPT ![source] =
                                 Append(@, cmd.line)]
            /\ Answer(cmd, "ok")
  /\ UNCHANGED <<at, debuggerStates, events, closed>>

(* clear N: the first match goes and is acknowledged; without a match the  *)
(* loop over the vector ends and nothing is sent.                          *)
DoClear(cmd) ==
  /\ cmd.verb = "clear" /\ cmd.line # NoWord
  /\ Receive(cmd)
  /\ IF cmd.line \in LinesOf(breakpoints[source])
       THEN /\ breakpoints' = [breakpoints EXCEPT ![source] =
                                 EraseFirst(@, cmd.line)]
            /\ Answer(cmd, "ok")
       ELSE UNCHANGED <<breakpoints, replies>>
  /\ UNCHANGED <<at, debuggerStates, events, closed>>

(* step: the reply and all three events leave before the line has run.     *)
DoStep(cmd) ==
  /\ cmd.verb = "step"
  /\ Receive(cmd)
  /\ debuggerStates' = "STEPPING"
  /\ at' = "run"
  /\ Answer(cmd, "ok")
  /\ Emit(StepEvents)
  /\ UNCHANGED <<breakpoints, closed>>

DoResume(cmd) ==
  /\ cmd.verb = "resume"
  /\ Receive(cmd)
  /\ debuggerStates' = "CONTINUING"
  /\ at' = "run"
  /\ Answer(cmd, "ok")
  /\ Emit(<<ResumedClient>>)
  /\ UNCHANGED <<breakpoints, closed>>

(* quit: resumes without a reply and without an event.                     *)
DoQuit(cmd) ==
  /\ cmd.verb = "quit"
  /\ Receive(cmd)
  /\ debuggerStates' = "CONTINUING"
  /\ at' = "run"
  /\ UNCHANGED <<breakpoints, replies, events, closed>>

(* list, display (drop lands here), print (pushdata lands here), help:     *)
(* text for a console, nothing on the sockets.                             *)
DoSilent(cmd) ==
  /\ cmd.verb \in SilentVerbs \cup {"list", "help"}
  /\ Receive(cmd)
  /\ UNCHANGED <<at, debuggerStates, breakpoints, replies, events, closed>>

(* No prefix matches exit, setvar, watch.                                  *)
DoUnknown(cmd) ==
  /\ cmd.verb \in ForeignVerbs
  /\ Receive(cmd)
  /\ Answer(cmd, "ERROR")
  /\ UNCHANGED <<at, debuggerStates, breakpoints, events, closed>>

(* The handler is through with a null pointer, and the process with it.    *)
Dies(cmd) ==
  /\ at = "parse" /\ cmd = Head(requests)
  /\ at' = "aborted"
  /\ Close
  /\ UNCHANGED <<debuggerStates, breakpoints, place, replies, events, connected>>

(* popdata lands on print, which compares the missing second word: strcmp. *)
DoPopData(cmd) == cmd.verb = "popdata" /\ Dies(cmd)

(* break and clear give theirs to atoi before they test whether it is there*)
DoNoWord(cmd) == cmd.verb \in BreakpointVerbs /\ cmd.line = NoWord /\ Dies(cmd)

Execute(cmd) ==
  \/ DoQuery(cmd) \/ DoSuspend(cmd) \/ DoBreak(cmd) \/ DoClear(cmd)
  \/ DoStep(cmd) \/ DoResume(cmd) \/ DoQuit(cmd) \/ DoSilent(cmd)
  \/ DoUnknown(cmd) \/ DoPopData(cmd) \/ DoNoWord(cmd)

Parse == requests # <<>> /\ Execute(Head(requests))
-----------------------------------------------------------------------------
(* Mutant: a failed receive is taken for an empty command.                  *)
PeerClosedIgnored ==
  /\ at = "parse" /\ ~connected /\ requests = <<>>
  /\ UNCHANGED <<ldbState, wire>>

(* recv on a closed peer fails: the parser returns as if told to go on.    *)
PeerClosed ==
  /\ at = "parse"
  /\ ~connected
  /\ requests = <<>>
  /\ at' = "run"
  /\ UNCHANGED <<debuggerStates, breakpoints, place, wire>>

(* A send to a closed peer may fail; only main and the receiving loop      *)
(* catch SocketException, so from the hook or a handler it ends ldb.       *)
SendFails ==
  /\ ~connected
  /\ \/ at = "run" /\ debuggerStates = "STEPPING"
     \/ at = "run" /\ \E s \in Sources, l \in Lines : Hits(s, l)
     \/ at = "parse" /\ requests # <<>>
  /\ at' = "aborted"
  /\ Close
  /\ UNCHANGED <<debuggerStates, breakpoints, place, replies, events, connected>>

(* The process is terminated from outside, at any point.                   *)
Killed ==
  /\ ~closed
  /\ at' = "aborted"
  /\ Close
  /\ UNCHANGED <<debuggerStates, breakpoints, place, replies, events, connected>>

LdbNext ==
  \/ Start \/ Finish \/ Fail \/ HookLine \/ Parse \/ PeerClosed \/ SendFails
  \/ Killed

(* What the process does on its own while it is not stopped: the hook runs *)
(* line after line; the script may loop for ever.                          *)
Runs == at = "run" /\ (HookLine \/ Finish \/ Fail)
=============================================================================
