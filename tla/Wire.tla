-------------------------------- MODULE Wire --------------------------------
(***************************************************************************)
(* The two sockets between the Eclipse debug target and ldb: the request   *)
(* socket carries commands one way and replies the other, the event socket *)
(* carries events from ldb to the IDE.  A socket keeps the order of what   *)
(* it carries; nothing orders one socket with respect to the other.        *)
(***************************************************************************)
EXTENDS Integers, Sequences, FiniteSets

CONSTANT Lines          \* the line numbers of the debugged scripts

ASSUME LinesAssumption == Lines \subseteq (Nat \ {0}) /\ IsFiniteSet(Lines)

VARIABLES
  requests,   \* commands written to the request socket, not yet received
  replies,    \* replies written by ldb, not yet read by the IDE
  events,     \* events written by ldb, not yet read by the IDE
  connected,  \* FALSE once the IDE's end of the sockets is closed
  closed      \* TRUE once ldb's end of the sockets is closed

wire == <<requests, replies, events, connected, closed>>
-----------------------------------------------------------------------------
(* The line a marker without a LINE_NUMBER attribute reports; what atoi    *)
(* makes of a word that is no number; a command without a second word.     *)
NoMarkerLine == -1
NoLine == 0
NoWord == -2

BreakableLines == Lines \cup {NoMarkerLine}

(* The commands the IDE sends (every sendRequest of the debug model), and  *)
(* those only a user of the ldb console types.                             *)
BreakpointVerbs == {"break", "clear"}
QueryVerbs      == {"stackforide", "getglobals", "data", "var"}
ResumingVerbs   == {"resume", "step"}
ForeignVerbs    == {"exit", "setvar", "watch"}  \* PDA verbs ldb has no case for
SilentVerbs     == {"drop", "pushdata"}         \* land on display and print
ConsoleVerbs    == {"quit", "list", "help"}
PlainVerbs == QueryVerbs \cup ResumingVerbs \cup ForeignVerbs \cup SilentVerbs
                \cup ConsoleVerbs \cup {"suspend", "popdata"}

Command == [verb : BreakpointVerbs, line : BreakableLines \cup {NoLine, NoWord}]
             \cup [verb : PlainVerbs, line : {NoLine}]

IdeCommand == {cmd \in Command : cmd.verb \notin ConsoleVerbs /\ cmd.line # NoWord}

Do(v) == [verb |-> v, line |-> NoLine]
Break(l) == [verb |-> "break", line |-> l]
Clear(l) == [verb |-> "clear", line |-> l]

(* A reply is one line of text.  "to" is the command it answers: the wire  *)
(* does not carry it, the properties below compare it.                     *)
Reply == [to : Command, text : {"ok", "value", "ERROR"}]

Event(k, c, l) == [kind |-> k, cause |-> c, line |-> l]
Events == [kind : {"started", "resumed", "suspended", "syntaxerror"},
           cause : {"none", "client", "step", "breakpoint"},
           line : BreakableLines \cup {NoLine}]

Started            == Event("started", "none", NoLine)
ResumedClient      == Event("resumed", "client", NoLine)
ResumedStep        == Event("resumed", "step", NoLine)
SuspendedClient    == Event("suspended", "client", NoLine)
SuspendedStep      == Event("suspended", "step", NoLine)
SuspendedBreakpoint(l) == Event("suspended", "breakpoint", l)
SyntaxError        == Event("syntaxerror", "none", NoLine)

WireInit ==
  /\ requests = <<>>
  /\ replies = <<>>
  /\ events = <<>>
  /\ connected = TRUE
  /\ closed = FALSE

WireTypeOK ==
  /\ requests \in Seq(Command)
  /\ replies \in Seq(Reply)
  /\ events \in Seq(Events)
  /\ connected \in BOOLEAN
  /\ closed \in BOOLEAN
=============================================================================
