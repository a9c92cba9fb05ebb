----------------------------- MODULE LdbProofs ------------------------------
(***************************************************************************)
(* What every step of ldb preserves, proved once for any peer: the types   *)
(* of its state and of the wire, and how a step uses the request socket.   *)
(***************************************************************************)
EXTENDS Ldb, SequenceTheorems, WellFoundedInduction, TLAPS

LdbTyping == WireTypeOK /\ LdbTypeOK
-----------------------------------------------------------------------------
(* The vectors of breakpoints: erase is defined whenever the line occurs.  *)

LEMMA FirstAtIsFirst ==
  ASSUME NEW S, NEW vector \in Seq(S), NEW l, l \in LinesOf(vector)
  PROVE  /\ FirstAt(vector, l) \in 1..Len(vector)
         /\ vector[FirstAt(vector, l)] = l
<1> DEFINE Hit == {i \in 1..Len(vector) : vector[i] = l}
<1>1. DOMAIN vector = 1..Len(vector) /\ Len(vector) \in Nat
  BY LenProperties
<1>2. Hit \subseteq Nat /\ Hit # {}
  BY <1>1 DEF LinesOf
<1>3. PICK i \in Hit : \A j \in Hit : ~(<<j, i>> \in OpToRel(<, Nat))
  BY <1>2, WFMin, NatLessThanWellFounded
<1>4. ASSUME NEW j \in Hit, ~(i <= j)
      PROVE  FALSE
  <2>1. j \in Nat /\ i \in Nat /\ j < i
    BY <1>2, <1>4
  <2>2. <<j, i>> \in OpToRel(<, Nat)
    BY <2>1 DEF OpToRel
  <2> QED
    BY <1>3, <2>2
<1>5. /\ i \in DOMAIN vector
      /\ vector[i] = l /\ \A j \in DOMAIN vector : vector[j] = l => i <= j
  BY <1>1, <1>4
<1> QED
  BY <1>1, <1>5 DEF FirstAt

LEMMA EraseFirstProperties ==
  ASSUME NEW S, NEW vector \in Seq(S), NEW l, l \in LinesOf(vector)
  PROVE  /\ EraseFirst(vector, l) \in Seq(S)
         /\ Len(EraseFirst(vector, l)) = Len(vector) - 1
         /\ LinesOf(EraseFirst(vector, l)) \subseteq LinesOf(vector)
         /\ LinesOf(vector) \ {l} \subseteq LinesOf(EraseFirst(vector, l))
<1> DEFINE k == FirstAt(vector, l)
           before == SubSeq(vector, 1, k - 1)
           after == SubSeq(vector, k + 1, Len(vector))
           erased == EraseFirst(vector, l)
<1>1. k \in 1..Len(vector) /\ vector[k] = l
  BY FirstAtIsFirst
<1>2. /\ DOMAIN vector = 1..Len(vector) /\ Len(vector) \in Nat
      /\ \A i \in 1..Len(vector) : vector[i] \in S
  BY LenProperties
<1> HIDE DEF k
<1>3. /\ before \in Seq(S) /\ Len(before) = k - 1
      /\ \A i \in 1..k - 1 : before[i] = vector[i]
  <2>1. \A i \in 1..k - 1 : vector[i] \in S
    BY <1>1, <1>2
  <2>2. /\ SubSeq(vector, 1, k - 1) \in Seq(S)
        /\ Len(SubSeq(vector, 1, k - 1)) = IF 1 <= k - 1 THEN (k - 1) - 1 + 1 ELSE 0
        /\ \A i \in 1..(k - 1) - 1 + 1 :
             SubSeq(vector, 1, k - 1)[i] = vector[1 + i - 1]
    BY <1>1, <1>2, <2>1, SubSeqProperties
  <2> QED
    BY <1>1, <1>2, <2>2
<1>4. /\ after \in Seq(S) /\ Len(after) = Len(vector) - k
      /\ \A i \in 1..Len(vector) - k : after[i] = vector[k + i]
  <2>1. \A i \in k + 1..Len(vector) : vector[i] \in S
    BY <1>1, <1>2
  <2>2. k + 1 \in Int /\ Len(vector) \in Int
    BY <1>1, <1>2
  <2>3. /\ after \in Seq(S)
        /\ Len(after) = IF k + 1 <= Len(vector)
                          THEN Len(vector) - (k + 1) + 1 ELSE 0
        /\ \A i \in 1..Len(vector) - (k + 1) + 1 :
             after[i] = vector[(k + 1) + i - 1]
    BY <2>1, <2>2, SubSeqProperties
  <2> HIDE DEF after
  <2>4. Len(after) = Len(vector) - k
    <3>1. Len(vector) \in Nat /\ k \in Nat /\ k <= Len(vector)
      BY <1>1, <1>2
    <3>2. CASE k + 1 <= Len(vector)
      BY <2>3, <3>1, <3>2
    <3>3. CASE ~(k + 1 <= Len(vector))
      BY <2>3, <3>1, <3>3
    <3> QED
      BY <3>2, <3>3
  <2>5. ASSUME NEW i \in 1..Len(vector) - k
        PROVE  after[i] = vector[k + i]
    <3>1. i \in 1..Len(vector) - (k + 1) + 1 /\ (k + 1) + i - 1 = k + i
      BY <1>1, <1>2
    <3> QED
      BY <2>3, <3>1
  <2> QED
    BY <2>3, <2>4, <2>5
<1>5. erased = before \o after
  BY DEF EraseFirst, k
<1> HIDE DEF before, after, erased
<1>6. /\ erased \in Seq(S)
      /\ Len(erased) = Len(vector) - 1
      /\ \A i \in 1..Len(vector) - 1 :
           erased[i] = IF i < k THEN vector[i] ELSE vector[i + 1]
  <2>1. /\ before \o after \in Seq(S)
        /\ Len(before \o after) = Len(before) + Len(after)
        /\ \A i \in 1..Len(before) + Len(after) :
             (before \o after)[i] = IF i <= Len(before) THEN before[i]
                                      ELSE after[i - Len(before)]
    BY <1>3, <1>4, ConcatProperties
  <2>2. Len(before) + Len(after) = Len(vector) - 1
    BY <1>1, <1>2, <1>3, <1>4
  <2>3. ASSUME NEW i \in 1..Len(vector) - 1
        PROVE  erased[i] = IF i < k THEN vector[i] ELSE vector[i + 1]
    <3>1. CASE i < k
      BY <1>1, <1>2, <1>3, <1>5, <2>1, <2>2, <3>1
    <3>2. CASE ~(i < k)
      <4>1. erased[i] = after[i - (k - 1)]
        BY <1>1, <1>2, <1>3, <1>5, <2>1, <2>2, <3>2
      <4>2. i - (k - 1) \in 1..Len(vector) - k
        BY <1>1, <1>2, <3>2
      <4>3. after[i - (k - 1)] = vector[k + (i - (k - 1))]
        BY <1>4, <4>2
      <4>4. k + (i - (k - 1)) = i + 1
        BY <1>1, <1>2
      <4> QED
        BY <3>2, <4>1, <4>3, <4>4
    <3> QED
      BY <3>1, <3>2
  <2> QED
    BY <1>5, <2>1, <2>2, <2>3
<1>7. LinesOf(erased) = {erased[i] : i \in 1..Len(vector) - 1}
  BY <1>6, LenProperties DEF LinesOf
<1>8. LinesOf(erased) \subseteq LinesOf(vector)
  BY <1>1, <1>2, <1>6, <1>7 DEF LinesOf
<1>9. ASSUME NEW i \in 1..Len(vector), vector[i] # l
      PROVE  vector[i] \in LinesOf(erased)
  <2>1. CASE i < k
    BY <1>1, <1>2, <1>6, <1>7, <2>1
  <2>2. CASE i > k
    <3>1. i - 1 \in 1..Len(vector) - 1 /\ ~(i - 1 < k) /\ (i - 1) + 1 = i
      BY <1>1, <1>2, <2>2
    <3> QED
      BY <1>6, <1>7, <3>1
  <2> QED
    BY <1>1, <1>9, <2>1, <2>2
<1>10. LinesOf(vector) \ {l} \subseteq LinesOf(erased)
  BY <1>2, <1>9 DEF LinesOf
<1> QED
  BY <1>6, <1>8, <1>10 DEF erased
(* push_back adds one line.                                                *)
LEMMA AppendedLines ==
  ASSUME NEW S, NEW vector \in Seq(S), NEW l \in S
  PROVE  LinesOf(Append(vector, l)) = LinesOf(vector) \cup {l}
<1>1. /\ Append(vector, l) \in Seq(S)
      /\ Len(Append(vector, l)) = Len(vector) + 1
      /\ \A i \in 1..Len(vector) : Append(vector, l)[i] = vector[i]
      /\ Append(vector, l)[Len(vector) + 1] = l
  BY AppendProperties
<1>2. /\ Len(vector) \in Nat /\ DOMAIN vector = 1..Len(vector)
      /\ DOMAIN Append(vector, l) = 1..Len(vector) + 1
  BY <1>1, LenProperties
<1> HIDE DEF LinesOf
<1>3. ASSUME NEW x \in LinesOf(Append(vector, l))
      PROVE  x \in LinesOf(vector) \cup {l}
  BY <1>1, <1>2 DEF LinesOf
<1>4. ASSUME NEW x \in LinesOf(vector)
      PROVE  x \in LinesOf(Append(vector, l))
  <2>1. PICK i \in 1..Len(vector) : x = vector[i]
    BY <1>2 DEF LinesOf
  <2>2. i \in 1..Len(vector) + 1 /\ x = Append(vector, l)[i]
    BY <1>1, <1>2, <2>1
  <2> QED
    BY <1>2, <2>2 DEF LinesOf
<1>5. l \in LinesOf(Append(vector, l))
  <2>1. Len(vector) + 1 \in 1..Len(vector) + 1
    BY <1>2
  <2> QED
    BY <1>1, <1>2, <2>1 DEF LinesOf
<1> QED
  BY <1>3, <1>4, <1>5

-----------------------------------------------------------------------------
(* What is written to the sockets has the types of the wire.               *)

LEMMA EventTypes ==
  /\ <<Started>> \in Seq(Events)
  /\ <<SyntaxError>> \in Seq(Events)
  /\ <<ResumedClient>> \in Seq(Events)
  /\ <<SuspendedClient>> \in Seq(Events)
  /\ StepEvents \in Seq(Events)
  /\ EntryEvents \in Seq(Events)
  /\ \A l \in Lines : HitEvents(l) \o EntryEvents \in Seq(Events)
<1>1. /\ Started \in Events /\ SyntaxError \in Events
      /\ ResumedClient \in Events /\ SuspendedClient \in Events
      /\ ResumedStep \in Events /\ SuspendedStep \in Events
  BY DEF Events, Event, Started, SyntaxError, ResumedClient, SuspendedClient,
         ResumedStep, SuspendedStep
<1>2. \A l \in Lines : SuspendedBreakpoint(l) \in Events
  BY DEF Events, Event, SuspendedBreakpoint, BreakableLines
<1>3. StepEvents \in Seq(Events) /\ EntryEvents \in Seq(Events)
  BY <1>1 DEF StepEvents, EntryEvents
<1>4. \A l \in Lines : HitEvents(l) \in Seq(Events)
  BY <1>1, <1>2 DEF HitEvents
<1>5. \A l \in Lines : HitEvents(l) \o EntryEvents \in Seq(Events)
  BY <1>3, <1>4, ConcatProperties
<1> QED
  BY <1>1, <1>3, <1>5

LEMMA EmitType ==
  ASSUME events \in Seq(Events), NEW es \in Seq(Events), Emit(es)
  PROVE  events' \in Seq(Events)
BY ConcatProperties DEF Emit

LEMMA AnswerType ==
  ASSUME replies \in Seq(Reply), NEW cmd \in Command,
         NEW text \in {"ok", "value", "ERROR"}, Answer(cmd, text)
  PROVE  replies' \in Seq(Reply)
<1>1. [to |-> cmd, text |-> text] \in Reply
  BY DEF Reply
<1> QED
  BY <1>1, AppendProperties DEF Answer

LEMMA AnswerValueType ==
  ASSUME replies \in Seq(Reply), NEW cmd \in Command, AnswerValue(cmd)
  PROVE  replies' \in Seq(Reply)
<1>1. PICK n \in 1..MaxReplyLines :
        replies' = IF connected
          THEN replies \o [i \in 1..n |-> [to |-> cmd, text |-> "value"]]
          ELSE replies
  BY DEF AnswerValue
<1>2. n \in Nat
  BY ReplyLinesAssumption
<1>3. [to |-> cmd, text |-> "value"] \in Reply
  BY DEF Reply
<1>4. [i \in 1..n |-> [to |-> cmd, text |-> "value"]] \in Seq(Reply)
  BY <1>2, <1>3
<1> QED
  BY <1>1, <1>4, ConcatProperties

LEMMA CommandLine ==
  ASSUME NEW cmd \in Command
  PROVE  cmd.line \in BreakableLines \cup {NoLine, NoWord}
BY DEF Command

LEMMA ReceiveType ==
  ASSUME requests \in Seq(Command), NEW cmd, Receive(cmd)
  PROVE  cmd \in Command /\ requests' \in Seq(Command)
<1>1. cmd \in Command
  BY HeadTailProperties DEF Receive
<1>2. PICK k \in 1..Len(requests) :
        requests' = SubSeq(requests, k + 1, Len(requests))
  BY DEF Receive
<1>3. /\ Len(requests) \in Nat
      /\ \A i \in 1..Len(requests) : requests[i] \in Command
  BY LenProperties
<1>4. /\ k + 1 \in Int /\ Len(requests) \in Int
      /\ \A i \in k + 1..Len(requests) : requests[i] \in Command
  BY <1>2, <1>3
<1>5. SubSeq(requests, k + 1, Len(requests)) \in Seq(Command)
  BY <1>4, SubSeqProperties
<1> QED
  BY <1>1, <1>2, <1>5
-----------------------------------------------------------------------------
(* A command is executed: its types, whichever it is.                      *)

LEMMA ExecuteTyping ==
  ASSUME LdbTyping, NEW cmd, Execute(cmd), requests # <<>>
  PROVE  LdbTyping'
<1> USE DEF LdbTyping, WireTypeOK, LdbTypeOK, Places
<1>1. CASE DoQuery(cmd)
  BY <1>1, ReceiveType, AnswerValueType DEF DoQuery, Receive, place
<1>2. CASE DoSuspend(cmd)
  BY <1>2, ReceiveType, AnswerType, EmitType, EventTypes
     DEF DoSuspend, Receive, place
<1>3. CASE DoBreak(cmd)
  <2>1. cmd \in Command /\ requests' \in Seq(Command)
    BY <1>3, ReceiveType DEF DoBreak
  <2>2. replies' \in Seq(Reply)
    BY <1>3, <2>1, AnswerType DEF DoBreak
  <2>3. breakpoints' \in [Sources -> Seq(BreakableLines)]
    <3>1. CASE cmd.line = NoLine
      BY <1>3, <3>1 DEF DoBreak
    <3>2. CASE cmd.line # NoLine
      <4>1. cmd.line \in BreakableLines
        BY <1>3, <2>1, <3>2, CommandLine DEF DoBreak
      <4>2. Append(breakpoints[source], cmd.line) \in Seq(BreakableLines)
        BY <4>1, AppendProperties
      <4> QED
        BY <1>3, <3>2, <4>2 DEF DoBreak
    <3> QED
      BY <3>1, <3>2
  <2> QED
    BY <1>3, <2>1, <2>2, <2>3 DEF DoBreak, Receive, place
<1>4. CASE DoClear(cmd)
  <2>1. cmd \in Command /\ requests' \in Seq(Command)
    BY <1>4, ReceiveType DEF DoClear
  <2>2. replies' \in Seq(Reply)
    BY <1>4, <2>1, AnswerType DEF DoClear
  <2>3. breakpoints' \in [Sources -> Seq(BreakableLines)]
    <3>1. CASE cmd.line \in LinesOf(breakpoints[source])
      <4>1. EraseFirst(breakpoints[source], cmd.line) \in Seq(BreakableLines)
        BY <3>1, EraseFirstProperties
      <4> QED
        BY <1>4, <3>1, <4>1 DEF DoClear
    <3>2. CASE cmd.line \notin LinesOf(breakpoints[source])
      BY <1>4, <3>2 DEF DoClear
    <3> QED
      BY <3>1, <3>2
  <2> QED
    BY <1>4, <2>1, <2>2, <2>3 DEF DoClear, Receive, place
<1>5. CASE DoStep(cmd)
  BY <1>5, ReceiveType, AnswerType, EmitType, EventTypes
     DEF DoStep, Receive, place
<1>6. CASE DoResume(cmd)
  BY <1>6, ReceiveType, AnswerType, EmitType, EventTypes
     DEF DoResume, Receive, place
<1>7. CASE DoQuit(cmd)
  BY <1>7, ReceiveType DEF DoQuit, Receive, place
<1>8. CASE DoSilent(cmd)
  BY <1>8, ReceiveType DEF DoSilent, Receive, place
<1>9. CASE DoUnknown(cmd)
  BY <1>9, ReceiveType, AnswerType DEF DoUnknown, Receive, place
<1>10. CASE DoPopData(cmd) \/ DoNoWord(cmd)
  <2>1. Dies(cmd)
    BY <1>10 DEF DoPopData, DoNoWord
  <2> QED
    BY <2>1 DEF Dies, Close, place
<1> QED
  BY <1>1, <1>2, <1>3, <1>4, <1>5, <1>6, <1>7, <1>8, <1>9, <1>10 DEF Execute

(* Every step of ldb keeps the types of its state and of the wire.         *)
LEMMA LdbNextTyping ==
  ASSUME LdbTyping, LdbNext
  PROVE  LdbTyping'
<1> USE DEF LdbTyping, WireTypeOK, LdbTypeOK, Places
<1>1. CASE Start
  BY <1>1, EmitType, EventTypes DEF Start, place
<1>2. CASE Finish
  BY <1>2 DEF Finish, Close, place
<1>3. CASE Fail
  <2>1. events' \in Seq(Events)
    BY <1>3, EmitType, EventTypes DEF Fail
  <2> QED
    BY <1>3, <2>1 DEF Fail, Close, place
<1>4. CASE HookLine
  <2>1. ASSUME NEW s \in Sources, NEW l \in Lines, Pass(s, l)
        PROVE  LdbTyping'
    BY <2>1 DEF Pass, Arrive, wire
  <2>2. ASSUME NEW s \in Sources, NEW l \in Lines, StopAtBreakpoint(s, l)
        PROVE  LdbTyping'
    BY <2>2, EmitType, EventTypes DEF StopAtBreakpoint, Arrive
  <2>3. ASSUME NEW s \in Sources, NEW l \in Lines, StopAtStep(s, l)
        PROVE  LdbTyping'
    BY <2>3, EmitType, EventTypes DEF StopAtStep, Arrive
  <2> QED
    BY <1>4, <2>1, <2>2, <2>3 DEF HookLine
<1>5. CASE Parse
  BY <1>5, ExecuteTyping DEF Parse
<1>6. CASE PeerClosed
  BY <1>6 DEF PeerClosed, wire, place
<1>7. CASE SendFails
  BY <1>7 DEF SendFails, Close, place
<1>8. CASE Killed
  BY <1>8 DEF Killed, Close, place
<1> QED
  BY <1>1, <1>2, <1>3, <1>4, <1>5, <1>6, <1>7, <1>8 DEF LdbNext

LEMMA LdbInitTyping == WireInit /\ LdbInit => LdbTyping
BY SourcesAssumption, EmptySeq
   DEF WireInit, LdbInit, LdbTyping, WireTypeOK, LdbTypeOK, Places
-----------------------------------------------------------------------------
(* How a step of ldb uses the request socket: it leaves it alone, ends and *)
(* loses what was not received, or receives some commands and writes at    *)
(* most one reply, to the first of them, when no value has a newline.      *)

Consumes ==
  /\ requests # <<>>
  /\ UNCHANGED closed
  /\ \E k \in 1..Len(requests) :
        requests' = SubSeq(requests, k + 1, Len(requests))
  /\ MaxReplyLines = 1 =>
       \/ UNCHANGED replies
       \/ \E text \in {"ok", "value", "ERROR"} :
            replies' = Append(replies, [to |-> Head(requests), text |-> text])

UsesWire ==
  \/ UNCHANGED <<requests, replies, closed>>
  \/ requests' = <<>> /\ UNCHANGED replies
  \/ Consumes

(* A value of one line is one reply.                                       *)
LEMMA AnswerValueIsOneReply ==
  ASSUME MaxReplyLines = 1, NEW cmd, AnswerValue(cmd), replies \in Seq(Reply)
  PROVE  UNCHANGED replies \/ replies' = Append(replies, [to |-> cmd, text |-> "value"])
<1> DEFINE answer == [to |-> cmd, text |-> "value"]
<1>1. CASE ~connected
  BY <1>1 DEF AnswerValue
<1>2. CASE connected
  <2>1. PICK n \in 1..1 : replies' = replies \o [i \in 1..n |-> answer]
    BY <1>2 DEF AnswerValue
  <2>2. [i \in 1..n |-> answer] = <<answer>>
    BY <2>1
  <2>3. replies' = replies \o <<answer>>
    BY <2>1, <2>2
  <2> QED
    BY <2>3
<1> QED
  BY <1>1, <1>2

LEMMA ExecuteConsumes ==
  ASSUME replies \in Seq(Reply), NEW cmd, Execute(cmd), requests # <<>>
  PROVE  UsesWire
<1>1. CASE DoQuery(cmd)
  BY <1>1, AnswerValueIsOneReply DEF DoQuery, Receive, UsesWire, Consumes
<1>2. CASE DoSuspend(cmd)
  BY <1>2 DEF DoSuspend, Receive, Answer, UsesWire, Consumes
<1>3. CASE DoBreak(cmd)
  BY <1>3 DEF DoBreak, Receive, Answer, UsesWire, Consumes
<1>4. CASE DoClear(cmd)
  BY <1>4 DEF DoClear, Receive, Answer, UsesWire, Consumes
<1>5. CASE DoStep(cmd)
  BY <1>5 DEF DoStep, Receive, Answer, UsesWire, Consumes
<1>6. CASE DoResume(cmd)
  BY <1>6 DEF DoResume, Receive, Answer, UsesWire, Consumes
<1>7. CASE DoQuit(cmd)
  BY <1>7 DEF DoQuit, Receive, UsesWire, Consumes
<1>8. CASE DoSilent(cmd)
  BY <1>8 DEF DoSilent, Receive, UsesWire, Consumes
<1>9. CASE DoUnknown(cmd)
  BY <1>9 DEF DoUnknown, Receive, Answer, UsesWire, Consumes
<1>10. CASE DoPopData(cmd) \/ DoNoWord(cmd)
  BY <1>10 DEF DoPopData, DoNoWord, Dies, Close, UsesWire
<1> QED
  BY <1>1, <1>2, <1>3, <1>4, <1>5, <1>6, <1>7, <1>8, <1>9, <1>10 DEF Execute

LEMMA LdbNextUsesWire ==
  ASSUME replies \in Seq(Reply), LdbNext
  PROVE  UsesWire
<1>1. CASE Start \/ PeerClosed
  BY <1>1 DEF Start, PeerClosed, wire, UsesWire
<1>2. CASE Finish \/ Fail \/ SendFails \/ Killed
  BY <1>2 DEF Finish, Fail, SendFails, Killed, Close, UsesWire
<1>3. CASE HookLine
  BY <1>3 DEF HookLine, Pass, StopAtBreakpoint, StopAtStep, wire, UsesWire
<1>4. CASE Parse
  BY <1>4, ExecuteConsumes DEF Parse
<1> QED
  BY <1>1, <1>2, <1>3, <1>4 DEF LdbNext
-----------------------------------------------------------------------------
(* What a step of ldb tells on the event socket while somebody listens:    *)
(* Tells(kind) says the step's last event is of that kind.                 *)

EndsWith(es, kind) ==
  es \in Seq(Events) /\ Len(es) > 0 /\ es[Len(es)].kind = kind

Tells(kind) == \E es : EndsWith(es, kind) /\ events' = events \o es

LEMMA TellsLast ==
  ASSUME events \in Seq(Events), NEW kind, Tells(kind)
  PROVE  events' # <<>> /\ events'[Len(events')].kind = kind
<1>1. PICK es : EndsWith(es, kind) /\ events' = events \o es
  BY DEF Tells
<1>2. Len(events) \in Nat /\ Len(es) \in Nat /\ Len(es) > 0 /\ es \in Seq(Events)
  BY <1>1, LenProperties DEF EndsWith
<1>3. /\ Len(events') = Len(events) + Len(es)
      /\ events'[Len(events) + Len(es)] = es[Len(es)]
  BY <1>1, <1>2, ConcatProperties
<1> QED
  BY <1>1, <1>2, <1>3 DEF EndsWith

(* Taking the first event leaves the last one last, unless it was both.    *)
LEMMA LastOfTail ==
  ASSUME NEW S, NEW s \in Seq(S), s # <<>>
  PROVE  IF Tail(s) = <<>> THEN Head(s) = s[Len(s)]
                           ELSE Tail(s)[Len(Tail(s))] = s[Len(s)]
<1>1. /\ Len(s) \in Nat /\ Len(s) > 0
      /\ Tail(s) \in Seq(S) /\ Len(Tail(s)) = Len(s) - 1
      /\ Head(s) = s[1]
      /\ \A i \in 1..Len(s) - 1 : Tail(s)[i] = s[i + 1]
  BY HeadTailProperties, LenProperties, EmptySeq
<1>2. CASE Tail(s) = <<>>
  <2>1. Len(s) = 1
    BY <1>1, <1>2
  <2> QED
    BY <1>1, <1>2, <2>1
<1>3. CASE Tail(s) # <<>>
  <2>1. Len(Tail(s)) > 0
    BY <1>1, <1>3
  <2>2. Tail(s)[Len(s) - 1] = s[Len(s)]
    BY <1>1, <2>1
  <2> QED
    BY <1>1, <1>3, <2>2
<1> QED
  BY <1>2, <1>3

(* The last of the events each handler sends.                              *)
LEMMA LastKinds ==
  /\ EndsWith(<<Started>>, "started")
  /\ EndsWith(<<ResumedClient>>, "resumed")
  /\ EndsWith(<<SuspendedClient>>, "suspended")
  /\ EndsWith(StepEvents, "suspended")
  /\ EndsWith(EntryEvents, "suspended")
<1>1. /\ Len(<<Started>>) = 1 /\ <<Started>>[1].kind = "started"
      /\ Len(<<ResumedClient>>) = 1 /\ <<ResumedClient>>[1].kind = "resumed"
      /\ Len(<<SuspendedClient>>) = 1 /\ <<SuspendedClient>>[1].kind = "suspended"
  BY DEF Event, Started, ResumedClient, SuspendedClient
<1>2. /\ Len(StepEvents) = 3 /\ StepEvents[3].kind = "suspended"
      /\ Len(EntryEvents) = 3 /\ EntryEvents[3].kind = "suspended"
  BY DEF Event, StepEvents, EntryEvents, SuspendedStep
<1>3. EndsWith(<<Started>>, "started")
  BY <1>1, EventTypes DEF EndsWith
<1>4. EndsWith(<<ResumedClient>>, "resumed")
  BY <1>1, EventTypes DEF EndsWith
<1>5. EndsWith(<<SuspendedClient>>, "suspended")
  BY <1>1, EventTypes DEF EndsWith
<1>6. EndsWith(StepEvents, "suspended")
  BY <1>2, EventTypes DEF EndsWith
<1>7. EndsWith(EntryEvents, "suspended")
  BY <1>2, EventTypes DEF EndsWith
<1> QED
  BY <1>3, <1>4, <1>5, <1>6, <1>7

LEMMA LastOfHit ==
  ASSUME NEW l \in Lines
  PROVE  EndsWith(HitEvents(l) \o EntryEvents, "suspended")
<1> DEFINE es == HitEvents(l) \o EntryEvents
<1>1. Len(es) = 6 /\ es[6].kind = "suspended"
  BY DEF Event, HitEvents, EntryEvents, SuspendedStep
<1>2. es \in Seq(Events)
  BY EventTypes
<1> HIDE DEF es
<1>3. EndsWith(es, "suspended")
  BY <1>1, <1>2 DEF EndsWith
<1> QED
  BY <1>3 DEF es

Ends == at' \in {"exited", "aborted"}
Silent == UNCHANGED <<at, debuggerStates, events>>
TellsStarted ==
  at = "accepted" /\ at' = "run" /\ UNCHANGED debuggerStates /\ Tells("started")
TellsStopped == at' = "parse" /\ Tells("suspended") /\ UNCHANGED debuggerStates
TellsResumed ==
  /\ at = "parse" /\ at' = "run" /\ debuggerStates' = "CONTINUING"
  /\ Tells("resumed")
TellsStepped ==
  /\ at = "parse" /\ at' = "run" /\ debuggerStates' = "STEPPING"
  /\ Tells("suspended")
Quits ==
  /\ at = "parse" /\ requests # <<>> /\ Head(requests).verb = "quit"
  /\ at' = "run" /\ UNCHANGED events

TellsItAll ==
  Ends \/ Silent \/ TellsStarted \/ TellsStopped \/ TellsResumed \/ TellsStepped
  \/ Quits

LEMMA EmitTells ==
  ASSUME connected, NEW es, Emit(es), NEW kind, EndsWith(es, kind)
  PROVE  Tells(kind)
BY DEF Emit, Tells

LEMMA ExecuteTells ==
  ASSUME connected, NEW cmd, Execute(cmd), requests # <<>>
  PROVE  TellsItAll
<1>1. CASE DoQuery(cmd) \/ DoBreak(cmd) \/ DoClear(cmd) \/ DoSilent(cmd)
             \/ DoUnknown(cmd)
  BY <1>1 DEF DoQuery, DoBreak, DoClear, DoSilent, DoUnknown, TellsItAll, Silent
<1>2. CASE DoSuspend(cmd)
  <2>1. Tells("suspended")
    BY <1>2, EmitTells, LastKinds DEF DoSuspend
  <2> QED
    BY <1>2, <2>1 DEF DoSuspend, Receive, TellsItAll, TellsStopped
<1>3. CASE DoStep(cmd)
  <2>1. Tells("suspended")
    BY <1>3, EmitTells, LastKinds DEF DoStep
  <2> QED
    BY <1>3, <2>1 DEF DoStep, Receive, TellsItAll, TellsStepped
<1>4. CASE DoResume(cmd)
  <2>1. Tells("resumed")
    BY <1>4, EmitTells, LastKinds DEF DoResume
  <2> QED
    BY <1>4, <2>1 DEF DoResume, Receive, TellsItAll, TellsResumed
<1>5. CASE DoQuit(cmd)
  BY <1>5 DEF DoQuit, Receive, TellsItAll, Quits
<1>6. CASE DoPopData(cmd) \/ DoNoWord(cmd)
  BY <1>6 DEF DoPopData, DoNoWord, Dies, TellsItAll, Ends
<1> QED
  BY <1>1, <1>2, <1>3, <1>4, <1>5, <1>6 DEF Execute

(* Whatever ldb does while the peer listens, its mode changes in step with *)
(* its last event; only the console's quit goes on without a word.         *)
LEMMA LdbNextTells ==
  ASSUME connected, LdbNext
  PROVE  TellsItAll
<1>1. CASE Start
  <2>1. Tells("started")
    BY <1>1, EmitTells, LastKinds DEF Start
  <2> QED
    BY <1>1, <2>1 DEF Start, TellsItAll, TellsStarted
<1>2. CASE Finish \/ Fail \/ SendFails \/ Killed
  BY <1>2 DEF Finish, Fail, SendFails, Killed, TellsItAll, Ends
<1>3. ASSUME NEW s \in Sources, NEW l \in Lines, Pass(s, l)
      PROVE  TellsItAll
  BY <1>3 DEF Pass, wire, TellsItAll, Silent
<1>4. ASSUME NEW s \in Sources, NEW l \in Lines, StopAtBreakpoint(s, l)
      PROVE  TellsItAll
  <2>1. Emit(HitEvents(l) \o EntryEvents)
    BY <1>4 DEF StopAtBreakpoint
  <2>2. Tells("suspended")
    BY <2>1, EmitTells, LastOfHit
  <2> QED
    BY <1>4, <2>2 DEF StopAtBreakpoint, TellsItAll, TellsStopped
<1>5. ASSUME NEW s \in Sources, NEW l \in Lines, StopAtStep(s, l)
      PROVE  TellsItAll
  <2>1. Tells("suspended")
    BY <1>5, EmitTells, LastKinds DEF StopAtStep
  <2> QED
    BY <1>5, <2>1 DEF StopAtStep, TellsItAll, TellsStopped
<1>6. CASE Parse
  BY <1>6, ExecuteTells DEF Parse
<1>7. ~PeerClosed
  BY DEF PeerClosed
<1> QED
  BY <1>1, <1>2, <1>3, <1>4, <1>5, <1>6, <1>7 DEF LdbNext, HookLine

(* Only the peer closes its end of the sockets.                            *)
LEMMA LdbKeepsConnected ==
  ASSUME LdbNext
  PROVE  UNCHANGED connected
<1>1. ASSUME NEW cmd, Execute(cmd)
      PROVE  UNCHANGED connected
  BY <1>1 DEF Execute, DoQuery, DoSuspend, DoBreak, DoClear, DoStep, DoResume,
              DoQuit, DoSilent, DoUnknown, DoPopData, DoNoWord, Dies, Receive
<1>2. CASE HookLine
  BY <1>2 DEF HookLine, Pass, StopAtBreakpoint, StopAtStep, wire
<1> QED
  BY <1>1, <1>2
     DEF LdbNext, Start, Finish, Fail, Parse, PeerClosed, SendFails, Killed, wire
=============================================================================
