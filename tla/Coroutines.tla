----------------------------- MODULE Coroutines -----------------------------
(* What calls, protected calls and coroutines promise a Lua program. Every *)
(* coroutine has a stack of what is under way in it: Lua functions, and    *)
(* the C calls between them that a yield cannot cross. An error goes to    *)
(* the innermost protected call of its coroutine, or ends the coroutine.   *)
EXTENDS Naturals, SequencesExt

CONSTANTS Threads, Main,
          MaxCCalls, ExtraCCalls, \* nested C calls, and more to handle an error
          MaxCalls                \* nested calls

VARIABLES chain, \* who resumed whom: the first is Main, the last is running
          acts,  \* what is under way in each
          told,  \* what the running function has learned last
          raised \* the error that is under way, or "none"
vars == <<chain, acts, told, raised>>

Protected == {"pcall", "xpcall"}
Boundaries == Protected \cup {"call", "hook", "handler"}

(* A state as a value: chain, acts, told, raised.                          *)
Running(s) == Last(s.chain).thread
Acts(s) == s.acts[Running(s)]
Doing(s, list) == [s EXCEPT !.acts = [t \in DOMAIN @ |-> IF t = Running(s) THEN list ELSE @[t]]]
Push(s, kind) == Doing(s, Append(Acts(s), kind))
CLevels(s) == Len(SelectSeq(Acts(s), LAMBDA a : a \in Boundaries))
Tell(s, what, msg) == [s EXCEPT !.told = <<what, msg>>]
Guards(s) == LET a == Acts(s) IN {i \in DOMAIN a : a[i] \in Protected}
Innermost(s) == LET g == Guards(s) IN CHOOSE i \in g : \A j \in g : j <= i
HasHandler(s) == Guards(s) # {} /\ Acts(s)[Innermost(s)] = "xpcall"
Deep(s) == 2 * Len(Acts(s)) + 4 >= MaxCalls

(* The outcomes of an error, of a C call and of a call: a call may find no *)
(* room when the stack is deep.                                            *)
Raise(s, msg) == {[s EXCEPT !.raised = msg]}
Unwind(s, msg) ==
  LET dead == [Doing(s, <<>>) EXCEPT !.chain = Front(@)]
  IN CASE Guards(s) # {} ->
            {Tell(Doing(s, SubSeq(Acts(s), 1, Innermost(s) - 1)), "false", msg)}
       [] Guards(s) = {} /\ Last(s.chain).how = "resume" -> {Tell(dead, "false", msg)}
       [] OTHER -> Raise(dead, msg)
NoRoom(s) == IF Deep(s) THEN Raise(s, "stack overflow") \cup Unwind(s, "handling") ELSE {}
Into(s, kind, what, msg) ==
  LET inside == Push(s, kind)
      n == CLevels(inside)
  IN CASE n = MaxCCalls -> Raise(inside, "C stack overflow")
       [] n >= MaxCCalls + ExtraCCalls -> Unwind(inside, "handling")
       [] OTHER -> {Tell(Push(inside, "lua"), what, msg)} \cup NoRoom(inside)
-----------------------------------------------------------------------------
Now == [chain |-> chain, acts |-> acts, told |-> told, raised |-> raised]
Becomes(outcomes) ==
  \E s \in outcomes :
    chain' = s.chain /\ acts' = s.acts /\ told' = s.told /\ raised' = s.raised
Does(outcomes) ==
  /\ raised = "none" /\ Acts(Now) # <<>>
  /\ Becomes(outcomes \cup NoRoom(Now))

Status(t) ==
  CASE t = Running(Now) -> "running"
    [] t # Running(Now) /\ \E i \in DOMAIN chain : chain[i].thread = t -> "normal"
    [] OTHER -> IF acts[t] = <<>> THEN "dead" ELSE "suspended"

Call == Does({Tell(Push(Now, "lua"), "entered", "none")})
CCall(kind) == Does(Into(Now, kind, "entered", "none"))
Hook == "hook" \notin Range(Acts(Now)) /\ CCall("hook")
Error == Does(Raise(Now, "error"))

(* Back to the caller, to who called from C, or to who resumed.            *)
Back(s, msg) ==
  Tell([s EXCEPT !.chain = Front(@)], IF Last(s.chain).how = "resume" THEN "true" ELSE "returned", msg)
Return ==
  LET rest == Doing(Now, Front(Acts(Now)))
      popped == Doing(rest, Front(Acts(rest)))
  IN /\ Acts(Now) # <<>>
     /\ Does(CASE Acts(rest) = <<>> -> {Back(rest, "none")}
                  [] Acts(rest) # <<>> /\ Last(Acts(rest)) = "lua" -> {Tell(rest, "returned", "none")}
                  [] Acts(rest) # <<>> /\ Last(Acts(rest)) \in {"call", "hook"} -> {Tell(popped, "returned", "none")}
                  [] Acts(rest) # <<>> /\ Last(Acts(rest)) \in Protected -> {Tell(popped, "true", "none")}
                  [] OTHER -> Unwind(rest, "handled"))

Refused(how, msg) == IF how = "resume" THEN {Tell(Now, "false", msg)} ELSE Raise(Now, msg)
Resume(co, how) ==
  Does(CASE Status(co) = "suspended" ->
                 {Tell([Now EXCEPT !.chain = Append(@, [thread |-> co, how |-> how])], "resumed", "none")}
            [] Status(co) = "dead" -> Refused(how, "dead")
            [] OTHER -> Refused(how, "dead") \cup Refused(how, "non-suspended"))
Yield ==
  Does(IF CLevels(Now) > 0 THEN Raise(Now, "yield") ELSE {Back(Now, "yielded")})

(* An error under way goes to the handler, or to who protected the call.   *)
Handle ==
  /\ raised # "none"
  /\ LET s == [Now EXCEPT !.raised = "none"]
     IN Becomes(IF HasHandler(s) THEN Into(s, "handler", "handles", raised) ELSE Unwind(s, raised))

Init ==
  /\ chain = <<[thread |-> Main, how |-> "resume"]>>
  /\ acts = [t \in Threads |-> IF t = Main THEN <<"pcall", "lua">> ELSE <<"lua">>]
  /\ told = <<"entered", "none">> /\ raised = "none"

Next ==
  \/ Call \/ Hook \/ Error \/ Return \/ Yield \/ Handle
  \/ \E kind \in Protected \cup {"call"} : CCall(kind)
  \/ \E co \in Threads \ {Main}, how \in {"resume", "wrap"} : Resume(co, how)

Spec == Init /\ [][Next]_vars
=============================================================================
