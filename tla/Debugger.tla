------------------------------ MODULE Debugger ------------------------------
(***************************************************************************)
(* What a line debugger promises, without sockets, vectors or a parser: a  *)
(* program moves from line to line and is either running or stopped; it    *)
(* stops at every line it reaches that carries a breakpoint of the source  *)
(* it is in, or at every line when stepping, and at no other; it stays     *)
(* where it is while stopped; breakpoints change one at a time, only while *)
(* stopped, and only in the source the program is stopped in.              *)
(***************************************************************************)
EXTENDS Integers

CONSTANTS Sources, Lines, BreakLines, Main, Nowhere

VARIABLES
  mode,      \* "ready", "running", "stopped" or "over"
  stepping,  \* whether the next line stops the program
  breaks,    \* the lines that carry a breakpoint, per source
  where      \* the source and line the program is at

vars == <<mode, stepping, breaks, where>>

Init ==
  /\ mode = "ready"
  /\ stepping = TRUE
  /\ breaks = [s \in Sources |-> {}]
  /\ where = <<Main, Nowhere>>

Launch == mode = "ready" /\ mode' = "running" /\ UNCHANGED <<stepping, breaks, where>>

MustStop(s, l) == stepping \/ l \in breaks[s]

Reach(s, l) ==
  /\ mode = "running"
  /\ where' = <<s, l>>
  /\ mode' = IF MustStop(s, l) THEN "stopped" ELSE "running"
  /\ UNCHANGED <<stepping, breaks>>

ChangeBreaks ==
  /\ mode = "stopped"
  /\ \E l \in BreakLines :
       \/ breaks' = [breaks EXCEPT ![where[1]] = @ \cup {l}]
       \/ breaks' = [breaks EXCEPT ![where[1]] = @ \ {l}]
  /\ UNCHANGED <<mode, stepping, where>>

Go ==
  /\ mode = "stopped"
  /\ mode' = "running"
  /\ stepping' \in BOOLEAN
  /\ UNCHANGED <<breaks, where>>

End ==
  /\ mode # "over"
  /\ mode' = "over"
  /\ UNCHANGED <<stepping, breaks, where>>

Next ==
  \/ Launch \/ ChangeBreaks \/ Go \/ End
  \/ \E s \in Sources, l \in Lines : Reach(s, l)

Spec == Init /\ [][Next]_vars
=============================================================================
