-------------------------- MODULE AssociativeTable --------------------------
(* What a Lua table promises: a value for every key, and a traversal that  *)
(* gives every field once, whatever fields are changed or cleared while it *)
(* is under way. Assigning to an absent field gives the traversal up.      *)

CONSTANTS Keys, Values,
          Nil,  \* the absent value, and the key that a traversal starts with
          None  \* no traversal is under way

VARIABLES content, \* the value of each key
          last,    \* the key the traversal gave last
          seen     \* the keys it has given
vars == <<content, last, seen>>

Present == {k \in Keys : content[k] # Nil}

Init == content \in [Keys -> Values \cup {Nil}] /\ last = None /\ seen = {}

Assign ==
  LET changed == {k \in Keys : content'[k] # content[k]}
  IN \E k \in Keys :
       /\ changed \subseteq {k} /\ content'[k] \in Values \cup {Nil}
       /\ IF k \in Present THEN UNCHANGED <<last, seen>> ELSE last' = None /\ seen' = {}

Start == last = None /\ last' = Nil /\ UNCHANGED <<seen, content>>

Give(k) ==
  /\ last' = k /\ seen' = seen \cup {k} /\ UNCHANGED content
  /\ last # None /\ k \in Present \ seen

End ==
  /\ last # None /\ Present \subseteq seen
  /\ last' = None /\ seen' = {} /\ UNCHANGED content

Next ==
  \/ Start \/ End \/ Assign
  \/ \E k \in Keys : Give(k)

Spec == Init /\ [][Next]_vars
=============================================================================
