------------------------------ MODULE LuaHeap -------------------------------
(* The objects of a Lua state and the pointers between them.  h is the     *)
(* heap: a function from the slots of memory to the object in each.        *)
(* Proto objects, environments other than the globals and the registry are *)
(* left out: they hold pointers as closures and tables do.                 *)
EXTENDS Integers, Sequences, FiniteSets, SequencesExt

CONSTANTS Slots,      \* addresses, the main thread's and the globals' included
          Main,       \* the main thread
          Globals,    \* the table of globals (the registry is a second one)
          Registers,  \* 1..n, the stack of a thread
          Nil,        \* nil, and the null pointer
          Number      \* a value that is not collectable

ASSUME HeapAssumption ==
  /\ {Main, Globals} \subseteq Slots /\ Main # Globals
  /\ {Nil, Number} \cap Slots = {} /\ Nil # Number
  /\ IsFiniteSet(Slots)
  /\ IsFiniteSet(Registers) /\ Registers = 1..Cardinality(Registers)

(* flags are the table's own __mode ("k", "v") and __gc ("gc") fields: they *)
(* matter to the objects whose metatable it is.                             *)
NewTable(flags) == [tt |-> "table", flags |-> flags, meta |-> Nil, entries |-> <<>>]
NewUserdata == [tt |-> "userdata", meta |-> Nil, finalized |-> FALSE]
NewString(text) == [tt |-> "string", text |-> text]
NewFunction(upvals) == [tt |-> "function", upvals |-> upvals]
NewUpval(thread, level) ==
  [tt |-> "upval", open |-> TRUE, thread |-> thread, level |-> level, value |-> Nil]
(* resumed: the argument of coroutine.resume, on the stack while it waits. *)
NewThread == [tt |-> "thread", stack |-> [r \in Registers |-> Nil], resumed |-> Nil,
              openupval |-> <<>>]
Free == [tt |-> "free"]

TypeOf(h, s) == h[s].tt
IsA(h, v, tt) == v \in Slots /\ h[v].tt = tt
Allocated(h) == {s \in Slots : h[s] # Free}
Values == Slots \cup {Nil, Number}

(* uv->v points into a stack while the upvalue is open, then at its value. *)
UpvalValue(h, u) ==
  IF h[u].open THEN h[h[u].thread].stack[h[u].level] ELSE h[u].value

(* gfasttm(metatable, TM_MODE) and fasttm(metatable, TM_GC).               *)
Mode(h, t) == IF h[t].meta = Nil THEN {} ELSE h[h[t].meta].flags \cap {"k", "v"}
HasGc(h, u) == h[u].meta # Nil /\ "gc" \in h[h[u].meta].flags

(* Every pointer a program can follow from object s.                       *)
Held(h, s) ==
  Slots \cap
  CASE h[s].tt = "table" -> {h[s].meta} \cup DOMAIN h[s].entries \cup Range(h[s].entries)
    [] h[s].tt = "userdata" -> {h[s].meta}
    [] h[s].tt = "function" -> Range(h[s].upvals)
    [] h[s].tt = "upval" -> {UpvalValue(h, s)}
    [] h[s].tt = "thread" -> Range(h[s].stack) \cup {h[s].resumed, Globals}
    [] OTHER -> {}

(* Those that keep what they point at alive: all but the weak sides of a   *)
(* table's entries.  Strings are values and are never weak.                *)
Strong(h, s) ==
  IF h[s].tt # "table" THEN Held(h, s)
  ELSE LET e == h[s].entries
       IN  {v \in Held(h, s) :
              \/ v = h[s].meta \/ h[v].tt = "string"
              \/ v \in DOMAIN e /\ "k" \notin Mode(h, s)
              \/ v \in Range(e) /\ "v" \notin Mode(h, s)}

(* The elements of a list that are in a set, in its order.                 *)
Those(seq, S) ==
  FoldLeft(LAMBDA kept, s : IF s \in S THEN Append(kept, s) ELSE kept, <<>>, seq)

ReachableBy(h, Edges(_, _), roots) ==
  LET R[i \in 0..Cardinality(Slots)] ==
        IF i = 0 THEN roots
        ELSE LET r == R[i - 1] IN r \cup UNION {Edges(h, s) : s \in r}
  IN  R[Cardinality(Slots)]
=============================================================================
