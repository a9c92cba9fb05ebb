------------------------------- MODULE Display --------------------------------
(***************************************************************************)
(* The frames and variables the IDE shows of a stopped program.  A reader  *)
(* (the launch view's event handler, the variables view, the hover of the  *)
(* editor) asks for the stack, then for the globals once per frame, and    *)
(* files each frame's variables in the thread's table fVariables, while    *)
(* the program may be resumed and stop elsewhere.  A request and its reply *)
(* are one step: the monitor of the request socket admits one at a time    *)
(* (DebugSession), and a request to a running ldb waits until it stops.  A *)
(* reply is one line here; values with newlines are DebugSession's.        *)
(***************************************************************************)
EXTENDS LuaValues, FiniteSets

CONSTANTS
  Readers,      \* the threads of the IDE that read frames
  Stacks,       \* the call stacks the program may stop with
  GlobalLists,  \* the global variables it may stop with, in lua_next order
  Temporaries,  \* how a temporary may read as a boolean
  MaxStops      \* bound: how many stops the program makes

ASSUME DisplayAssumption ==
  /\ MaxStops \in Nat \ {0}
  /\ Temporaries \subseteq BOOLEAN
  /\ \A s \in Stacks : Len(s) > 0

VARIABLES
  at,         \* ldb: "stopped" or "run"
  stops,      \* how many times it has stopped
  stop,       \* what it is stopped with: stack and a temporary's truth
  globals,
  events,     \* the events not yet delivered
  fSuspended, \* PDAThread
  fVariables, \* PDAThread: variables by frame, frames being equal by
              \* source and identifier
  pc,         \* per reader: "idle", "stack", "globals", "file"
  frames,     \* per reader: the frames of the reply, the outermost first
  next,       \* per reader: how many of them it has made
  made,       \* per reader: the variables of the frame being made
  shown,      \* per reader: the frames it got last, the innermost first
  value       \* per reader: the value it got last, of which row of shown

ldb == <<at, stops, stop, globals>>
thread == <<events, fSuspended, fVariables>>
reading == <<pc, frames, next, made>>
results == <<shown, value>>
vars == <<ldb, thread, reading, results>>

Nothing == [of |-> 0, row |-> 0, id |-> 0, name |-> <<>>, text |-> <<>>, entries |-> <<>>]
NoVariables == [of |-> 0, to |-> 0, line |-> "", vars |-> <<>>]

(* "of" is the stop a frame was read at, "to" that of its globals: ghosts. *)
Key(source, id) == [source |-> source, id |-> id]

Init ==
  /\ at = "stopped"
  /\ stops = 1
  /\ stop \in [stack : Stacks, temporary : Temporaries]
  /\ globals \in GlobalLists
  /\ events = <<>>
  /\ fSuspended = TRUE
  /\ fVariables = << >>
  /\ pc = [r \in Readers |-> "idle"]
  /\ frames = [r \in Readers |-> <<>>]
  /\ next = [r \in Readers |-> 0]
  /\ made = [r \in Readers |-> NoVariables]
  /\ shown = [r \in Readers |-> <<>>]
  /\ value = [r \in Readers |-> Nothing]
-----------------------------------------------------------------------------
(* ldb is resumed or stepped, and stops again, perhaps in other functions. *)
Go ==
  /\ at = "stopped" /\ stops < MaxStops
  /\ at' = "run"
  /\ events' = Append(events, "resumed")
  /\ UNCHANGED <<stops, stop, globals, fSuspended, fVariables, reading, results>>

Stop ==
  /\ at = "run"
  /\ at' = "stopped"
  /\ stops' = stops + 1
  /\ stop' \in [stack : Stacks, temporary : Temporaries]
  /\ events' = Append(events, "suspended")
  /\ UNCHANGED <<globals, fSuspended, fVariables, reading, results>>

(* PDAThread.handleEvent, resumed: the cached variables are cleared.       *)
Deliver ==
  /\ events # <<>>
  /\ events' = Tail(events)
  /\ fSuspended' = (Head(events) = "suspended")
  /\ fVariables' = IF Head(events) = "resumed" THEN << >> ELSE fVariables
  /\ UNCHANGED <<ldb, reading, results>>
-----------------------------------------------------------------------------
(* PDAThread.getStackFrames.                                               *)
GetStackFrames(r) ==
  /\ pc[r] = "idle" /\ fSuspended
  /\ pc' = [pc EXCEPT ![r] = "stack"]
  /\ UNCHANGED <<ldb, thread, frames, next, made, results>>

StackReply(r) ==
  /\ pc[r] = "stack" /\ at = "stopped"
  /\ pc' = [pc EXCEPT ![r] = "globals"]
  /\ frames' = [frames EXCEPT ![r] =
       LET data == Split(IdeStackTrace(stop), Hash)
       IN [i \in DOMAIN data |-> [of |-> stops, data |-> data[i]]]]
  /\ next' = [next EXCEPT ![r] = 0]
  /\ shown' = [shown EXCEPT ![r] = <<>>]
  /\ value' = [value EXCEPT ![r] = Nothing]
  /\ UNCHANGED <<ldb, thread, made>>

(* Mutant: the highest identifier is the number of frames.                  *)
IdentifierFromOne(r) == Len(frames[r]) - next[r]

(* Mutant: the frames are numbered in the order they arrive.                *)
IdentifierInOrder(r) == next[r]

(* The identifier of the next frame: the outermost has the highest.        *)
Identifier(r) == Len(frames[r]) - next[r] - 1

Data(r) == frames[r][next[r] + 1].data
Field(r, n) == Split(Data(r), Bar)[n][1]

(* new PDAStackFrame: the globals are asked for and appended; a reply that *)
(* cannot be taken apart ends getStackFrames with an exception.            *)
GlobalsReply(r) ==
  /\ pc[r] = "globals" /\ at = "stopped"
  /\ LET items == Split(GetGlobals(stop, globals), Bar)
     IN IF CanDecode(items)
          THEN /\ pc' = [pc EXCEPT ![r] = "file"]
               /\ made' = [made EXCEPT ![r] =
                    [of |-> frames[r][next[r] + 1].of, to |-> stops,
                     line |-> Field(r, 2),
                     vars |-> LocalVariables(Data(r)) \o GlobalsHeader
                                \o GlobalVariables(items)]]
               /\ UNCHANGED shown
          ELSE /\ pc' = [pc EXCEPT ![r] = "idle"]
               /\ shown' = [shown EXCEPT ![r] = <<>>]
               /\ UNCHANGED made
  /\ UNCHANGED <<ldb, thread, frames, next, value>>

(* fThread.setVariables, and the frame takes its place in the array.       *)
SetVariables(r) ==
  /\ pc[r] = "file"
  /\ LET frame == [source |-> Field(r, 1), line |-> Field(r, 2),
                   name |-> Field(r, 3), id |-> Identifier(r), of |-> made[r].of]
         key == Key(frame.source, frame.id)
     IN /\ fVariables' = [k \in DOMAIN fVariables \cup {key} |->
                            IF k = key THEN made[r] ELSE fVariables[k]]
        /\ shown' = [shown EXCEPT ![r] = <<frame>> \o @]
  /\ next' = [next EXCEPT ![r] = @ + 1]
  /\ pc' = [pc EXCEPT ![r] = IF next'[r] = Len(frames[r]) THEN "idle" ELSE "globals"]
  /\ UNCHANGED <<ldb, events, fSuspended, frames, made, value>>

(* PDAVariable.getValue of a local of a frame that is shown: getVariables  *)
(* finds the entry of an equal frame.                                      *)
GetValue(r) ==
  /\ pc[r] = "idle" /\ at = "stopped"
  /\ \E row \in DOMAIN shown[r] :
       LET frame == shown[r][row]
           key == Key(frame.source, frame.id)
       IN /\ key \in DOMAIN fVariables
          /\ \E i \in DOMAIN fVariables[key].vars :
               LET var == fVariables[key].vars[i]
                   reply == GetLocalVarValue(stop, frame.id, var.name[1])
               IN /\ var.kind = "local"
                  /\ CanDecodeValue(reply)
                  /\ value' = [value EXCEPT ![r] =
                       [of |-> fVariables[key].of, row |-> row, id |-> frame.id,
                        name |-> var.name, text |-> ShownValue(reply).text,
                        entries |-> ShownValue(reply).entries]]
  /\ UNCHANGED <<ldb, thread, reading, shown>>

Read(r) ==
  \/ GetStackFrames(r) \/ StackReply(r) \/ GlobalsReply(r) \/ SetVariables(r)
  \/ GetValue(r)

Next == Go \/ Stop \/ Deliver \/ \E r \in Readers : Read(r)

Spec == Init /\ [][Next]_vars
-----------------------------------------------------------------------------
TypeOK ==
  /\ at \in {"stopped", "run"} /\ stops \in 1..MaxStops
  /\ stop \in [stack : Stacks, temporary : Temporaries]
  /\ globals \in GlobalLists
  /\ \A i \in DOMAIN events : events[i] \in {"resumed", "suspended"}
  /\ fSuspended \in BOOLEAN
  /\ \A k \in DOMAIN fVariables : fVariables[k].of \in 1..stops
  /\ pc \in [Readers -> {"idle", "stack", "globals", "file"}]
  /\ \A r \in Readers :
       /\ next[r] \in 0..Len(frames[r])
       /\ pc[r] \in {"globals", "file"} => next[r] < Len(frames[r])
       /\ \A i \in DOMAIN shown[r] : shown[r][i].id \in 0..(Len(frames[r]) - 1)
       /\ value[r].of \in 0..stops

(* Texts that survive the encoding: not empty, no separator inside.        *)
Plain(text) == text # <<>> /\ \A i \in DOMAIN text : text[i] \notin Separators
PlainScalar(v) == v.type \in {"number", "string"} /\ Plain(v.text)
PlainEntries(v) == \A i \in DOMAIN v.entries :
                     Plain(PrintIt(v.entries[i].key)) /\ Plain(PrintIt(v.entries[i].value))

(* Globals the encoding can carry: a table needs a second entry.           *)
Showable(g) ==
  \/ g.value.type = "function"
  \/ PlainScalar(g.value)
  \/ g.value.type = "table" /\ Len(g.value.entries) > 1 /\ PlainEntries(g.value)

EntriesOf(name, v) ==
  [i \in DOMAIN v.entries |->
     Variable("entry", <<name, Open>> \o PrintIt(v.entries[i].key) \o <<Close>>,
              PrintIt(v.entries[i].value), <<>>)]

ReferenceGlobals ==
  LET kept == SelectSeq(globals, LAMBDA g : g.value.type # "function")
  IN [i \in DOMAIN kept |->
        IF kept[i].value.type = "table"
          THEN Variable("globaltable", <<kept[i].name>>, <<"global table">>,
                        EntriesOf(kept[i].name, kept[i].value))
          ELSE Variable("global", <<kept[i].name>>, kept[i].value.text, <<>>)]

ReferenceLocals(frame) ==
  [i \in DOMAIN frame.locals |->
     Variable("local", <<frame.locals[i].name>>, <<>>, <<>>)]

(* The frames of the present stop that a reader is shown.                  *)
UpToDate(r) == pc[r] = "idle" /\ shown[r] # <<>> /\ shown[r][1].of = stops
SameFrame(frame, activation) ==
  /\ frame.source = activation.source /\ frame.line = activation.currentline
  /\ frame.name = activation.name

(* The rows of the view are the functions that run, the running one first  *)
(* (ideStackTrace sends it last, LuaDebugger.cpp:560-565, getStackFrames   *)
(* turns the order round, PDAThread.java:91-94), and the identifier of a   *)
(* row, which the IDE sends back as the level of a request, is where       *)
(* lua_getstack finds the function of that row.                            *)
FramesAreLevels ==
  \A r \in Readers : UpToDate(r) =>
    /\ DOMAIN shown[r] = DOMAIN stop.stack
    /\ \A n \in DOMAIN shown[r] :
         /\ SameFrame(shown[r][n], stop.stack[n])
         /\ shown[r][n].id \in Levels(stop)
         /\ GetStack(stop, shown[r][n].id) = stop.stack[n]

(* The variables filed for a frame that was read within the present stop   *)
(* are its locals, the heading and the globals with their values and       *)
(* tables, in order, when the encoding can carry the globals               *)
(* (LuaDebugger.cpp:717-821, PDAStackFrame.java:65-180).                   *)
VariablesAreTheFrames ==
  \A k \in DOMAIN fVariables :
    /\ fVariables[k].of = stops /\ fVariables[k].to = stops
    /\ \A i \in DOMAIN globals : Showable(globals[i])
    => fVariables[k].vars = ReferenceLocals(stop.stack[k.id + 1])
                              \o GlobalsHeader \o ReferenceGlobals

(* The local a value was asked for in the frame of an activation, when its *)
(* name is its own there.                                                  *)
TheLocal(v, activation, l) ==
  LET locals == activation.locals
  IN /\ v.of = stops
     /\ l \in {locals[i] : i \in DOMAIN locals}
     /\ v.name = <<l.name>> /\ l.name # ForIndex
     /\ Cardinality({i \in DOMAIN locals : locals[i].name = l.name}) = 1

AllLocals == UNION {{s[n].locals[i] : i \in DOMAIN s[n].locals} :
                      s \in {stop.stack}, n \in DOMAIN stop.stack}

(* A number, a string or a table shown for a local in a row of the view is *)
(* that of the local of this name of the row's function, from the row to   *)
(* the identifier, the request, ldb's level and back                       *)
(* (LuaDebugger.cpp:621-696, PDAVariable.java:98-140).                     *)
ValuesAreTheLocals ==
  \A r \in Readers : \A l \in AllLocals :
    value[r].of = stops /\ TheLocal(value[r], stop.stack[value[r].row], l) =>
      /\ PlainScalar(l.value) =>
           value[r].text = l.value.text /\ value[r].entries = <<>>
      /\ l.value.type = "table" /\ l.value.entries # <<>> /\ PlainEntries(l.value) =>
           value[r].entries = EntriesOf(l.name, l.value)
-----------------------------------------------------------------------------
(* What comments of the debug model promise.                               *)

(* "stack frame id (0 is the bottom of the stack)" (PDAStackFrame.java:56),*)
(* and the "var N M" it is sent back in means "frame N (stack frames are   *)
(* indexed from 0, 0 being the oldest)" (PDADebugElement.java:86-87,       *)
(* PDAVariable.java:109): a frame's identifier counts from the function    *)
(* that was called first.                                                  *)
IdsCountFromTheOldest ==
  \A r \in Readers : UpToDate(r) =>
    \A n \in DOMAIN shown[r] :
      SameFrame(shown[r][n], stop.stack[Len(stop.stack) - shown[r][n].id])

(* "Returns the current variables for the given stack frame"               *)
(* (PDAThread.java:364), which are cleared when the program is resumed     *)
(* (PDAThread.java:320-321): the variables found for a frame of the        *)
(* present stop that is shown are those of its function, once the events   *)
(* are delivered.                                                          *)
VariablesAreCurrent ==
  \A r \in Readers : UpToDate(r) /\ at = "stopped" /\ events = <<>> =>
    \A n \in DOMAIN shown[r] :
      LET key == Key(shown[r][n].source, shown[r][n].id)
      IN key \in DOMAIN fVariables =>
           SelectSeq(fVariables[key].vars, LAMBDA var : var.kind = "local")
             = ReferenceLocals(stop.stack[n])
=============================================================================
