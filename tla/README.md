# Verification of the Lua Eclipse IDE debugger

This directory holds TLA+ models of lua-eclipse-ide, the TLC configurations
that check them, and TLAPS proofs about them. The repository is an Eclipse
plug-in that edits and debugs Lua programs. The two halves of it that carry the
logic are a debug session between the Eclipse JVM and `open-ldb`, a C++ process,
and the Lua 5.1.2 interpreter that process is linked with: its compiler, virtual
machine, tables, coroutines and garbage collector run the debugged program, and
the line hook, the names and the variables ldb shows come out of them. Paths below are relative
to the repository; `UI` stands for `org.eclipse.debug.lua.ui/src`, `CORE` for
`org.eclipse.debug.lua.core/src` (the exact path of each file is in
`PROJECT.json`).

## 1. Inventory

| Component | State it keeps | Operations | What makes it hard |
|---|---|---|---|
| **ldb hook and command loop** (`open-ldb/LuaDebugger.cpp`: `main`, `HookRoutine`, `commandParser`) | `debuggerStates` (STEPPING, CONTINUING), `allScriptsBreakpoints` (a vector of lines per source), the current `ar->source`, `ar->currentline` | start, run to the next line, stop, one handler per command, finish, fail | only reads its socket while stopped; replies and events leave on two sockets; breakpoints belong to the source it is stopped in; a peer that goes away |
| **ldb printing** (`ideStackTrace`, `getGlobals`, `getLocalVarValue`, `stackDumpForIde`) | none | encode frames, globals and values on one line | boundaries of the encoding |
| **ldb source lines** (`readSourcefromStringBuffer`, `getFileLine`, `list`) | a vector of lines | split, list a range | ranges at the ends of the file |
| **Sockets** (`Socket.cpp`, `ServerSocket.cpp`; `java.net.Socket` in the IDE) | bytes in flight, open or closed | send, receive, accept | one receive returns whatever has arrived; two sockets are not ordered with respect to each other |
| **Debug target** (`PDADebugTarget`) | `fEventListeners`, `fTerminated`, the request socket and its monitor | `sendRequest`, `started`, `breakpointAdded/Removed/Changed`, `breakpointManagerEnablementChanged`, `terminated` | any IDE thread may send a request and waits inside the monitor |
| **Event dispatch job** (`PDADebugTarget.EventDispatchJob`) | the event being delivered | read an event, hand it to each listener | it sends requests itself while it handles `started` |
| **Thread** (`PDAThread`) | `fSuspended`, `fStepping`, `fBreakpoint`, `fVariables` | resume, step, suspend, frames, data stack, event handling | its flags trail ldb's state |
| **Line breakpoints** (`PDALineBreakpoint`, `PDAWatchpoint`, `PDARunToLineBreakpoint`) | `fTarget`, the platform marker | install, remove, hit | edited while the session starts and runs |
| **Frames and variables** (`PDAStackFrame`, `PDAVariable`, `PDAValue`, `PDAArray`) | decoded values | decode one reply | off-by-one in the table encoding |
| **Launch** (`PDALaunchDelegate`) | ports, the process | start ldb, connect two sockets | the second port listens later than the first |
| **Views, adapters** (UI) | what is painted | user actions become requests | — |
| **Lua editor** (UI) | text | colouring, indenting | sequential, on the platform's framework |
| **Lua garbage collector** (`lgc.c`, and of `lfunc.c`, `lstring.c`, `lstate.c`) | colours, `rootgc`, `sweepgc`, `gray`, `grayagain`, `weak`, `tmudata`, the phase | barriers, one step, full collection, finalizers, `close_state` | interleaved with the program at every allocation |
| **Lua compiler** (`lparser.c`, `lcode.c`) | `FuncState`: code, registers, jump lists, blocks, active variables | one pass from tokens to instructions | jump lists threaded through the code, registers counted as they are used |
| **Lua virtual machine** (`lvm.c`, and of `ldo.c`, `lfunc.c`, `ldebug.c`, `ltm.c`) | the stack, `ci`, `savedpc`, open upvalues, metatables and their flags | one case per instruction, calls, metamethods, the line hook, names for messages | `top` between instructions, upvalues, what a debugger reads back from code |
| **Lua calls and coroutines** (`ldo.c`, `lbaselib.c`) | per thread `ci`, `size_ci`, `nCcalls`, `status`, `errorJmp`; one C stack | call, pcall, xpcall, resume, yield, wrap, error | jumps over frames of several threads, two limits |
| **Lua tables** (`ltable.c`) | array part, node vector, `lastfree` | get, set, next, length, rehash | chains that share one vector, dead keys |
| **Lua lexer, loader, libraries** (`llex.c`, `lundump.c`, `lstrlib.c`, …) | — | characters and bytes to values and back | sequential |

How they interact: the launcher starts ldb and connects the *request* socket
and the *event* socket. ldb sends `started`; the dispatch job hands it to the
target, which installs the registered breakpoints and sends `resume`. ldb has
one thread: before every line the hook decides to go on or to stop, and a stop
is a loop that receives one command, acts on it and answers on the request
socket, while events go out on the other. The IDE's threads share the request
socket through the monitor in `sendRequest`, held from the command until a line
has been read back. The flags the user sees are set by the dispatch job.
Inside ldb, `main` loads the script with the compiler and runs it under a
protected call; the virtual machine calls `HookRoutine` at each new line, and
there ldb asks it for the stack (`lua_getstack`, `lua_getinfo`) and the locals
(`lua_getlocal`).

The properties that make each component correct:

- hook and command loop: it stops exactly where a line debugger must stop, and
  its vectors of breakpoints behave as sets; every command is answered once; it
  never waits for a peer that has gone; its events tell which mode it is in;
- sockets and `sendRequest`: a reply goes to who asked; no command is lost;
- target and dispatch: breakpoints registered before the launch are set before
  the program is let go; no installed breakpoint is lost; every stop becomes
  visible; nothing waits for ever on a stopped ldb;
- thread: once the events are delivered its flags are ldb's state; it knows the
  breakpoint it stopped at;
- frames and variables: decoding gives back what was encoded, a frame's number
  is ldb's level, and what is shown of a stop belongs to that stop;
- launch: both sockets get connected or the launch fails (planned);
- collector: nothing a program can reach is freed, what it cannot reach when the
  marking ends is, a finalizer runs once, weak entries go exactly with their
  objects;
- compiler and virtual machine together: a program does what it means, fails
  with the message it means at the line it means, is refused exactly when it
  has to be, and a debugger finds at every statement the stack, the lines, the
  names and the variables the program has there;
- calls: an error goes to the innermost protected call, the counters are the
  calls there are, a coroutine's status is what it is;
- tables: a partial function with a length that is a border and a traversal that
  gives every field once.

The places where this code is hard to test are listed under `hazards` in
`PROJECT.json`, each at its line with the properties that watch it.

## 2. The modules

    Wire                 the two sockets: commands, replies, events
     ├─ Ldb              the open-ldb process
     │   ├─ LdbClient    ldb with the most general peer  ──implements──> Debugger
     │   └─ LdbProofs    what every step of ldb preserves
     │       └─ LdbClientProofs   types; LdbClient implements Debugger; events
     └─ PdaTarget        debug target, dispatch job, thread, breakpoints
    DebugSession         Ldb and PdaTarget joined by Wire
     └─ DebugSessionProofs        types; replies go to who asked; the IDE shows what ldb
                                  is; no installed breakpoint is lost; breakpoints come
                                  before the resume
    LuaValues            the texts of frames, locals and globals, both ends
     └─ Display          reading them while the program moves on

    LuaHeap              objects and the pointers between them
     └─ LuaGc            the collector, between the steps of a program
         └─ LuaGcLemmas         its invariant; lists, writes, marking, barriers
             └─ LuaGcProofs     sweep, actions; nothing reachable is freed
    LuaProto             values, instructions, prototypes, the code checker
     └─ LuaCompiler      parser and code generator
         └─ LuaAst       programs as trees, and their tokens
             ├─ LuaV          the virtual machine
             ├─ LuaMeaning    what a tree means, without a machine
             └─ LuaCode       LuaV against LuaMeaning
    LuaCalls             calls, errors, coroutines  ──implements──> Coroutines
     └─ LuaCallsProofs   jumps and counters fit the C stack, for all limits
    LuaTable             array and hash parts       ──implements──> AssociativeTable
     └─ LuaTableProofs   chains, rehash, traversal, border; it is that function
    FoldLemmas           inductions, folds and sequences, for LuaGcLemmas and LuaTableProofs
    MCLdb, MCSession, MCDisplay, MCLuaGc, MCLuaCode, MCLuaCalls, MCLuaTable
                         instances for TLC

**Wire.** `requests`, `replies` and `events` are the bytes in flight, one
element per line of text. `connected` falls when the IDE closes its end,
`closed` when ldb's process ends. The order inside a socket is kept; nothing
orders one socket with respect to the other. A command is its verb and, for
`break` and `clear`, a line; the arguments of other commands never decide
which branch ldb takes and are dropped. A reply carries, besides its text, the
command it answers; this is a ghost that the program does not have and only
the properties read.

**Ldb.** `at` is where the process is: both sockets accepted, running the
program, in the command loop, exited, aborted. The Lua program is any sequence
of lines of any of its sources, the first of them in the main chunk, since the
hook is set before the chunk is run: the hook action chooses the next line freely.
A command's handler is one step. This loses nothing: ldb has one thread, a
handler takes one batch of input and otherwise only appends to its two sockets
(`vector` and state changes are seen by nobody until the next command), and a
reader that is slow to take what was appended covers every later arrival.
`Receive` removes any non-empty prefix of what has arrived and acts on its
first command only, which is what `recv` and the cut at the first newline do.
Command words are matched by their prefix, so the model follows where a word
*lands*: `drop` on `display`, `pushdata` and `popdata` on `print`; `exit`,
`setvar` and `watch` nowhere. A `break` or `clear` whose word is no number, or 0
(`NoLine`), changes nothing and is not answered; one without a word (`NoWord`, which
the IDE never sends) ends the process, since `atoi` is given the null pointer before
the test for it (`DoNoWord`), as `popdata` ends it in `strcmp` (`DoPopData`). The string stream that collects an event is not
emptied between the two sends of a stop, so the first event of a pair goes out
twice (`EntryEvents`, `HitEvents`, `StepEvents`). `SendFails` and `PeerClosed`
are the two things that can happen when the IDE is gone; `Killed` is the death
of the process at any moment.

**Debugger** is the abstract specification: what a line debugger promises,
with sets of lines instead of vectors and no sockets. `LdbClient` implements
it under the mapping `Mode`, `Stepping`, `Breaks`, `place`.

**PdaTarget.** Each IDE thread and the dispatch job have a program counter
(`idle`, `ready`, `lock`: waiting for the monitor, `reply`: inside the monitor
waiting for a line) and the list of requests their operation has left. The
guards of a user action are what the action's enablement asks (`canResume` and
so on); the request follows later, so a stale answer is possible, as it is in
the code. `started`, `breakpointChanged` and the manager's enablement are
sequences of requests in any order of the manager's array. `MarkerExists`
models the platform's rule that a deleted breakpoint's marker goes only after
the listeners were told; a marker that is gone reports line -1, which the code
sends to ldb (`NoMarkerLine`). The platform (breakpoint manager, process
monitor) is external and is modelled as `PDADebugTarget` uses it.

A query's reply is `AnswerValue`: as many lines as the printed value has, up to
`MaxReplyLines`, since ldb sends strings as they are and the IDE reads one line
per request. 1 means that no value has a newline; the runs of the session but one
and the theorems about them that need it take it to be 1, and `doc_reply_lines` shows what 2 does.

**LuaValues.** A text is a sequence of pieces: words, and the separators `|`,
`=`, `#`, `[`, `]` among them. ldb's side builds texts (`IdeStackTrace`,
`GetLocalVarValue`, `GetGlobals`), the IDE's side takes them apart
(`PDAStackFrame.init`, `PDAVariable.init`, on `Split`, which drops empty fields
at the end as `String.split` does). The oddities of the code are in it: a
boolean is read from another register (`Register`), a global of an unprintable
type empties the buffer, a name with a space is cut, entries with a newline are
skipped, a missing field is an exception (`CanDecode`), and a table's name comes
from the item two after its start marker.

**Display.** A reader asks for the stack, then for the globals once per frame,
and files each frame's variables in the thread's table `fVariables`; ldb may be
resumed and stop elsewhere between any two of these, and the events about it
are delivered later. A request and its reply are one step, which `DebugSession`
justifies (one request at a time, its reply to who asked). A frame is the key
it has in the code: its source's file name and its number, not its line
(`PDAStackFrame.equals`). `of` and `to` record the stop a frame and its globals
were read at, `row` the row of the view a value was asked for; they are ghosts.
There are three ways to name a function that runs: the row of the view it is shown
in, the identifier of its frame, which the IDE sends back in `var`, and the level
ldb gives to `lua_getstack` (`GetStack`). `FramesAreLevels` says that the three
lead to the same function, `ValuesAreTheLocals` that the value fetched over all
three is the local's of the row's function. The innermost function is first in all
of them, which two comments of the repository deny (`doc_frame_order`). The stacks have no tail calls. Display does not extend Ldb: it keeps of ldb
only that it is stopped with some stack and some globals, or runs.

**DebugSession** interleaves both, adds the bounds, the fairness and the
properties of the whole.

**LuaHeap, LuaGc.** The heap is a function from a few slots of memory to the
object in each; a slot is used again once it is freed, so that a pointer that
outlived its object is seen (`NothingDangles`). The program's steps (create,
store into a table, a register, an upvalue or a metatable, resume and leave a
coroutine, capture and close upvalues) and the collector's (`SingleStep` by
phase: mark, atomic, sweep of the strings, sweep of the rest, finalizers) are interleaved freely:
the debt that decides when a step is due is left out, so every schedule the
allocator could produce is there. A coroutine that runs is held by the thread that
resumed it (`resumed`, the argument of `coroutine.resume`, which stays on the stack),
since `markroot` knows the main thread only. What is freed loses its mark where
the code frees it (`FreeObject`, `CloseOne`, `SweepBucket`). `called` and `doomed` are ghosts: which
finalizers ran, and what was unreachable when the marking ended. A repertoire is
what one program does (kinds of objects, flags of its tables, full collections,
closing): `MCLuaGc` chooses six, since their product is out of reach and the
lists of weak tables, of userdata and of upvalues do not meet.

**LuaProto, LuaCompiler.** Instructions and prototypes are records; a number is
a fraction, so that division, not-a-number and infinities are those of the
language. The compiler is one operator per function of `lparser.c` and `lcode.c`
on a state that holds the stack of `FuncState`s, the tokens left and the
expression under way (`s.e`), with the same destructive jump lists threaded
through `JMP` instructions, register counts and constant folding. The
non-terminals call each other, so that they are defined through one recursive
operator, `Perform`, which takes the name of the non-terminal: TLA+ wants
recursive operators declared together and this is the shortest way to do it. The
limits (`MaxVars`, `MaxUpvalues`, `MaxStack`, `FieldsPerFlush`, `MaxIndexRK`)
are constants and are small in the run, so that they are met.

**LuaV.** The machine: one stack of values addressed from 0, frames with `func`,
`base`, `top`, `savedpc`, `nresults`, `tailcalls`, and one action per
instruction. An instruction that may call a metamethod is an operator that says
what state it reaches (`GetTable`, `SetTable`, `Arith`, `JoinFrom`, `EqualVal`,
`LessThan`, `LessEqual`); a frame's `then` is what its caller does when the
function is back, which in C is the rest of `callTMres` or of the instruction.
`flags` of a table remember that a fast metamethod is absent, as `Table.flags`
does. `hooks` collects at every call of the line hook what ldb could ask for:
for each level its kind, line, the name it was called by and its locals
(`Levels`, after `lua_getstack`, `lua_getinfo` and `lua_getlocal`). Three C
functions are there: `out` writes, `it` counts, `setmetatable` is that of
`lbaselib.c`.

**LuaAst, LuaMeaning, LuaCode.** A program is a tree. `LuaAst` lays it out as
tokens, one statement a line, which is where the compiler starts.
`LuaMeaning` evaluates the same tree by the reference manual over environments
and a store; it has no registers, jumps, stack or upvalues and shares with the
machine only arithmetic and equality. Its trace says what a debugger must show
at each statement. `LuaCode` compares the two: it is the abstract specification
of compiler and machine, evaluated instead of refined, since one statement is
many instructions.

**LuaCalls, Coroutines.** `LuaCalls` has of a program only its calls: Lua
functions, C functions that call back (`pcall`, `xpcall`, `foreach`,
metamethods, hooks), errors, error handlers, `resume`, `yield`, `wrap`,
`status`. `cstack` is the one C stack under all threads, on which an error jumps
back to a record of `luaD_rawrunprotected`; `told` is what the running Lua
function has been told last. `raised` is the message of an error that was raised
and not yet handled: `luaG_errormsg`, which runs the handler or jumps, is a step
of its own, and nothing else can happen before it. `top` is what `lua_gettop` finds
on the stack of a thread that does not run, nothing or something: one that waits in
`coroutine.resume` has its argument there, one that waits in a function of `wrap`
nothing, and `resume_error` leaves it empty, so that the second refused resume of a
thread that waits is told "dead" where the first was told "non-suspended"
(`ResumeError`). `Coroutines` has neither C stack nor counters: each
coroutine has a sequence of what is under way in it, and an error, a call past
a limit or a yield across a C call has the outcomes the manual gives it.

**LuaTable, AssociativeTable.** `LuaTable` keeps the array, the node vector with
its `next` links and `lastfree`, and the collision moves of `newkey` exactly;
keys are integers hashed by the words of their doubles and strings with
a hash that is chosen. A walk along a chain (`Walk`) is one function of the node it
starts at and the nodes it looks for (`With`: those of a key; `Dead`: those killed
by a collection), and a rehash counts the keys it may move by slices (`Candidates`,
`Nums`). A traversal may clear fields, and a collection may kill
the cleared keys. `AssociativeTable` is a function and the set of keys a
traversal has given.

## 3. The runs

| Run | Question | Bounds |
|---|---|---|
| `ldb` | does ldb implement the line debugger, with two sources, two lines, every verb of the IDE, repeated and absent breakpoints, `break` and `clear` with a word that is no number and with no word at all, `quit` and `list`, commands pipelined two deep, a peer that hangs up, a process killed anywhere; does each event tell the mode that was entered, and does ldb leave the command loop when the peer is gone? (`TypeOK`, `IsADebugger`, `EventsTellTheMode`, `NoOrphanWait`) | two commands on the wire, at most 2 entries per vector |
| `session_control` | two user threads that step, resume, suspend and read frames and variables against the dispatch job: do the flags settle on ldb's state, are the breakpoints set before the program runs, is a stopped ldb's answer always delivered, does every stop become visible, does the dispatch job end once ldb has gone, can the session deadlock? (`TypeOK`, `ModesAgree`, `SetBeforeRunning`, `StoppedAnswers`, `StopIsShown`, `JobEnds`) | one line, two frames, user acts with at most 2 unread events |
| `session_actions` | everything two users can do while the session starts and runs: breakpoints added, deleted, enabled, disabled and changed, the manager switched off and on, stepping and inspecting, the verbs ldb refuses, ignores or dies of: do replies go to who asked, is an installed breakpoint ever lost? (`RepliesMatch`, `InstalledIsSet`) | one line, two frames, 3 entries, user acts when no event is unread; 3,744,857 states |
| `display` | one reader against a program that stops twice with different stacks: are the rows of the view the functions that run, does the identifier of a row lead `lua_getstack` to its function, are the variables filed for a frame of the present stop its locals and the globals, is a value shown that of the local of its row? (`TypeOK`, `FramesAreLevels`, `VariablesAreTheFrames`, `ValuesAreTheLocals`) | 4 stacks of up to 3 frames, all lists of up to 2 of 10 globals, 2 stops |
| `lua_gc` | six kinds of programs against the collector, step by step: is anything reachable freed, does a black object ever point at a white one while a cycle marks, is every object on one list, is what was dead when the marking ended freed by the end of the cycle, does a finalizer run once, do weak entries go with their objects? (`TypeOK`, `NothingDangles`, `BlackToWhite`, `OneList`, `DoomedAreFreed`, `FinalizedOnce`, `WeakEntriesKept`) | 2 or 3 objects beside the main thread and the globals, 2 registers, one entry a table, one string; 698,985 states |
| `lua_code` | 4,207 small programs compiled and run: same output, results, error, line and variable named as the tree means (`SameOutcome`), the whole stack of functions, lines, names and variables at every statement (`StatementsAreHooked`), refused exactly when and where it must be (`RefusesExactly`), the compiler's own assertion (`CodeChecks`), the machine's own assertion (`TopIsTheFrames`), open upvalues only in live variables (`OpenIsActive`)? | `MaxVars` 7, `MaxStack` 16, `FieldsPerFlush` 2, `MaxIndexRK` 3, `MaxUpvalues` 3, `MaxTagLoop` 4; 102,029 states |
| `lua_calls` | a main program and two coroutines that call, protect, resume, yield, wrap and fail in any order, up to both limits and past them: does an error go to the innermost protected call, are the C calls counted those there are, are statuses right, is it `Coroutines`? (`TypeOK`, `JumpsGoToTheInnermost`, `CountersFitTheStack`, `StatusIsRight`, `IsCoroutines`) | 3 C calls and 2 more for errors, 8 frames, 3 to begin with; the coroutines are symmetric; 99,592 states |
| `lua_table` | assignments, constructors, traversals that clear fields, collections, lengths over keys that collide: does every key stay on its chain, does a rehash find room, is a length a border, is it a function? (`TypeOK`, `ChainsReach`, `RehashFits`, `LengthIsABorder`, `IsATable`) | four or five keys of which all strings collide, an array part of up to 4 (`MaxBits` 2), `MaxInt` 4 so that doubling passes it; 29,494 states |

Runs whose name starts with `doc_` check one sentence of the repository's own
documentation and find it violated by what the code does:

| Run | The sentence | What the code does |
|---|---|---|
| `doc_clear_answered` | `clear N` … reply is `ok` (`PDADebugElement.java:48`) | a clear that finds no breakpoint is not answered; its sender keeps the monitor |
| `doc_reply_lines` | waits for and returns the reply (`PDADebugElement.java:44`) | a value with a newline is a reply of two lines, of which one is read; later requests get the replies of earlier ones |
| `doc_frame_order` | stack frame id `0 is the bottom of the stack` (`PDAStackFrame.java:56`); the frames of `var N M` are `indexed from 0, 0 being the oldest` (`PDADebugElement.java:87`) | the frame with the id 0 is that of the function that runs (`PDAThread.java:93`); `var` sends this id (`PDAVariable.java:109`) and ldb takes it as a level of `lua_getstack`, which counts from the function that runs (`LuaDebugger.cpp:627`) |
| `doc_variables_current` | `Returns the current variables for the given stack frame` (`PDAThread.java:364`), cleared at a resume (`:320`) | a slow reader files the variables of an earlier stop after the table was cleared, over those of the present one |

Met while modelling, visible in the definitions named, not given a run:

- `suspend` does not suspend (`PDADebugElement.java:80`): a running ldb does not
  look at its request socket (`Runs`).
- "the breakpoint this thread is suspended at" (`PDAThread.java:36`) is
  forgotten: the stop is announced twice and the second announcement resets
  `fBreakpoint` (`EntryEvents`, `HitEvents`).
- The name of a table of globals is taken from "the next entry"
  (`PDAStackFrame.java:140`) after the next one: a table of one element is
  called `endglobaltable=endglobaltable` (`TableName`). `Showable` leaves such
  tables out of `VariablesAreTheFrames`.
- The code of `-nil`, `-true` or `-false` names a constant where `OP_UNM` takes a
  register (`luaK_prefix`, `lcode.c:702`, looks only for constants that are already
  in the table), so that `lua_assert(luaG_checkcode(f))` (`lparser.c:374`) fails
  for it. `CodeChecks` does in the model what the assertion says, and its run has
  no program with such a minus.
- The frames of `setvar N M V` are documented with "0 being the oldest" as well
  (`PDADebugElement.java:71`); ldb does not know the command (`DoUnknown`).
- "atoi returns 0 for null" (`LuaDebugger.cpp:1146`) is not so: a `break` or
  `clear` without a word ends the process (`DoNoWord`). The IDE sends none.
- A breakpoint added after the dispatch job has listed the manager's breakpoints
  and before the target is their listener is never set (`DispatchStarted`,
  `Listen`, `Notify`); `InstalledIsSet` speaks of breakpoints that were installed.
- `exit` is an unknown command and ends nothing (`PDADebugElement.java:60`;
  `DoUnknown`); `pushdata` lands on `print` and is not answered (`DoSilent`);
  `popdata` lands there without an argument and ends the process (`DoPopData`);
  ldb never sends `terminated` (`IPDAEventListener.java:22`).
- `break` may put a line in the vector twice and `clear` erases one entry, so a
  breakpoint that was changed while enabled survives its removal (`DoBreak`,
  `DoClear`, `Changed`).
- `suspended step`, documented as the completion of a step
  (`IPDAEventListener.java:32`), is sent before the line has run (`StepEvents`).
- A boolean local is shown with the truth of another register, and a boolean
  global with that of the running function's first local (`ScalarText`).
- A global of type userdata or thread makes every global before it disappear,
  and one whose value is the empty string ends the display of the frames
  (`GetGlobals`, `CanDecode`).
- The hidden variables of a numeric `for` are never found (`WordOf`).
- `ideStackTrace` calls every function without a known name `main`, and a lost
  tail call by the empty name (`LuaDebugger.cpp:579`).
- ldb runs the script by `lua_pcall(L, 0, 0, -3)` (`LuaDebugger.cpp:1617`): the
  index names the first slot of the stack, so that there is no error function
  and `debug.traceback` is never called (`LuaCalls!Init`).
- A flag of a table says that "tagmethod(p) is not present" (`lobject.h:340`).
  `luaV_settable` clears the flags, looks the metamethod up, which may set one
  again, and then stores the field. A table that is its own metatable and is
  given `__newindex` this way has the field and the flag: the tables it is the
  metatable of never call it, until a field of it is assigned again (`SetTable`,
  `Cached`; `m = {}; setmetatable(m, m); m.__newindex = f;
  u = setmetatable({}, m); u.x = 1`). Programs of this shape are not in the run.
- In the same function `t = tm` points into the metatable, and `luaH_set` of the
  next round may move its nodes when the metatable is its own `__newindex`: the
  call of a further handler then copies from freed memory. Not in the run either.
- `luaG_concaterror` blames the left operand unless it is a string
  (`ldebug.c:565`): in `1 .. t` the message is about the number (`JoinFrom`);
  the meaning leaves the name open there.
- The code of some deeper conditions with constants, such as
  `((1 or false) and true) or false`, leaves a wrong value; the run has constants
  at one level.
- `t[nil] = v` fails before `__newindex` is asked (`SetTable`).
- A coroutine made by `wrap` that is resumed while it runs or waits for another
  is called dead; "cannot call hooks inside a hook" is per thread, so that a
  hook that resumes a coroutine is hooked in it; nested resumes do not count
  towards `LUAI_MAXCCALLS`; after the first overflow the limit of frames becomes
  `LUAI_MAXCALLS` whatever the size was (`LuaCalls`).

**Bounds.** `Lines`, `Sources`, `Users` and the commands are small sets given
by `MCLdb` and `MCSession`; two lines and two sources, in `ldb`, are enough to tell "this
line" from "another" and "this source" from "another", which is all the
handlers compare. `session_actions` has one line, one thread that edits and one that
does not; that no breakpoint is lost with any number of lines is proved under the same
condition of one editor (`InstalledBreakpointsAreSet`). `MaxEntries` bounds
the vectors: with 3 entries a line is there more often than a `clear` erases; 2, in `ldb`, is the least on which `erase` of the first match
shows.
`MaxPipeline` 2 is the least at which a receive can swallow a second command.
`MaxUnread` and `MaxBacklog` only limit when the peer or the user *acts* (how
far events may lag at that moment, one stop being up to six events); they never
delay ldb or the dispatch job. `MaxFrames` 2 is the least at which a frame can
be popped. `MaxReplyLines` is 2 in `ldb`, where replies of several
lines change nothing, and in `doc_reply_lines`, and 1 elsewhere. `MaxStops` 2 is the least at which a
reader can hold something of an earlier stop. The four stacks of `MCDisplay`
have frames of one and of two sources, locals of every printable type, shadowed
names and a separator inside a string; the ten globals have a value of every
type, tables of no, one, two and three entries, an empty string and entries with
newlines; lists of two are enough because the encoding joins neighbours only.
A temporary register reads as false (`Temporaries`): it matters to booleans
alone, whose value no property of the run compares. In these runs all other
bounds sit in guards of the peer's or the user's actions.

In `lua_gc` two objects suffice for one to point at another across a phase, a
third is needed where a closure, its upvalue and the thread it was opened in are
three; `SweepMax` 1 splits a sweep at every object. In `lua_calls` 3 C calls are
a protected call inside another inside a hook, 2 more are one for the handler
and one past it, 8 frames are two doublings of 3 and an overflow. In `lua_table`
all strings have one hash and the integers those of their doubles, in nodes of
at most 8: every insert meets a chain that is its own or another key's.

The programs of `lua_code` are products of small sets, in families: every pair
of conditions under every `and`, `or`, `not` in every place a condition may
stand; every operator on every kind of operand, each of them a local, an upvalue,
a global, a field or a constant; captured variables in every kind of block and
way out of it; loops with every bound; calls with every number of arguments and
results, varargs, methods, recursion, tail calls; assignments with every pair of
targets; every metamethod with a method that answers, fails or is missing, on
either side; index and newindex chains, cycles, methods that come late; what the
parser must refuse, just inside and just outside each limit. The small limits
put most of these on a boundary: the fourth constant does not fit an operand,
three list items need two `SETLIST`s. The stack is one of fixed size: 60 slots
are more than any of them uses (`TypeOK`).

**Deadlock** is checked except in `session_actions`,
`lua_gc` (`lua_close` ends the state), `lua_code` and `lua_calls` (the program
ends). In the first a request that ldb does not answer (a second `clear`, `drop`,
`pushdata`) really does stop the session, since its sender keeps the monitor.
`doc_clear_answered` is that finding by itself. `Over` is the regular end of a
session; it stutters so that it is not taken for a deadlock.

**Fairness.** Assumed: weak fairness of ldb's own steps (`Start`, `Parse`,
`PeerClosed`, `Runs`: the operating system schedules the process, a receive
returns once there is something), of the dispatch job (the platform's job
manager runs a scheduled job), of the process monitor, and of a thread whose
reply has arrived (`readLine` returns). The job's own requests are weakly fair, which
says nothing while another thread holds the monitor or takes it whenever it is
free. Not assumed: that the user acts, that
the script ends, reaches a breakpoint or any particular line (`Runs` is fair as
a whole, so a program may loop between two lines), or that Java's monitor is
fair, which it does not promise. `StoppedAnswers` and `StopIsShown` need no
more than this. `JobEnds` therefore has a condition: once the users have come to
rest, so that the job does not lose the monitor to them again and again, it ends
after ldb has gone, wherever it was: in a request of its own, before one, with
events left to read, or after a reset of the socket.

**The mutants** in `PROJECT.json` are plausible errors in the code, each a
named operator beside the definition it replaces: a `break` without its check,
a hook that looks in the wrong vector, a `sendRequest` without its monitor, a
`started` that resumes before it installs, a listener that is not removed, a
lookup that does not answer, a barrier that is left out, a sweep that stops too
early, a break that forgets the upvalues, a limit tested after the fact, a
counter an error does not put back, a job that does not look for the end of the
events, a node moved without its chain.

## 4. The proofs

`LdbClientProofs!LdbIsADebugger` — `Spec => IsADebugger`: for every set of
sources and lines, every set of commands, and any bounds, the model of ldb
implements the abstract debugger. The argument is a refinement under `Mode`,
`Stepping`, `Breaks`: each step of ldb is matched by a step of `Debugger` or by
a stutter. The two lemmas that carry it are about the vectors:
`EraseFirstProperties` (erasing the first match is defined whenever the line
occurs, removes one entry, and as a set removes that line or nothing) and
`AppendedLines`. The type invariant (`ClientTypeCorrect`) is needed for the
domains of the vectors and for the hook's two-valued state.

`DebugSessionProofs!RepliesGoToWhoAsked` — `Spec => []RepliesMatch`, assuming
`MaxReplyLines = 1`: as long as no printed value has a newline, for any
number of IDE threads, whatever each asks for and whenever ldb dies, at most
one command or reply is on the request socket, and it belongs to the thread
inside the monitor. `RepliesMatch` is not inductive: it says nothing about a
free monitor, so a thread could enter while an old reply is still on the wire.
The strengthening `Exchange` says that nothing is under way while the monitor
is free, that exactly its holder is waiting for a reply, that what is under way
is the holder's request or the answer to it, that a thread at work has a
request left, and that a closed ldb has no command waiting. Its first half is
the part `OneAtATime`, which holds under the assumption only. Two facts make the
steps go through: ldb's step consumes what it received and writes at most one
reply, to the first command (`LdbNextUsesWire`), and each way out of the
monitor empties the socket (`EndOfExchange`). `TypeCorrect` comes from the same
invariant, without that assumption, since taking the head and tail of a thread's requests is typed only
because it has one.

`LdbClientProofs!TheEventsTellTheMode` — `Spec => EventsTellTheMode`, an action
property: after a step that ends in the command loop the last event sent is a
"suspended", after one that leaves it for the next breakpoint a "resumed". A
peer that takes events shortens the queue at its other end, so the last event
is the last of the queue or, when that is empty, the last one heard
(`TakingKeepsLast`). The invariant is `ToldOfStop`, the first half as a state
predicate: a step that stays in the loop must keep what it finds there.

`DebugSessionProofs!ViewsAgree` — `Spec => []ModesAgree`, without assumption on
replies or users. `ModesAgree` speaks of the moment when all events are
delivered. The strengthening `Told` says, while events are under way, that the
last of them tells the mode (`UnderWay`) and, when none is and the job reads
again, that `fSuspended` does (`Shown`). While the job works off `started` it
reads no event, so then a stop must still be under way (`StartsUntold`). Besides,
a process that was just accepted steps (`StartsStepping`), and the sockets live
as long as it does (`SocketsLive`).

`DebugSessionProofs!NoneIsLost` — `Spec => []InstalledSomewhere`, assuming
`MaxReplyLines = 1` and `OneEditor`; for one source file it is the checked
`InstalledIsSet` (`InstalledBreakpointsAreSet`). Two invariants carry it.
`Issued`: an idle thread has no requests, a terminated target is closed, and an
acknowledged `break` is in the vector of the source ldb is stopped in until the
reply is read (`BreaksAreSet`; here a reply of two lines would acknowledge the
wrong request). `Kept`: a listener's line is in a vector or being set or cleared
(`Listed`), only a thread that edits asks for a `clear` (`EditorsClear`), and a line
that is being cleared while registered is no listener any more
(`ClearedIsGone`). The assumptions are needed. With
two threads that edit, one deletes a breakpoint, the other adds it again and is
the first to enter the monitor: the `clear` that follows takes away what the
second installed. And `Sources = {Main}` is needed for `InstalledIsSet`, because a
`break` goes to the source ldb is stopped in and carries no file name; with more
files only "in the vector of some source" is true.

`DebugSessionProofs!BreakpointsComeFirst` — `Spec => []SetBeforeRunning`,
assuming `MaxReplyLines = 1` and `NoEditor`. The invariant `Launch` says that
either all wanted breakpoints are set in the main chunk, or ldb still steps and
the launch goes on: the job has not read `started`, which is the first event
(`Waiting`), or its remaining requests are any number of `break`s followed by
one `resume`, and each wanted line is set or among them (`Starting`,
`LetsGoLast`); nobody else has asked for a resume, because the thread is not
shown suspended (`Early`); and ldb's first stop is in the main chunk
(`FirstStop`). With a user who edits, which breakpoints are
wanted changes after the job has listed its requests; that case is covered by
`NoneIsLost` and by the run `session_actions`, which edits during the launch.

`LuaCallsProofs!ErrorsJumpToTheInnermost`, `CountersAreTheStacks`,
`StatusTellsTheTruth`, `TypeCorrect` — `Spec => []JumpsGoToTheInnermost`,
`[]CountersFitTheStack`, `[]StatusIsRight`, `[]TypeOK` for any
threads, any programs and any limits. None of the four is inductive: a step
that cuts the C stack (an error, a yield, the end of a call) sets the counters
from what a record had saved, so the invariant must say what every record saved,
and where in the CallInfo it stands. `Fine` (proved invariant as `StaysFine`) is

- `Nested`: the records of a coroutine lie above the `resume` that started it and
  below it there is none, so that a yield or a dead coroutine takes away all of
  them, and only the records of coroutines that it resumed lie between;
- `Saved`: a `pcall` record has the counters, the flag and the previous jump
  that are right for the stack below it, a `hook` record was pushed while no
  hook of the thread ran;
- `Counted`: the counters of a thread are right for the whole stack (`Counts`:
  the innermost jump, the number of calls, no hook, the innermost handler);
- `Levels`: every record has a level of its thread's CallInfo, which some
  function `v` gives; a machine owns the Lua functions between its level and the
  one below, a `pcall` cuts back to its own. Without it a machine that returns
  could take away an entry that is not its own;
- `Waiting`, `Idle`, `Alive`: a thread that resumed another is in the C function
  `resume` or `wrap`, a thread without a record is new, over, dead or, after a
  yield, has only Lua functions below its `yield`, and no record is of a dead one;
- `Limited`: between steps a counter of C calls is below the limit for errors.

`v` is an existential of the invariant, since the code keeps no such record; so
TLC does not evaluate `Fine`, and its parts were found by the proof. Each
operation of `ldo.c` has a lemma (`ThrowFine`, `DCallFine`, `YieldsFine`,
`AuxResumeFine`, `ResumeErrorFine`, ...) that from a `Ready` state it makes a `Fine`
one; `TopDoesNotMatter` says that none of it depends on `top`. In C an error that is raised runs its
handler, which may raise another, to any depth; `raised` makes each of these a
step, between which `Fine` holds too. `Counts` of a stack with one record
more or less is stated once for each kind of record (`CountsOfCall`,
`CountsOfPcall`, ...). The innermost protected call exists without an induction:
it is where the thread jumps, because nothing of a coroutine is below its resume.
`StatusIsRight` compares `luaB_costatus`, which looks at one thread, with the chain
of resumptions of `Coroutines`: `ChainIs` shows that the chain ends with the thread
of the topmost record (`Nested`) and has the threads with a `resume` record, and
`Waiting`, `Idle` and `Alive` say what the CallInfo of the others looks like.

`LuaGcProofs!NoDangling`, `NoBlackPointsToWhite`, `OneListEach`, `TypeCorrect` —
`Spec => []NothingDangles`, `[]BlackToWhite`, `[]OneList`, `[]TypeOK`, for any finite
memory, any registers, texts and repertoires, any step of the sweep and any bound on
the entries of a table. `NothingDangles` speaks of what can be reached and
`BlackToWhite` of one state of the cycle; neither is inductive. The invariant `IInv`
(`Invariance`) replaces reachability by a colour: an object is *live* when the sweep
under way would not free it (`Live`), and

- `Closed`: what a live object holds is live, and of a kind that may be there (a
  metatable is a table, a function has upvalues). `NothingDangles` follows, because
  the roots are live and what is reached from live objects is (`ReachedLive`);
- `UpvalsOK`: an open upvalue is in the list of its thread and in no other;
- `Placed`: every object is in `rootgc` or waits in `tmudata`, once, except
  strings (in their buckets) and open upvalues (with their threads); so whatever is
  freed can be unlinked and whatever is not freed is swept;
- `RootsLive`: so are the threads that resumed one another, each held by the one
  before it;
- `Lists`: `OneList`, and what can be black: never a thread or an open upvalue, which
  are written to without a barrier;
- `Cycle`, one part for each state: while marking, nothing is dead, everything gray
  waits in a list, and black objects hold nothing white (`Marking`); while sweeping,
  what the two cursors have passed has the current white (`SweptStrings`,
  `SweptList`), wherever a new object, a closed upvalue or a finalized userdata is
  linked meanwhile (`EnteredParts`); before the next cycle everything has
  (`AllSwept`): otherwise the flip of the white would make live objects dead.

Within one step of marking the colours pass through states `IInv` does not allow:
there `MarkInv` holds, with the objects being traversed and a stage 0 to 3, the
three waves of `atomic` (gray upvalues, weak tables, `grayagain`). `propagateall`
empties its list in as many rounds as there are objects because each takes
something from `Work`, the white and the listed objects. After `marktmu` and
`cleartable` every pointer of a marked object leads to a marked object
(`MarkedUp`), which is what `Closed` says once the white is flipped
(`Flipped`). A heap with fewer weak entries and more finalized userdata is
`Lessened`; `Less...` says what it keeps. Each action has a lemma in `LuaGcProofs`
(`EntrySet`, `FunctionCreated`, `CoroutineResumed`, `MarkingEnds`, `ListSwept`,
`StateClosed`, ...). TLC checked `IInv` as an invariant of the instance of `lua_gc`
before it was proved.

The proof corrected the model. Until then `resumed` was missing, and the step from
`Resume` could not be proved: a coroutine that was resumed by another may lose its
last reference when the variable that held it is overwritten through an upvalue, and
be collected while it waits. The model with one object more than in `lua_gc` does that
after 14 steps; the code does not, since its stack has the argument of `resume`
(`lbaselib.c:508`).

`LuaTableProofs!ImplementsAssociativeTable`, `KeysAreReached`, `RehashMakesRoom`,
`LengthIsRight`, `TypeCorrect` — `Spec => IsATable`, `[]ChainsReach`, `[]RehashFits`,
`[]LengthIsABorder`, `[]TypeOK`: everything the run `lua_table` checks, for any finite
set of keys, any hash of the strings and any words of the numbers, so for every way
keys can collide. The invariant `IInv` is

- `Sound(table)`, of which `Good` has the parts `Typed`, `Chained` (the links have one
  predecessor and no cycle; a node with a key is on the chain of its main position,
  whose own key belongs there; a free node is not linked; a key has one node that is
  not dead), `Filled` (no free node from `lastfree` on) and `Ahead` (a key that died
  and came back stands before its dead nodes);
- `Walked`: the key that `next` gave last still has a place, and the fields it has
  given are those whose place is not after it.

`Ahead` was found by the proof: `findindex` takes the first node of a key, dead or not,
and without it a traversal that set a field again would go on from the dead node. Chains
are first treated as pure links: `Reaches` is defined by the closed sets of nodes, so
that it needs no induction, `LinkedBehind` and `LinkedMoved` are the two ways `newkey`
links a node, and a walk ends at the node that comes first (`IsFirst`, which is unique:
`OneFirst`). `PutKeyIs` says of the three ways of `newkey` that they add a place
and change no field. A rehash
(`RehashIs`) is a fold of `Reinsert` over what it moves; its count never exceeds the
room because `computesizes` gives the size that `Best` names with the number of keys
that go there (`ComputeSizesIs`), and the fields, the new key and the places are counted
as sets (`CandidatesAre`, `FieldsCount`). `IsATable` follows from the order of the
elements: every field has one place, which `findindex` finds (`PlacesAre`), and
neither a store nor a collection moves one (`SameFind`). The border comes
from the invariant of the two loops that below the lower bound there is a field or 0,
and above none (`HalveIs`, `DoubleIs`): nothing is assumed of the holes.

The proof asked for two bounds the model had not named, now in `KeysAssumption`: a
constructor has at most 2^`MaxBits` items (2^26, `ltable.c:42`; a longer list would make an
array part longer than a rehash ever makes, whose last items `numusearray` does not
count), and the integer keys are at most `MaxInt`, since `luaH_getn` answers with an `int`
and a border beyond it has none.

These proofs contain inductions. `FoldLeft` is a function defined by recursion over
finite sets: that its equation has a solution (`FoldExists`) and what holds of
every index (`Induct`) follow from the well-foundedness of inclusion of finite
sets (`Minimal`, `Least`), which the library states without an operator as a
parameter (`FoldLemmas`). What a fold computes is then stated as a trace of its
intermediate states (`MarkAllSteps`, `PropagateAllSteps`, `CloseAllSteps`, `SweepSteps`,
`ResizeSteps`, ...). Likewise the walks and binary searches of a table are recursive
functions, not RECURSIVE operators, and `WalkExists` and `Iterates` show that their
equations have solutions.

Assumptions: the named ones in the modules, no more. The limits on calls are at
least 2 and a CallInfo begins no larger than the limit (8 of 20000, and 200 C
calls with 25 more: `lstate.h:32`, `luaconf.h:435`, `luaconf.h:467`, `ldo.c:373`). Lines are positive and
finitely many, the keys of tables are finitely many, 2^`MaxBits` is at most `MaxInt`, and nil and
the other markers are no keys or values (`KeysAssumption`), `Main` is a source, a value has at least one line, the dispatch job and the free-monitor token
are not user threads, the peer's commands are commands. The hypotheses
`MaxReplyLines = 1`, `OneEditor`, `NoEditor` and `Sources = {Main}` stand in the
theorems that need them and hold in the run that checks the same property.

`LdbProofs` states once, for any peer, what the proofs use of ldb: which step
can do what to the wire, the vectors and the mode.

Only model-checked:
- liveness: `StoppedAnswers`, `StopIsShown`, `JobEnds`, `NoOrphanWait`, and whatever rests on ENABLED;
- `LuaProto`, `LuaCompiler`, `LuaV` and `LuaMeaning`, which are
  recursive in RECURSIVE operators the prover does not take;
- of `LuaCalls`: `IsCoroutines`, since what a coroutine is doing is put together
  from the records of the stack (`ActsOf`, with `FlattenSeq`) and its C calls are
  counted by a selection of a sequence, neither of which the prover opens;
- `Display`: the pieces of a reply split at its separators, selected likewise;
- of `LuaGc`: `DoomedAreFreed`, `FinalizedOnce` and `WeakEntriesKept`. They say what
  must go, not what must stay: they need that marking reaches no more than
  the program could, an invariant about paths (`Reach`) rather than colours. That
  a finalizer is not missed rests besides on a userdata without `__gc` that was
  flagged once never coming back to the program, which holds since metatables are
  not values it can get (`getmetatable` is not modelled).

## 5. What is not modelled, and why

- **Console mode** of ldb (`-t ldb`): the same loop on `cin` and `cout`,
  without the IDE.
- **Sizes and formats of values**: ldb's fixed buffers, the cut at 63
  characters, the printing of numbers, and `stackDumpForIde` with the data stack
  view. In `DebugSession` a reply is one of three kinds.
- **`list`** and the lines of a source: planned.
- **Launch**: the model starts when both sockets are connected.
- **Java side termination**: the model has the flags and the end of the
  dispatch job (`JobEnds`); the null thread between `terminated` and `getThread` is planned.
- **`getGlobals` of the target** adds a listener at each call, and nothing in
  the repository calls it.
- **Views, editor**: painting and text on the platform's frameworks.
- **Collector**: byte accounting and the debt (any schedule is possible instead),
  resizing of stacks and of the string table, prototypes and environments.
- **Compiler**: characters (tokens are given), the power operator, the limit on
  nesting (`LUAI_MAXCCALLS`), a `SETLIST` whose number needs a word of its own,
  the size hints of `NEWTABLE`, debug information of a stripped chunk.
- **Virtual machine**: strings that are numbers, metatables of other values than
  tables, userdata, growth of the stack, the count hook, environments of
  functions. `CallBuiltin` is not in the repository: it is two functions a host
  might register.
- **Calls**: tail calls, yields inside hooks, C functions under `pcall` without a
  Lua function between, `LUA_ERRMEM`, the values passed.
- **Tables**: keys that are floats, booleans or objects, memory errors, "table
  overflow", the clearing of weak entries (in `LuaGc`). Metamethods are in `LuaV`.
- **String library, lexer, loader, other libraries**: pure conversions; `lstrlib`'s
  matcher is planned.

## 6. Plan

In this order; the first seven are done.

1. `Wire`, `Ldb`, `LdbClient`, `Debugger`: ldb and its abstract specification;
   type, refinement, events, the peer that goes; the proof of the refinement.
2. `PdaTarget`, `DebugSession`: the session; replies, modes, startup,
   breakpoints, visibility; the proof of `RepliesMatch`.
3. `LuaValues`, `Display`: encodings, frame numbers, `fVariables` and the
   requests of one display against a program that moves on.
4. `LuaHeap`, `LuaGc`: the collector against a program that changes the heap.
5. `LuaProto`, `LuaCompiler`, `LuaV`, `LuaMeaning`, `LuaCode`: compiler and
   machine against the meaning of programs, then the levels a debugger sees,
   then metatables.
6. `LuaCalls` and `LuaTable` with their abstract specifications.
7. Proofs of `EventsTellTheMode`, `ModesAgree`, `InstalledIsSet` and
   `SetBeforeRunning`, then of the invariants of `LuaCalls`, of `LuaGc` and of
   `LuaTable` with its refinement (done).
   Next: what the mark phase reaches, for `DoomedAreFreed`.
8. `Launch`: ports, the two accepts, the sleep of the launcher; abstract
   specification "both connected or the launch fails". `Termination`:
   `terminated`, `getThread`, the debug events sent to the platform.
9. `SourceLines` (the lines of a script and `list`'s ranges) and `Patterns`
   (`lstrlib.c`'s matcher) as pure functions, checked against reference
   definitions over bounded inputs.
10. Breakpoints in depth: moved markers, run-to-line, watchpoints.
