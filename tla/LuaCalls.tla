------------------------------ MODULE LuaCalls ------------------------------
(* Calls, protected calls, coroutines and hooks as ldo.c carries them out: *)
(* every thread has its CallInfo and its counters, all threads share one C *)
(* stack, on which an error jumps back to a record of luaD_rawrunprotected.*)
EXTENDS Naturals, FiniteSets, SequencesExt, TLC

CONSTANTS Threads, Main,
          MaxCCalls, ExtraCCalls, \* LUAI_MAXCCALLS and an eighth of it
          MaxCalls,               \* LUAI_MAXCALLS
          BasicCiSize,            \* BASIC_CI_SIZE
          Repertoires             \* the operations programs use, one is chosen
ASSUME LimitsAssumption ==
  /\ Main \in Threads
  /\ {MaxCCalls, ExtraCCalls, MaxCalls, BasicCiSize} \subseteq Nat \ {0, 1}
  /\ BasicCiSize <= MaxCalls

VARIABLES
  threads, \* lua_State: ci, size_ci, status, nCcalls, allowhook, errfunc, errorJmp, top
  cstack,  \* what C functions have under way, and of which thread
  told,    \* what the Lua function that runs has learned last
  raised,  \* the message of an error that luaG_errormsg is called with, or "none"
  does
vars == <<threads, cstack, told, raised, does>>

(* A state as a value.                                                     *)
Now == [threads |-> threads, cstack |-> cstack, told |-> told, raised |-> raised]
L(s) == Last(s.cstack).thread
State(s) == s.threads[L(s)]
Tell(s, what, msg) == [s EXCEPT !.told = <<what, msg>>]
PopC(s) == [s EXCEPT !.cstack = Front(@)]
(* luaG_runerror, lua_error: they end in luaG_errormsg, the step ErrorMsg. *)
Raise(s, msg) == [s EXCEPT !.raised = msg]

(* luaE_newthread, with the function that lua_xmove put in it.             *)
Fresh == [ci |-> <<"base">>, size_ci |-> BasicCiSize, status |-> "ok", nCcalls |-> 0,
          allowhook |-> TRUE, errfunc |-> FALSE, errorJmp |-> 0, top |-> 1]
-----------------------------------------------------------------------------
(* inc_ci, growCI: the CallInfo grows, and once more to handle an overflow.*)
Full(s) == Len(State(s).ci) = State(s).size_ci
Fits(s) == Full(s) => State(s).size_ci <= MaxCalls /\ 2 * State(s).size_ci <= MaxCalls
Grown(s) == IF Full(s) THEN [s EXCEPT !.threads[L(s)].size_ci = 2 * @] ELSE s
\* mutant: the next CallInfo is taken without a look at the size
IncCiInPlace(s, f) == [s EXCEPT !.threads[L(s)].ci = Append(@, f)]
IncCi(s, f) == [Grown(s) EXCEPT !.threads[L(s)].ci = Append(@, f)]
PopCi(s) == [s EXCEPT !.threads[L(s)].ci = Front(@)]

RestoreStackLimit(l) ==
  IF l.size_ci > MaxCalls /\ Len(l.ci) < MaxCalls THEN [l EXCEPT !.size_ci = MaxCalls] ELSE l

\* mutant: the counter of C calls stays where the error found it
CaughtCounting(l, r) ==
  RestoreStackLimit([l EXCEPT !.ci = SubSeq(@, 1, r.ci), !.allowhook = r.allowhook,
                              !.errfunc = r.errfunc])
(* luaD_pcall puts back what it saved.                                     *)
Caught(l, r) ==
  RestoreStackLimit([l EXCEPT !.ci = SubSeq(@, 1, r.ci), !.nCcalls = r.nCcalls,
                              !.allowhook = r.allowhook, !.errfunc = r.errfunc])

\* mutant: a thread that an error has ended keeps its status
DeadAlive(l) == l
(* lua_resume, after an error in the coroutine.                            *)
Dead(l) == [l EXCEPT !.status = "error"]

(* luaD_rawrunprotected: errorJmp is the record, which has the one before. *)
RunProtected(s, t, record) ==
  [s EXCEPT !.cstack = Append(@, [record EXCEPT !.previous = s.threads[t].errorJmp]),
            !.threads[t].errorJmp = Len(s.cstack) + 1]

(* luaD_throw, and what luaD_pcall, lua_resume and who called them do.     *)
Throw(s, msg) ==
  LET t == L(s)
      r == s.cstack[State(s).errorJmp]
      cut == [s EXCEPT !.cstack = SubSeq(@, 1, State(s).errorJmp - 1),
                       !.threads[t].errorJmp = r.previous]
      caught == [cut EXCEPT !.threads[t] = Caught(@, r)]
      dead == [cut EXCEPT !.threads[t] = Dead(@)]
  IN CASE r.k = "pcall" -> Tell(IF cut.cstack = <<>> THEN caught ELSE PopCi(caught), "false", msg)
       [] r.k = "resume" /\ r.how = "resume" -> Tell(PopCi(dead), "false", msg)
       [] OTHER -> Raise(dead, msg) \* lua_error of luaB_auxwrap

Overflow(s) == IF State(s).size_ci > MaxCalls THEN Throw(s, "handling")
               ELSE Raise(Grown(s), "stack overflow")

(* luaD_call of a Lua function: luaD_precall and a luaV_execute of its own.*)
Entered(s, n, what, msg) ==
  Tell([s EXCEPT !.cstack = Append(@, [k |-> "execute", thread |-> L(s), nexeccalls |-> n])], what, msg)
DCall(s, what, msg) ==
  LET in == [s EXCEPT !.cstack = Append(@, [k |-> "call", thread |-> L(s)]),
                      !.threads[L(s)].nCcalls = @ + 1]
      n == State(in).nCcalls
  IN CASE n = MaxCCalls -> Raise(in, "C stack overflow")
       [] n >= MaxCCalls + ExtraCCalls -> Throw(in, "handling")
       [] OTHER -> IF Fits(in) THEN Entered(IncCi(in, "lua"), 1, what, msg) ELSE Overflow(in)

-----------------------------------------------------------------------------
(* What C does when a luaV_execute has returned: s is without its record.  *)
\* mutant: the jump buffer of a call that is over stays
ProtectedEnds(s, r) == [PopC(s) EXCEPT !.threads[r.thread].errfunc = r.errfunc]
PcallReturns(s, r) ==
  [PopC(s) EXCEPT !.threads[r.thread].errfunc = r.errfunc, !.threads[r.thread].errorJmp = r.previous]
CallReturns(s0) ==
  LET s == PopC([s0 EXCEPT !.threads[L(s0)].nCcalls = @ - 1])
      r == Last(s.cstack)
      back == PcallReturns(s, r)
  IN CASE r.k = "pcall" -> Tell(IF back.cstack = <<>> THEN back ELSE PopCi(back), "true", "none")
       [] r.k = "hook" -> Tell([PopC(s) EXCEPT !.threads[r.thread].allowhook = TRUE], "returned", "none")
       [] r.k = "errormsg" -> Throw(PopC(s), "handled")
       [] OTHER -> Tell(IF Last(State(s).ci) = "lua" THEN s ELSE PopCi(s), "returned", "none")
(* auxresume moves the values out.                                         *)
ResumeReturns(s, msg) ==
  LET r == Last(s.cstack)
      back == [PopC(s) EXCEPT !.threads[r.thread].errorJmp = r.previous,
                              !.threads[r.thread].top = 0]
  IN Tell(PopCi(back), IF r.how = "resume" THEN "true" ELSE "returned", msg)
ExecuteReturns(s) ==
  LET c == PopC(s) IN IF Last(c.cstack).k = "resume" THEN ResumeReturns(c, "none") ELSE CallReturns(c)
-----------------------------------------------------------------------------
(* Steps of the Lua function that runs.                                    *)
Runs(op) == cstack # <<>> /\ raised = "none" /\ op \in does
Becomes(s) ==
  /\ threads' = s.threads /\ cstack' = s.cstack /\ told' = s.told /\ raised' = s.raised
  /\ UNCHANGED does

(* OP_CALL of a Lua function and of a C function, which goes on with body. *)
Call ==
  /\ Runs("call")
  /\ Becomes(IF ~Fits(Now) THEN Overflow(Now)
             ELSE Tell([IncCi(Now, "lua") EXCEPT !.cstack[Len(cstack)].nexeccalls = @ + 1], "entered", "none"))
CallC(f, body) == Runs(f) /\ Becomes(IF Fits(Now) THEN body ELSE Overflow(Now))

Return ==
  /\ cstack # <<>> /\ raised = "none"
  /\ LET s == PopCi(Now)
         n == Last(cstack).nexeccalls
     IN Becomes(IF n = 1 THEN ExecuteReturns(s)
                ELSE Tell([s EXCEPT !.cstack[Len(cstack)].nexeccalls = @ - 1], "returned", "none"))

(* luaB_pcall, luaB_xpcall.                                                *)
PcallRecord(s, ef) ==
  [k |-> "pcall", thread |-> L(s), ci |-> Len(State(s).ci), nCcalls |-> State(s).nCcalls,
   allowhook |-> State(s).allowhook, errfunc |-> State(s).errfunc, ef |-> ef, previous |-> 0]
DPcall(s, ef) ==
  DCall([RunProtected(s, L(s), PcallRecord(s, ef)) EXCEPT !.threads[L(s)].errfunc = ef], "entered", "none")
Pcall == CallC("pcall", DPcall(IncCi(Now, "pcall"), FALSE))
Xpcall == CallC("xpcall", DPcall(IncCi(Now, "xpcall"), TRUE))

(* A C function that calls back, such as table.foreach, and a metamethod.  *)
Foreach == CallC("foreach", DCall(IncCi(Now, "foreach"), "entered", "none"))
Metamethod == Runs("metamethod") /\ Becomes(DCall(Now, "entered", "none"))

(* luaD_callhook, with a hook of debug.sethook.                            *)
CallHook ==
  /\ Runs("hook") /\ State(Now).allowhook
  /\ Becomes(DCall([Now EXCEPT !.cstack = Append(@, [k |-> "hook", thread |-> L(Now)]),
                               !.threads[L(Now)].allowhook = FALSE], "entered", "none"))

Error == CallC("error", Raise(IncCi(Now, "error"), "error"))

(* luaB_yield, with a value that tells it from the end of the coroutine.   *)
Yields(s) ==
  IF State(s).nCcalls > 0 THEN Raise(s, "yield")
  ELSE ResumeReturns(PopC([s EXCEPT !.threads[L(s)].status = "yield"]), "yielded")
Yield == CallC("yield", Yields(IncCi(Now, "yield")))

(* luaB_coresume and luaB_auxwrap. top is whether lua_gettop of a thread   *)
(* that does not run is not 0: coroutine.resume keeps its first argument   *)
(* on the stack, the function of coroutine.wrap has none.                  *)
Passes(s, how) == [IncCi(s, how) EXCEPT !.threads[L(s)].top = IF how = "resume" THEN 1 ELSE 0]
GetTop(s, co) == s.threads[co].top
(* resume_error makes its message all the thread has on its stack, and     *)
(* auxresume moves it out, unless the thread is the one that resumes.      *)
ResumeError(s, co) == IF co = L(s) THEN s ELSE [s EXCEPT !.threads[co].top = 0]
Refused(s, how, msg) == IF how = "resume" THEN Tell(PopCi(s), "false", msg) ELSE Raise(s, msg)
\* mutant: one call of luaV_execute for the function that yielded only
StartShallow(s, co) ==
  IF s.threads[co].status = "yield"
  THEN Entered([s EXCEPT !.threads[co].status = "ok", !.threads[co].ci = Front(@)], 1, "resumed", "none")
  ELSE IF Fits(s) THEN Entered(IncCi(s, "lua"), 1, "resumed", "none") ELSE Overflow(s)
Start(s, co) == \* resume: of a new coroutine, or after a yield
  IF s.threads[co].status = "yield"
  THEN LET back == [s EXCEPT !.threads[co].status = "ok", !.threads[co].ci = Front(@)]
       IN Entered(back, Len(back.threads[co].ci) - 1, "resumed", "none")
  ELSE IF Fits(s) THEN Entered(IncCi(s, "lua"), 1, "resumed", "none") ELSE Overflow(s)
AuxResume(s, co, how) ==
  LET l == s.threads[co]
      record == [k |-> "resume", thread |-> co, how |-> how, previous |-> 0]
  IN CASE l.status = "ok" /\ GetTop(s, co) = 0 -> Refused(s, how, "dead")
       [] l.status = "error" -> Refused(ResumeError(s, co), how, "dead")
       [] l.status = "ok" /\ GetTop(s, co) # 0 /\ Len(l.ci) # 1 ->
            Refused(ResumeError(s, co), how, "non-suspended")
       [] OTHER -> Start(RunProtected(s, co, record), co)
Resume(co) == \E how \in {"resume", "wrap"} : CallC(how, AuxResume(Passes(Now, how), co, how))

(* luaG_errormsg calls the error handler, if there is one. Nothing else    *)
(* can be done after an error was raised.                                  *)
ErrorMsg ==
  /\ raised # "none"
  /\ LET s == [Now EXCEPT !.raised = "none"]
     IN Becomes(IF State(s).errfunc
                THEN DCall([s EXCEPT !.cstack = Append(@, [k |-> "errormsg", thread |-> L(s)])],
                           "handles", raised)
                ELSE Throw(s, raised))

(* lua_pcall of the main program (LuaDebugger.cpp).                        *)
Init ==
  LET main == [Fresh EXCEPT !.ci = <<"base", "lua">>, !.nCcalls = 1, !.errorJmp = 1]
      bottom == [k |-> "pcall", thread |-> Main, ci |-> 1, nCcalls |-> 0, allowhook |-> TRUE,
                 errfunc |-> FALSE, ef |-> FALSE, previous |-> 0]
  IN /\ threads = [t \in Threads |-> IF t = Main THEN main ELSE Fresh]
     /\ cstack = <<bottom, [k |-> "call", thread |-> Main],
                   [k |-> "execute", thread |-> Main, nexeccalls |-> 1]>>
     /\ told = <<"entered", "none">> /\ raised = "none"
     /\ does \in Repertoires

Next ==
  \/ Call \/ Return \/ Pcall \/ Xpcall \/ Foreach \/ Metamethod \/ CallHook \/ Error \/ Yield
  \/ ErrorMsg
  \/ \E co \in Threads \ {Main} : Resume(co)

Spec == Init /\ [][Next]_vars
-----------------------------------------------------------------------------
TypeOK ==
  /\ \A t \in Threads :
       LET l == threads[t]
       IN /\ l.ci[1] = "base" /\ Len(l.ci) <= l.size_ci
          /\ l.size_ci <= 2 * MaxCalls /\ l.nCcalls \in 0..(MaxCCalls + ExtraCCalls)
          /\ l.status \in {"ok", "yield", "error"} /\ l.top \in 0..1
          /\ l.allowhook \in BOOLEAN /\ l.errfunc \in BOOLEAN
  /\ cstack # <<>> /\ raised = "none" => Last(cstack).k = "execute" /\ Last(State(Now).ci) = "lua"
  /\ does \in Repertoires

RecordsOf(t) == {i \in DOMAIN cstack : cstack[i].thread = t}
RecordsAre(t, k) == {i \in RecordsOf(t) : cstack[i].k = k}
MaxOf(set) == CHOOSE i \in set : \A j \in set : j <= i

(* An error never jumps to a C function that has returned: the errorJmp of *)
(* a thread is its innermost record of luaD_rawrunprotected (ldo.c:111),   *)
(* and a thread that is not running has none.                              *)
JumpsGoToTheInnermost ==
  \A t \in Threads :
    LET records == RecordsAre(t, "pcall") \cup RecordsAre(t, "resume")
    IN threads[t].status # "error" =>
         threads[t].errorJmp = IF records = {} THEN 0 ELSE MaxOf(records)

(* The counters of a thread say what it has under way: nCcalls its C calls *)
(* (lua_yield relies on it), allowhook that no hook of it runs (ldo.c:193),*)
(* errfunc whether its innermost protected call has a handler. Those of a  *)
(* suspended one are what lua_resume asserts (ldo.c:439).                  *)
CountersFitTheStack ==
  \A t \in Threads :
    LET l == threads[t]
        pcalls == RecordsAre(t, "pcall")
    IN l.status # "error" =>
         /\ l.nCcalls = Cardinality(RecordsAre(t, "call"))
         /\ l.allowhook = (RecordsAre(t, "hook") = {})
         /\ l.errfunc = (pcalls # {} /\ cstack[MaxOf(pcalls)].ef)
         /\ RecordsOf(t) = {} => l.nCcalls = 0 /\ ~l.errfunc
-----------------------------------------------------------------------------
(* The promise of Coroutines: what is under way in a thread, from the C    *)
(* stack for those that run, from the CallInfo for a suspended one.        *)
ActsOfRecord(i) ==
  LET r == cstack[i]
      inner == cstack[i - 1].k \in {"pcall", "hook", "errormsg"}
  IN CASE r.k = "execute" -> [j \in 1..r.nexeccalls |-> "lua"]
       [] r.k = "pcall" -> <<IF r.ef THEN "xpcall" ELSE "pcall">>
       [] r.k = "call" -> IF inner THEN <<>> ELSE <<"call">>
       [] r.k = "hook" -> <<"hook">>
       [] r.k = "errormsg" -> <<"handler">>
       [] OTHER -> <<>>
ActsOf(t) ==
  LET l == threads[t]
      mine == [i \in DOMAIN cstack |-> IF cstack[i].thread = t THEN ActsOfRecord(i) ELSE <<>>]
  IN CASE l.status = "error" -> <<>>
       [] l.status = "yield" -> [i \in 1..Cardinality({j \in DOMAIN l.ci : l.ci[j] = "lua"}) |-> "lua"]
       [] l.status = "ok" /\ RecordsOf(t) # {} -> FlattenSeq(mine)
       [] OTHER -> IF l.top = 1 /\ t # Main THEN <<"lua">> ELSE <<>>
Resumes == {i \in DOMAIN cstack : cstack[i].k = "resume"}
Nth(places, n) == CHOOSE i \in places : Cardinality({j \in places : j <= i}) = n
Chain == <<[thread |-> Main, how |-> "resume"]>>
         \o [n \in 1..Cardinality(Resumes) |->
               LET r == cstack[Nth(Resumes, n)] IN [thread |-> r.thread, how |-> r.how]]

AllActs == [t \in Threads |-> ActsOf(t)]
C == INSTANCE Coroutines WITH chain <- Chain, acts <- AllActs

(* Calls, errors, yields and resumes do what Coroutines says: an error is  *)
(* given to the innermost protected call of its coroutine or ends it, a    *)
(* yield is refused exactly when a C call is under way in its coroutine,   *)
(* a resume goes on where the coroutine left off, and nesting is limited.  *)
IsCoroutines == C!Spec

(* coroutine.status (luaB_costatus).                                       *)
CoStatus(co) ==
  LET l == threads[co]
  IN CASE co = L(Now) -> "running"
       [] co # L(Now) /\ l.status = "yield" -> "suspended"
       [] co # L(Now) /\ l.status = "ok" ->
            IF Len(l.ci) > 1 THEN "normal" ELSE IF l.top = 0 THEN "dead" ELSE "suspended"
       [] OTHER -> "dead"

(* coroutine.status tells what a resume would do.                          *)
StatusIsRight ==
  cstack # <<>> => \A co \in Threads \ {Main} : CoStatus(co) = C!Status(co)
=============================================================================
