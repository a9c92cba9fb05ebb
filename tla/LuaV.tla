--------------------------------- MODULE LuaV ---------------------------------
(* The virtual machine (lvm.c, and of ldo.c, lfunc.c and ldebug.c what it   *)
(* calls): one action per instruction. Registers are slots of one stack,    *)
(* a function's from its base on; every instruction may call the line hook. *)
EXTENDS LuaAst

CONSTANTS Programs,   \* [text, faulty]: a tree, and whether it must be refused
          StackSize

VARIABLES
  program,
  main,    \* the prototype of the main chunk
  status,  \* "start", "run", "done", "error", "refused"
  err,     \* what the error message says: what, of which variable, line
  L,       \* lua_State: stack, top, ci, savedpc; and pc of luaV_execute
  heap,    \* upvals, closures, globals; tables, their metatables (0: none) and flags
  out,     \* what the program wrote
  hooks    \* what the line hook saw: the levels of the stack, innermost first
vars == <<program, main, status, err, L, heap, out, hooks>>

Nils(n) == [i \in 1..n |-> Nil]
Padded(vs, n) == [i \in 1..n |-> IF i \in DOMAIN vs THEN vs[i] ELSE Nil]

(* The stack is addressed from 0.                                          *)
Slot(l, i) == l.stack[i + 1]
Read(l, from, n) == SubSeq(l.stack, from + 1, from + n)
Write(l, from, vs) ==
  [l EXCEPT !.stack = [i \in DOMAIN @ |-> IF i - from \in DOMAIN vs THEN vs[i - from] ELSE @[i]]]

(* A closure has the path of its prototype in main.                        *)
ProtoAt(path) == FoldLeft(LAMBDA p, i : p.p[i], main, path)
ProtoOf(f) == ProtoAt(heap.closures[f[2]].proto)

Frame == Last(L.ci)
Running == heap.closures[Slot(L, Frame.func)[2]]
P == ProtoOf(Slot(L, Frame.func))
I == InstrAt(P, L.pc)
Reg(r) == Slot(L, Frame.base + r)
RK(x) == IF IsK(x) THEN P.k[IndexK(x) + 1] ELSE Reg(x)
Constant_(b) == P.k[b + 1]

(* The same of a state that is still being made.                           *)
ProtoIn(l) == ProtoOf(Slot(l, Last(l.ci).func))
InstrIn(l) == InstrAt(ProtoIn(l), l.savedpc - 1)
IsFunction(v) == TypeOf(v) \in {"function", "builtin"}
-----------------------------------------------------------------------------
(* Open upvalues (lfunc.c): the variable is still in the stack.            *)
OpenAt(h, level) == {u \in DOMAIN h.upvals : h.upvals[u].open /\ h.upvals[u].level = level}
FindUpval(h, level) ==
  IF OpenAt(h, level) # {} THEN h
  ELSE [h EXCEPT !.upvals = Append(@, [open |-> TRUE, level |-> level, value |-> Nil])]
CloseUpvals(l, h, level) ==
  [h EXCEPT !.upvals = [u \in DOMAIN @ |->
     IF @[u].open /\ @[u].level >= level
     THEN [open |-> FALSE, level |-> -1, value |-> Slot(l, @[u].level)] ELSE @[u]]]
Upval(b) ==
  LET u == heap.upvals[Running.upvals[b + 1]]
  IN IF u.open THEN Slot(L, u.level) ELSE u.value
-----------------------------------------------------------------------------
(* Names for messages and for the debugger (ldebug.c).                     *)
ChangesRegister(i, reg) ==
  \/ OpModes[i.op].setsA /\ i.a = reg
  \/ i.op = "LOADNIL" /\ i.a <= reg /\ reg <= i.b
  \/ i.op = "SELF" /\ reg = i.a + 1
  \/ i.op = "TFORLOOP" /\ reg >= i.a + 2
  \/ i.op \in {"CALL", "TAILCALL"} /\ reg >= i.a

RECURSIVE SymbExec(_, _, _, _, _)
SymbExec(p, pc, lastpc, reg, last) ==
  LET i == InstrAt(p, pc)
      jumps == i.op \in {"JMP", "FORLOOP", "FORPREP"} /\ i.b >= 0 /\ pc + 1 + i.b <= lastpc
      next == CASE jumps -> pc + 1 + i.b
                [] i.op = "CLOSURE" -> pc + 1 + Len(p.p[i.b + 1].upvalues)
                [] OTHER -> pc + 1
  IN IF pc >= lastpc THEN InstrAt(p, last)
     ELSE SymbExec(p, next, lastpc, reg, IF ChangesRegister(i, reg) THEN pc ELSE last)

KName(p, c) ==
  IF IsK(c) /\ TypeOf(p.k[IndexK(c) + 1]) = "string" THEN p.k[IndexK(c) + 1][2][1] ELSE "?"

RECURSIVE GetObjName(_, _, _)
LoadedName(p, pc, i) == \* by the instruction that loaded it
  CASE i.op = "GETGLOBAL" -> <<"global", p.k[i.b + 1][2][1]>>
    [] i.op = "MOVE" /\ i.b < i.a -> GetObjName(p, pc, i.b)
    [] i.op = "GETTABLE" -> <<"field", KName(p, i.c)>>
    [] i.op = "GETUPVAL" -> <<"upvalue", p.upvalues[i.b + 1][1]>>
    [] i.op = "SELF" -> <<"method", KName(p, i.c)>>
    [] OTHER -> Unnamed
GetObjName(p, pc, reg) ==
  LET locals == ActiveNames(p, pc)
  IN IF reg < Len(locals) THEN <<"local", locals[reg + 1][1]>>
     ELSE LoadedName(p, pc, SymbExec(p, 0, pc, reg, Size(p) - 1))

-----------------------------------------------------------------------------
(* What a debugger is told of the functions that run (ldebug.c). A function *)
(* is known by its index in L.ci; the first is the C function that called   *)
(* the main chunk.                                                         *)
CurrentPc(i) == IF i = Len(L.ci) THEN L.pc ELSE L.ci[i].savedpc - 1
GetLuaProto(i) == ProtoOf(Slot(L, L.ci[i].func))
CurrentLine(i) == LineAt(GetLuaProto(i), CurrentPc(i))
What(i) == IF heap.closures[Slot(L, L.ci[i].func)[2]].proto = <<>> THEN "main" ELSE "Lua"

(* How it was called.                                                      *)
GetFuncName(i) ==
  LET caller == GetLuaProto(i - 1)
      call == InstrAt(caller, CurrentPc(i - 1))
  IN IF L.ci[i].tailcalls > 0 \/ i = 2 \/ call.op \notin {"CALL", "TAILCALL", "TFORLOOP"}
     THEN Unnamed ELSE GetObjName(caller, CurrentPc(i - 1), call.a)

(* The table arg of a function has no counterpart in what a program means. *)
GetLocals(i) ==
  LET names == ActiveNames(GetLuaProto(i), CurrentPc(i))
  IN [n \in DOMAIN names |->
        <<names[n][1], IF names[n][1] = "arg" THEN Nil ELSE Shown(Slot(L, L.ci[i].base + n - 1))>>]

(* The function at a level, counted from the one that runs: a tail call    *)
(* took the place of its caller, which is a level without a function.      *)
LostTailCall == 0
NoLevel == -1
RECURSIVE GetStack(_, _), Levels(_)
GetStack(i, level) ==
  CASE level > 0 /\ i > 1 -> GetStack(i - 1, level - 1 - L.ci[i].tailcalls)
    [] level = 0 /\ i > 1 -> i
    [] level < 0 -> LostTailCall
    [] OTHER -> NoLevel
InfoTailCall == <<"tail", -1, Unnamed, <<>>>>
GetInfo(i) ==
  IF i = LostTailCall THEN InfoTailCall
  ELSE <<What(i), CurrentLine(i), GetFuncName(i), GetLocals(i)>>
Levels(from) ==
  LET i == GetStack(Len(L.ci), from)
  IN IF i = NoLevel THEN <<>> ELSE <<GetInfo(i)>> \o Levels(from + 1)

\* mutant: a jump back to the same line is not seen
NewLineOnly == L.pc = 0 \/ I.line # LineAt(P, L.savedpc - 1)
(* traceexec: a new line, or the same one again.                           *)
NewLine ==
  \/ L.pc = 0
  \/ L.pc + 1 <= L.savedpc
  \/ I.line # LineAt(P, L.savedpc - 1)
-----------------------------------------------------------------------------
(* Steps. D is the state once the instruction is fetched; a step is done or *)
(* has failed, and nothing below catches an error.                         *)
D == [L EXCEPT !.pc = @ + 1, !.savedpc = L.pc + 1]
SetReg(l, r, v) == Write(l, Last(l.ci).base + r, <<v>>)
Done(l, h, o) == [l |-> l, h |-> h, out |-> o, err |-> <<>>]
Failed(l, o, what, name) ==
  [l |-> [l EXCEPT !.stack = Nils(StackSize)], h |-> heap, out |-> o, err |-> <<what, name, InstrIn(l).line>>]
(* luaG_typeerror names what is in a register of the frame.                *)
NoSlot == -1
TypeError(l, o, what, slot) ==
  LET frame == Last(l.ci)
  IN Failed(l, o, what,
            IF slot \in frame.base..(frame.top - 1) THEN GetObjName(ProtoIn(l), l.savedpc - 1, slot - frame.base)
            ELSE Unnamed)

Fetch(ops) ==
  /\ status = "run" /\ I.op \in ops
  /\ hooks' = IF NewLine THEN Append(hooks, Levels(0)) ELSE hooks
  /\ UNCHANGED <<program, main>>
Reaches(r) ==
  /\ L' = r.l /\ heap' = r.h /\ out' = r.out /\ err' = r.err
  /\ status' = IF r.err = <<>> THEN "run" ELSE "error"
Continue(l, h) == Reaches(Done(l, h, out))
Loads(v) == Continue(SetReg(D, I.a, v), heap)
RaiseOf(what, name) == Reaches(Failed(D, out, what, name))
SlotOf(x) == IF IsK(x) THEN NoSlot ELSE Frame.base + x
Jumps(l) == [l EXCEPT !.pc = @ + InstrAt(ProtoIn(l), @).b + 1] \* the jump that follows a test
Tested(l, holds) == IF holds THEN Jumps(l) ELSE [l EXCEPT !.pc = @ + 1]
-----------------------------------------------------------------------------
(* Metatables (ltm.c). Only tables have one here. That a metatable has no   *)
(* method for one of the fast events is remembered in its flags until a key *)
(* is assigned.                                                            *)
FastEvents == {"__index", "__newindex", "__eq"}
Event(e) == String(Text(e))
GetTM(h, mt, e) == IF mt = 0 \/ e \in h.flags[mt] THEN Nil ELSE Get(h.tables[mt], Event(e))
Cached(h, mt, e) ==
  IF mt = 0 \/ Get(h.tables[mt], Event(e)) # Nil THEN h ELSE [h EXCEPT !.flags[mt] = @ \cup {e}]
GetTMByObj(h, v, e) ==
  IF TypeOf(v) # "table" \/ h.meta[v[2]] = 0 THEN Nil ELSE Get(h.tables[h.meta[v[2]]], Event(e))
BinTM(h, x, y, e) == IF GetTMByObj(h, x, e) # Nil THEN GetTMByObj(h, x, e) ELSE GetTMByObj(h, y, e)

NewTable(h, contents) ==
  [h EXCEPT !.tables = Append(@, contents), !.meta = Append(@, 0), !.flags = Append(@, {})]

SetMetatable(h, args) ==
  LET mt == IF Len(args) < 2 \/ args[2] = Nil THEN 0 ELSE args[2][2]
      fails == IF Len(args) < 2 \/ TypeOf(args[1]) # "table" \/ TypeOf(args[2]) \notin {"nil", "table"}
               THEN "bad argument"
               ELSE IF GetTMByObj(h, args[1], "__metatable") # Nil THEN "cannot change a protected metatable"
               ELSE ""
  IN [fails |-> fails, h |-> IF fails = "" THEN [h EXCEPT !.meta[args[1][2]] = mt] ELSE h]
-----------------------------------------------------------------------------
(* Calls and returns (ldo.c). `then` is what the caller does when the called *)
(* function is back.                                                       *)
NewFrame(func, base, top, nresults, then) ==
  [func |-> func, base |-> base, top |-> top, savedpc |-> 0, nresults |-> nresults,
   tailcalls |-> 0, then |-> then]

(* adjust_varargs leaves the extra arguments below the base.               *)
Precall(l, h, func, nresults, then) ==
  LET p == ProtoOf(Slot(l, func))
      args == Read(l, func + 1, l.top - func - 1)
      n == p.numparams
      rest == SubSeq(args, n + 1, Len(args))
      base == IF p.vararg = {} THEN func + 1 ELSE func + 1 + (IF Len(args) < n THEN n ELSE Len(args))
      arg == IF "needs" \in p.vararg THEN <<<<"table", Len(h.tables) + 1>>>> ELSE <<>>
      moved == IF p.vararg = {} THEN l ELSE Write(l, func + 1, Nils(n))
      filled == Write(moved, base, Padded(Padded(args, n) \o arg, p.maxstack))
      frame == NewFrame(func, base, base + p.maxstack, nresults, then)
  IN [filled EXCEPT !.top = frame.top, !.pc = 0, !.savedpc = 0,
                    !.ci = Append([@ EXCEPT ![Len(@)].savedpc = l.savedpc], frame)]
PrecallHeap(l, h, func) ==
  LET p == ProtoOf(Slot(l, func))
      first == func + 1 + p.numparams
  IN IF "needs" \notin p.vararg THEN h ELSE NewTable(h, ArgTable(Read(l, first, l.top - first)))

(* luaD_poscall moves the results to where the function was.               *)
Poscall(l, func, nresults, results) ==
  LET vs == IF nresults = MultRet THEN results ELSE Padded(results, nresults)
  IN [Write(l, func, vs) EXCEPT !.top = func + Len(vs)]

(* A C function is over when precall returns.                              *)
CallC(l, h, o, func, nresults) ==
  LET f == Slot(l, func)[2]
      args == Read(l, func + 1, l.top - func - 1)
      set == SetMetatable(h, args)
  IN CASE f = "setmetatable" ->
            IF set.fails # "" THEN Failed(l, o, set.fails, Unnamed)
            ELSE Done(Poscall(l, func, nresults, <<args[1]>>), set.h, o)
       [] OTHER -> Done(Poscall(l, func, nresults, CallBuiltin(f, args)), h,
                        IF f = "out" THEN Append(o, ShownAll(args)) ELSE o)

(* tryfuncTM: a value that is not a function becomes the first argument of  *)
(* its metamethod.                                                         *)
TryFuncTM(l, h, func) ==
  LET f == Slot(l, func)
      tm == GetTMByObj(h, f, "__call")
  IN IF IsFunction(f) \/ ~IsFunction(tm) THEN l
     ELSE [Write(l, func, <<tm>> \o Read(l, func, l.top - func)) EXCEPT !.top = @ + 1]

(* What OP_TFORLOOP does when the iterator is back.                        *)
Iterated(l) ==
  LET a == InstrIn(l).a
      control == Slot(l, Last(l.ci).base + a + 3)
  IN IF control = Nil THEN [l EXCEPT !.pc = @ + 1] ELSE Jumps(SetReg(l, a + 2, control))

\* mutant: the results stay the top of the stack
AdjustedNot(l) == l
(* After a call that asked for a number of results.                        *)
Adjusted(l) == [l EXCEPT !.top = Last(l.ci).top]

RECURSIVE Back(_, _, _, _), DCall(_, _, _, _, _, _), CallTM(_, _, _, _, _, _), JoinFrom(_, _, _, _)
(* The function called is back with its results at the top.                *)
Back(l, h, o, then) ==
  LET back == Adjusted(l)
      v == Slot(l, Last(l.ci).top)
  IN CASE then[1] = "call" -> Done(IF InstrIn(l).c = 0 THEN l ELSE back, h, o)
       [] then[1] = "iterate" -> Done(Iterated(back), h, o)
       [] then[1] = "store" -> Done(Write(back, then[2], <<v>>), h, o)
       [] then[1] = "discard" -> Done(back, h, o)
       [] then[1] = "test" -> Done(Tested(back, (IsFalse(v) # then[2]) = (InstrIn(l).a = 1)), h, o)
       [] then[1] = "concat" -> JoinFrom(SetReg(back, then[2] - 1, v), h, o, then[2] - 1)

(* The function and its arguments are on the stack from func on.           *)
DCall(l, h, o, func, nresults, then) ==
  LET called == TryFuncTM(l, h, func)
      c == CallC(called, h, o, func, nresults)
  IN CASE TypeOf(Slot(called, func)) = "function" ->
            Done(Precall(called, h, func, nresults, then), PrecallHeap(called, h, func), o)
       [] TypeOf(Slot(called, func)) = "builtin" -> IF c.err # <<>> THEN c ELSE Back(c.l, c.h, c.out, then)
       [] OTHER -> TypeError(l, o, "call", func)

CallTM(l, h, o, tm, args, then) ==
  DCall([Write(l, l.top, <<tm>> \o args) EXCEPT !.top = @ + 1 + Len(args)], h, o, l.top,
        IF then = <<"discard">> THEN 0 ELSE 1, then)

(* luaV_concat joins registers from the right, as many at once as can be,   *)
(* until the first is left. When two cannot be joined, the message is about *)
(* the left one unless that is a string.                                   *)
JoinFrom(l, h, o, last) ==
  LET i == InstrIn(l)
      base == Last(l.ci).base
      At_(r) == Slot(l, base + r)
      first == CHOOSE f \in i.b..last :
                 /\ \A r \in f..last : Concatenable(At_(r))
                 /\ f > i.b => ~Concatenable(At_(f - 1))
      joined == String(FlattenSeq([j \in 1..(last - first + 1) |-> ToText(At_(first + j - 1))]))
      tm == BinTM(h, At_(last - 1), At_(last), "__concat")
  IN CASE last = i.b -> Done(SetReg(l, i.a, At_(last)), h, o)
       [] last > i.b /\ Concatenable(At_(last - 1)) /\ Concatenable(At_(last)) ->
            JoinFrom(SetReg(l, first, joined), h, o, first)
       [] OTHER ->
            IF tm = Nil
            THEN TypeError(l, o, "concatenate", base + (IF TypeOf(At_(last - 1)) = "string" THEN last ELSE last - 1))
            ELSE CallTM(l, h, o, tm, <<At_(last - 1), At_(last)>>, <<"concat", last>>)

RECURSIVE GetTable(_, _, _, _, _, _), SetTable(_, _, _, _, _, _)
(* luaV_gettable and luaV_settable: t is what is indexed, from is where it  *)
(* is on the stack, n the tables that may still be tried.                  *)
GetTable(h, t, key, val, from, n) ==
  LET mt == h.meta[t[2]]
      res == Get(h.tables[t[2]], key)
      tm == GetTM(h, mt, "__index")
      after == IF res = Nil THEN Cached(h, mt, "__index") ELSE h
  IN CASE n = 0 -> Failed(D, out, "loop in gettable", Unnamed)
       [] n > 0 /\ TypeOf(t) # "table" -> TypeError(D, out, "index", from)
       [] OTHER -> IF res # Nil \/ tm = Nil THEN Done(Write(D, val, <<res>>), after, out)
                   ELSE IF IsFunction(tm) THEN CallTM(D, after, out, tm, <<t, key>>, <<"store", val>>)
                   ELSE GetTable(after, tm, key, val, NoSlot, n - 1)
SetTable(h, t, key, v, from, n) ==
  LET old == Get(h.tables[t[2]], key)
      assigned == [h EXCEPT !.flags[t[2]] = {}]
      mt == h.meta[t[2]]
      tm == GetTM(assigned, mt, "__newindex")
      after == IF old = Nil THEN Cached(assigned, mt, "__newindex") ELSE assigned
  IN CASE n = 0 -> Failed(D, out, "loop in settable", Unnamed)
       [] n > 0 /\ TypeOf(t) # "table" -> TypeError(D, out, "index", from)
       [] n > 0 /\ TypeOf(t) = "table" /\ key \in {Nil, NaN} ->
            Failed(D, out, IF key = Nil THEN "table index is nil" ELSE "table index is NaN", Unnamed)
       [] OTHER -> IF old # Nil \/ tm = Nil THEN Done(D, [after EXCEPT !.tables[t[2]] = Put(@, key, v)], out)
                   ELSE IF IsFunction(tm) THEN CallTM(D, after, out, tm, <<t, key, v>>, <<"discard">>)
                   ELSE SetTable(after, tm, key, v, NoSlot, n - 1)

(* Arith: the message is about the first operand unless that is a number.  *)
Arith(x, y, b, c) ==
  LET tm == BinTM(heap, x, y, Events[I.op])
  IN IF TypeOf(x) = "number" /\ TypeOf(y) = "number"
     THEN Done(SetReg(D, I.a, ArithResult(I.op, x, y)), heap, out)
     ELSE IF tm = Nil THEN TypeError(D, out, "perform arithmetic on", SlotOf(IF TypeOf(x) = "number" THEN c ELSE b))
     ELSE CallTM(D, heap, out, tm, <<x, y>>, <<"store", Frame.base + I.a>>)

(* A comparison of which the result is known, or the metamethod called for  *)
(* it; a "not less" with the operands exchanged stands for a missing __le. *)
Result(h, holds) == Done(Tested(D, holds = (I.a = 1)), h, out)
Compares(h, tm, x, y, positive) == CallTM(D, h, out, tm, <<x, y>>, <<"test", positive>>)
EqualVal(x, y) ==
  LET mt1 == heap.meta[x[2]]
      mt2 == heap.meta[y[2]]
      tm == GetTM(heap, mt1, "__eq")
      one == Cached(heap, mt1, "__eq")
      two == IF tm = Nil \/ mt1 = mt2 THEN one ELSE Cached(one, mt2, "__eq")
  IN IF TypeOf(x) # "table" \/ TypeOf(y) # "table" \/ x = y THEN Result(heap, Equal(x, y))
     ELSE IF tm = Nil \/ (mt1 # mt2 /\ GetTM(one, mt2, "__eq") # tm) THEN Result(two, FALSE)
     ELSE Compares(two, tm, x, y, TRUE)
OrderTM(x, y, e) == \* of both operands
  IF Equal(GetTMByObj(heap, x, e), GetTMByObj(heap, y, e)) THEN GetTMByObj(heap, x, e) ELSE Nil
LessThan(x, y) ==
  CASE TypeOf(x) = TypeOf(y) /\ TypeOf(x) = "number" -> Result(heap, NumLt(x, y))
    [] TypeOf(x) = TypeOf(y) /\ TypeOf(x) = "string" -> Result(heap, StrLt(x, y))
    [] TypeOf(x) = TypeOf(y) /\ OrderTM(x, y, "__lt") # Nil -> Compares(heap, OrderTM(x, y, "__lt"), x, y, TRUE)
    [] OTHER -> Failed(D, out, "compare", Unnamed)
LessEqual(x, y) ==
  CASE TypeOf(x) = TypeOf(y) /\ TypeOf(x) = "number" -> Result(heap, NumLe(x, y))
    [] TypeOf(x) = TypeOf(y) /\ TypeOf(x) = "string" -> Result(heap, ~StrLt(y, x))
    [] TypeOf(x) = TypeOf(y) /\ OrderTM(x, y, "__le") # Nil -> Compares(heap, OrderTM(x, y, "__le"), x, y, TRUE)
    [] TypeOf(x) = TypeOf(y) /\ OrderTM(x, y, "__le") = Nil /\ OrderTM(y, x, "__lt") # Nil ->
         Compares(heap, OrderTM(y, x, "__lt"), y, x, FALSE)
    [] OTHER -> Failed(D, out, "compare", Unnamed)
-----------------------------------------------------------------------------
OP_MOVE == Fetch({"MOVE"}) /\ Loads(Reg(I.b))
OP_LOADK == Fetch({"LOADK"}) /\ Loads(Constant_(I.b))
OP_LOADBOOL ==
  /\ Fetch({"LOADBOOL"})
  /\ Continue([SetReg(D, I.a, Boolean(I.b = 1)) EXCEPT !.pc = IF I.c # 0 THEN @ + 1 ELSE @], heap)
OP_LOADNIL == Fetch({"LOADNIL"}) /\ Continue(Write(D, Frame.base + I.a, Nils(I.b - I.a + 1)), heap)
OP_GETUPVAL == Fetch({"GETUPVAL"}) /\ Loads(Upval(I.b))
OP_SETUPVAL ==
  LET id == Running.upvals[I.b + 1]
      u == heap.upvals[id]
  IN /\ Fetch({"SETUPVAL"})
     /\ IF u.open THEN Continue(Write(D, u.level, <<Reg(I.a)>>), heap)
        ELSE Continue(D, [heap EXCEPT !.upvals[id].value = Reg(I.a)])
OP_GETGLOBAL == Fetch({"GETGLOBAL"}) /\ Loads(Get(heap.globals, Constant_(I.b)[2][1]))
OP_SETGLOBAL ==
  /\ Fetch({"SETGLOBAL"})
  /\ Continue(D, [heap EXCEPT !.globals = Put(@, Constant_(I.b)[2][1], Reg(I.a))])

OP_GETTABLE ==
  Fetch({"GETTABLE"}) /\ Reaches(GetTable(heap, Reg(I.b), RK(I.c), Frame.base + I.a, SlotOf(I.b), MaxTagLoop))
OP_SETTABLE ==
  Fetch({"SETTABLE"}) /\ Reaches(SetTable(heap, Reg(I.a), RK(I.b), RK(I.c), SlotOf(I.a), MaxTagLoop))
OP_SELF ==
  LET o == Reg(I.b)
      found == GetTable(heap, o, RK(I.c), Frame.base + I.a, SlotOf(I.b), MaxTagLoop)
  IN /\ Fetch({"SELF"})
     /\ Reaches([found EXCEPT !.l = Write(@, Frame.base + I.a + 1, <<o>>)])
OP_NEWTABLE ==
  /\ Fetch({"NEWTABLE"})
  /\ Continue(SetReg(D, I.a, <<"table", Len(heap.tables) + 1>>), NewTable(heap, <<>>))
OP_SETLIST ==
  LET n == IF I.b # 0 THEN I.b ELSE L.top - (Frame.base + I.a) - 1
      vs == Read(L, Frame.base + I.a + 1, n)
      first == (I.c - 1) * FieldsPerFlush
      Store(t) == FoldLeft(LAMBDA f, j : Put(f, Number(first + j), vs[j]), t, [j \in 1..n |-> j])
  IN /\ Fetch({"SETLIST"})
     /\ Continue([D EXCEPT !.top = IF I.b = 0 THEN Frame.top ELSE @],
                 [heap EXCEPT !.tables[Reg(I.a)[2]] = Store(@)])

OP_ARITH == Fetch(ArithOps) /\ Reaches(Arith(RK(I.b), RK(I.c), I.b, I.c))
OP_UNM == Fetch({"UNM"}) /\ Reaches(Arith(Reg(I.b), Reg(I.b), I.b, I.b))
OP_NOT == Fetch({"NOT"}) /\ Loads(Boolean(IsFalse(Reg(I.b))))
OP_LEN ==
  LET v == Reg(I.b) IN
  /\ Fetch({"LEN"})
  /\ CASE TypeOf(v) = "table" -> Loads(Number(Border(heap.tables[v[2]])))
       [] TypeOf(v) = "string" -> Loads(Number(Len(v[2])))
       [] OTHER -> Reaches(TypeError(D, out, "get length of", SlotOf(I.b)))

OP_CONCAT == Fetch({"CONCAT"}) /\ Reaches(JoinFrom(D, heap, out, I.c))

OP_JMP == Fetch({"JMP"}) /\ Continue([D EXCEPT !.pc = @ + I.b], heap)
OP_EQ == Fetch({"EQ"}) /\ Reaches(EqualVal(RK(I.b), RK(I.c)))
OP_LESS ==
  /\ Fetch({"LT", "LE"})
  /\ Reaches(IF I.op = "LT" THEN LessThan(RK(I.b), RK(I.c)) ELSE LessEqual(RK(I.b), RK(I.c)))
OP_TEST == Fetch({"TEST"}) /\ Continue(Tested(D, IsFalse(Reg(I.a)) # (I.c = 1)), heap)
OP_TESTSET ==
  LET jumps == IsFalse(Reg(I.b)) # (I.c = 1)
  IN Fetch({"TESTSET"}) /\ Continue(Tested(IF jumps THEN SetReg(D, I.a, Reg(I.b)) ELSE D, jumps), heap)
(* `top` is set by the instruction before when b is 0.                     *)
Func == Frame.base + I.a
WithTop(l) == IF I.b = 0 THEN l ELSE [l EXCEPT !.top = Func + I.b]

OP_CALL == Fetch({"CALL"}) /\ Reaches(DCall(WithTop(D), heap, out, Func, I.c - 1, <<"call">>))

(* The new frame takes the place of the caller's.                          *)
\* mutant: the function moves down, its registers do not
TailBaseOld(new) == new.base - new.func
TailBase(new) == Frame.func + (new.base - new.func)
OP_TAILCALL ==
  LET l == TryFuncTM(WithTop(D), heap, Func)
      called == Precall(l, heap, Func, MultRet, <<>>)
      new == Last(called.ci)
      base == TailBase(new)
      down == Write(called, Frame.func, Read(called, new.func, called.top - new.func))
      top == Frame.func + (called.top - new.func)
      frame == [Frame EXCEPT !.base = base, !.top = top, !.savedpc = 0, !.tailcalls = @ + 1]
  IN /\ Fetch({"TAILCALL"})
     /\ IF TypeOf(Slot(l, Func)) = "function"
        THEN Continue([down EXCEPT !.top = top, !.ci = Append(Front(L.ci), frame)],
                      CloseUpvals(l, PrecallHeap(l, heap, Func), Frame.base))
        ELSE Reaches(DCall(WithTop(D), heap, out, Func, MultRet, <<"call">>))

OP_RETURN ==
  LET n == IF I.b = 0 THEN L.top - Func ELSE I.b - 1
      ci == Front(L.ci)
      caller == Last(ci)
      popped == [Poscall(D, Frame.func, Frame.nresults, Read(L, Func, n)) EXCEPT
                   !.ci = ci, !.pc = caller.savedpc, !.savedpc = caller.savedpc]
      h == CloseUpvals(L, heap, Frame.base)
  IN /\ Fetch({"RETURN"})
     /\ IF Len(ci) = 1 THEN status' = "done" /\ L' = popped /\ heap' = h /\ UNCHANGED <<err, out>>
        ELSE Reaches(Back(popped, h, out, Frame.then))

OP_FORPREP ==
  LET v == [j \in 1..3 |-> Reg(I.a + j - 1)]
      bad == {j \in 1..3 : TypeOf(v[j]) # "number"}
      first == CHOOSE j \in bad : \A k \in bad : j <= k
  IN /\ Fetch({"FORPREP"})
     /\ IF bad # {} THEN RaiseOf(<<"for initial", "for limit", "for step">>[first], Unnamed)
        ELSE Continue([SetReg(D, I.a, NumSub(v[1], v[3])) EXCEPT !.pc = @ + I.b], heap)
OP_FORLOOP ==
  LET step == Reg(I.a + 2)
      limit == Reg(I.a + 1)
      idx == NumAdd(Reg(I.a), step)
      goes == IF NumLt(Number(0), step) THEN NumLe(idx, limit) ELSE NumLe(limit, idx)
  IN /\ Fetch({"FORLOOP"})
     /\ Continue(IF goes THEN [SetReg(SetReg(D, I.a, idx), I.a + 3, idx) EXCEPT !.pc = @ + I.b]
                 ELSE D, heap)
OP_TFORLOOP ==
  LET cb == Func + 3
      l == [Write(D, cb, Read(L, Func, 3)) EXCEPT !.top = cb + 3]
  IN Fetch({"TFORLOOP"}) /\ Reaches(DCall(l, heap, out, cb, I.c, <<"iterate">>))

OP_CLOSE == Fetch({"CLOSE"}) /\ Continue(D, CloseUpvals(L, heap, Frame.base + I.a))

(* The instructions after it say where its upvalues come from.             *)
OP_CLOSURE ==
  LET nup == Len(P.p[I.b + 1].upvalues)
      sources == [j \in 1..nup |-> InstrAt(P, L.pc + j)]
      Level(i) == Frame.base + i.b
      h == FoldLeft(LAMBDA g, i : IF i.op = "MOVE" THEN FindUpval(g, Level(i)) ELSE g, heap, sources)
      ids == [j \in 1..nup |->
                IF sources[j].op = "GETUPVAL" THEN Running.upvals[sources[j].b + 1]
                ELSE CHOOSE u \in OpenAt(h, Level(sources[j])) : TRUE]
      closure == [proto |-> Append(Running.proto, I.b + 1), upvals |-> ids]
  IN /\ Fetch({"CLOSURE"})
     /\ Continue([SetReg(D, I.a, <<"function", Len(h.closures) + 1>>) EXCEPT !.pc = @ + nup],
                 [h EXCEPT !.closures = Append(@, closure)])

OP_VARARG ==
  LET n == Frame.base - Frame.func - P.numparams - 1
      extra == Read(L, Frame.base - n, n)
      b == I.b - 1
  IN /\ Fetch({"VARARG"})
     /\ Continue(IF b = MultRet THEN [Write(D, Func, extra) EXCEPT !.top = Func + n]
                 ELSE Write(D, Func, Padded(extra, b)), heap)
-----------------------------------------------------------------------------
(* f_parser and the call of the main chunk.                                *)
LoadAs(chunk) ==
  IF chunk.err # <<>>
  THEN status' = "refused" /\ err' = chunk.err /\ UNCHANGED <<main, L, heap>>
  ELSE LET top == 2 + chunk.main.maxstack
       IN /\ status' = "run" /\ main' = chunk.main /\ UNCHANGED err
          /\ heap' = [heap EXCEPT !.closures = <<[proto |-> <<>>, upvals |-> <<>>]>>]
          /\ L' = [Write(L, 1, <<<<"function", 1>>>>) EXCEPT
                     !.top = top, !.ci = Append(@, NewFrame(1, 2, top, MultRet, <<>>))]
Load ==
  /\ status = "start"
  /\ LoadAs(Parser(Tokens(program.text)))
  /\ UNCHANGED <<program, out, hooks>>

Init ==
  /\ program \in Programs
  /\ main = <<>> /\ status = "start" /\ err = <<>> /\ out = <<>> /\ hooks = <<>>
  /\ L = [stack |-> Nils(StackSize), top |-> 1, pc |-> 0, savedpc |-> 0,
          ci |-> <<NewFrame(0, 1, 1, MultRet, <<>>)>>]
  /\ heap = [upvals |-> <<>>, closures |-> <<>>, tables |-> <<>>, meta |-> <<>>, flags |-> <<>>,
             globals |-> [n \in Builtins |-> <<"builtin", n>>]]

Next ==
  \/ Load
  \/ OP_MOVE \/ OP_LOADK \/ OP_LOADBOOL \/ OP_LOADNIL
  \/ OP_GETUPVAL \/ OP_SETUPVAL \/ OP_GETGLOBAL \/ OP_SETGLOBAL
  \/ OP_GETTABLE \/ OP_SETTABLE \/ OP_SELF \/ OP_NEWTABLE \/ OP_SETLIST
  \/ OP_ARITH \/ OP_UNM \/ OP_NOT \/ OP_LEN \/ OP_CONCAT
  \/ OP_JMP \/ OP_EQ \/ OP_LESS \/ OP_TEST \/ OP_TESTSET
  \/ OP_CALL \/ OP_TAILCALL \/ OP_RETURN
  \/ OP_FORPREP \/ OP_FORLOOP \/ OP_TFORLOOP
  \/ OP_CLOSE \/ OP_CLOSURE \/ OP_VARARG

Spec == Init /\ [][Next]_vars
=============================================================================
