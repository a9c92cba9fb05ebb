------------------------------ MODULE LuaMeaning ------------------------------
(* What a program means by the reference manual: an evaluator of trees over *)
(* environments and a store, with no registers, jumps, upvalues or stack.   *)
(* Its trace has, for every plain statement carried out, what a debugger    *)
(* has to show there: of the function that runs and of each that waits for  *)
(* it, the line, how it was called and the local variables in scope with    *)
(* their values.                                                            *)
EXTENDS LuaAst

(* store: the variables; env: <<name, location>> pairs in scope, from base  *)
(* on those of the function that runs; v: the values of the expression      *)
(* evaluated last; stop: why the rest is not carried out; what: the main    *)
(* chunk or a function; callers: the states of those that wait.             *)
Unknown == <<"?", "">> \* may have any
InitMeaning ==
  [store |-> <<>>, env |-> <<>>, base |-> 0, varargs |-> <<>>, line |-> 0,
   what |-> "main", name |-> Unnamed, callers |-> <<>>,
   tables |-> <<>>, meta |-> <<>>, closures |-> <<>>,
   globals |-> [n \in Builtins |-> <<"builtin", n>>],
   v |-> <<>>, stop |-> "", err |-> <<>>, out |-> <<>>, trace |-> <<>>]

At(vs, i) == IF i \in DOMAIN vs THEN vs[i] ELSE Nil

Values(s, vs) == [s EXCEPT !.v = vs]
Then(s, F(_)) == IF s.stop = "" THEN F(s) ELSE s

(* Variables.                                                              *)
Entry(s, name) ==
  LET at == {i \in DOMAIN s.env : s.env[i][1] = name}
  IN IF at = {} THEN 0 ELSE CHOOSE i \in at : \A j \in at : j <= i
Lookup(s, name) ==
  IF Entry(s, name) = 0 THEN Get(s.globals, name) ELSE s.store[s.env[Entry(s, name)][2]]
SetVariable(s, name, v) ==
  IF Entry(s, name) = 0 THEN [s EXCEPT !.globals = Put(@, name, v)]
  ELSE [s EXCEPT !.store[s.env[Entry(s, name)][2]] = v]
Declare(s, names, vs) ==
  [s EXCEPT !.store = @ \o [i \in DOMAIN names |-> At(vs, i)],
            !.env = @ \o [i \in DOMAIN names |-> <<names[i], Len(s.store) + i>>]]

(* Those that wait have their variables in the store as it is now.          *)
Waiting(s) == [what |-> s.what, line |-> s.line, name |-> s.name, env |-> s.env, base |-> s.base]
Replaced == [what |-> "tail", line |-> -1, name |-> Unnamed, env |-> <<>>, base |-> 0]
Locals(s, w) ==
  LET own == SubSeq(w.env, w.base + 1, Len(w.env))
  IN [i \in DOMAIN own |-> <<own[i][1], IF own[i][1] = "arg" THEN Nil ELSE Shown(s.store[own[i][2]])>>]
Stack(s) ==
  LET all == <<Waiting(s)>> \o s.callers
  IN [i \in DOMAIN all |-> <<all[i].what, all[i].line, all[i].name, Locals(s, all[i])>>]
Traced(s) == [s EXCEPT !.trace = Append(@, Stack(s))]
(* What starts with a function has nothing to do before the function's end.*)
Begun(s, es) == IF es # <<>> /\ es[1][1] = "function" THEN s ELSE Traced(s)

(* How an error message names the value of an expression.                  *)
Named(s, e) ==
  CASE e[1] = "name" -> <<IF Entry(s, e[2]) = 0 THEN "global"
                          ELSE IF Entry(s, e[2]) > s.base THEN "local" ELSE "upvalue", e[2]>>
    [] e[1] = "index" /\ e[3][1] = "string" -> <<"field", e[3][2]>>
    [] e[1] = "method" -> <<"method", e[3]>>
    [] OTHER -> Unknown
Wrong(s, what, name) == [s EXCEPT !.stop = "error", !.err = <<what, name, s.line>>]
-----------------------------------------------------------------------------
(* Metatables: of a table, or 0.                                           *)
NewTable_(s, contents) ==
  [s EXCEPT !.tables = Append(@, contents), !.meta = Append(@, 0), !.v = <<<<"table", Len(s.tables) + 1>>>>]
MetaOf(s, v, event) ==
  IF TypeOf(v) # "table" \/ s.meta[v[2]] = 0 THEN Nil ELSE Get(s.tables[s.meta[v[2]]], String(Text(event)))
Callable(v) == TypeOf(v) \in {"function", "builtin"}
Either(s, x, y, event) == IF MetaOf(s, x, event) # Nil THEN MetaOf(s, x, event) ELSE MetaOf(s, y, event)
Common(s, x, y, event) == \* of two values that may be compared by it
  IF TypeOf(x) = TypeOf(y) /\ Equal(MetaOf(s, x, event), MetaOf(s, y, event)) THEN MetaOf(s, x, event) ELSE Nil
SetMeta(s, args) ==
  CASE Len(args) < 2 \/ TypeOf(At(args, 1)) # "table" \/ TypeOf(At(args, 2)) \notin {"nil", "table"} ->
         Wrong(s, "bad argument", Unnamed)
    [] OTHER -> IF MetaOf(s, args[1], "__metatable") # Nil
                THEN Wrong(s, "cannot change a protected metatable", Unnamed)
                ELSE Values([s EXCEPT !.meta[args[1][2]] = IF args[2] = Nil THEN 0 ELSE args[2][2]], <<args[1]>>)
-----------------------------------------------------------------------------
(* Operations on values. A handler is a function of a metatable; its first *)
(* result counts.                                                          *)
RECURSIVE Eval(_, _), EvalList(_, _), Items(_, _, _, _), Call(_, _, _, _, _), CallExp(_, _, _), Run(_, _), Exec(_, _),
          ForNumLoop(_, _, _), ForInLoop(_, _, _), WhileLoop(_, _), RepeatLoop(_, _, _, _), Arms(_, _),
          Stores(_, _, _), Index(_, _, _, _, _), SetIndex(_, _, _, _, _, _)

Handled(s, handler, args) ==
  Then(Call(s, handler, args, Unnamed, FALSE), LAMBDA t : Values(t, <<At(t.v, 1)>>))
Truth(s, positive) == Then(s, LAMBDA t : Values(t, <<Boolean(IsFalse(t.v[1]) # positive)>>))

(* An absent field is looked up in __index, or assigned to __newindex; a   *)
(* key that no table can have is refused first.                            *)
Index(s, t, key, name, n) ==
  LET raw == Get(s.tables[t[2]], key)
      handler == MetaOf(s, t, "__index")
  IN CASE n = 0 -> Wrong(s, "loop in gettable", Unnamed)
       [] n > 0 /\ TypeOf(t) # "table" -> Wrong(s, "index", name)
       [] OTHER -> IF raw # Nil \/ handler = Nil THEN Values(s, <<raw>>)
                   ELSE IF Callable(handler) THEN Handled(s, handler, <<t, key>>)
                   ELSE Index(s, handler, key, Unnamed, n - 1)
SetIndex(s, t, key, v, name, n) ==
  LET handler == MetaOf(s, t, "__newindex")
  IN CASE n = 0 -> Wrong(s, "loop in settable", Unnamed)
       [] n > 0 /\ TypeOf(t) # "table" -> Wrong(s, "index", name)
       [] n > 0 /\ TypeOf(t) = "table" /\ key = Nil -> Wrong(s, "table index is nil", Unnamed)
       [] n > 0 /\ TypeOf(t) = "table" /\ key = NaN -> Wrong(s, "table index is NaN", Unnamed)
       [] OTHER -> IF Get(s.tables[t[2]], key) # Nil \/ handler = Nil
                   THEN [s EXCEPT !.tables[t[2]] = Put(@, key, v)]
                   ELSE IF Callable(handler) THEN Call(s, handler, <<t, key, v>>, Unnamed, FALSE)
                   ELSE SetIndex(s, handler, key, v, Unnamed, n - 1)

ConcatResult(x, y) == String(ToText(x) \o ToText(y))
Arithmetic(s, op, x, y, nx, ny) ==
  LET handler == Either(s, x, y, Events[op])
  IN IF TypeOf(x) = "number" /\ TypeOf(y) = "number" THEN Values(s, <<ArithResult(op, x, y)>>)
     ELSE IF handler # Nil THEN Handled(s, handler, <<x, y>>)
     ELSE Wrong(s, "perform arithmetic on", IF TypeOf(x) = "number" THEN ny ELSE nx)
Concatenation(s, x, y, nx, ny) ==
  LET handler == Either(s, x, y, "__concat")
  IN IF Concatenable(x) /\ Concatenable(y) THEN Values(s, <<ConcatResult(x, y)>>)
     ELSE IF handler # Nil THEN Handled(s, handler, <<x, y>>)
     ELSE Wrong(s, "concatenate",
                CASE TypeOf(x) = "string" -> ny [] TypeOf(x) = "number" -> Unknown [] OTHER -> nx)
Same(s, x, y) ==
  LET handler == Common(s, x, y, "__eq")
  IN IF Equal(x, y) \/ handler = Nil THEN Values(s, <<Boolean(Equal(x, y))>>) ELSE Handled(s, handler, <<x, y>>)
Before(s, x, y) ==
  LET handler == Common(s, x, y, "__lt")
  IN CASE TypeOf(x) = "number" /\ TypeOf(y) = "number" -> Values(s, <<Boolean(NumLt(x, y))>>)
       [] TypeOf(x) = "string" /\ TypeOf(y) = "string" -> Values(s, <<Boolean(StrLt(x, y))>>)
       [] OTHER -> IF handler = Nil THEN Wrong(s, "compare", Unnamed) ELSE Truth(Handled(s, handler, <<x, y>>), TRUE)
(* Without __le, what is not greater.                                      *)
NotAfter(s, x, y) ==
  LET handler == Common(s, x, y, "__le")
  IN CASE TypeOf(x) = "number" /\ TypeOf(y) = "number" -> Values(s, <<Boolean(NumLe(x, y))>>)
       [] TypeOf(x) = "string" /\ TypeOf(y) = "string" -> Values(s, <<Boolean(~StrLt(y, x))>>)
       [] OTHER -> IF handler = Nil THEN Truth(Before(s, y, x), FALSE) ELSE Truth(Handled(s, handler, <<x, y>>), TRUE)
Binary(s, op, x, y, nx, ny) ==
  CASE op \in DOMAIN ArithCode -> Arithmetic(s, ArithCode[op], x, y, nx, ny)
    [] op = "<" -> Before(s, x, y)
    [] op = ">" -> Before(s, y, x)
    [] op = "<=" -> NotAfter(s, x, y)
    [] op = ">=" -> NotAfter(s, y, x)
    [] op \in {"==", "~="} -> Truth(Same(s, x, y), op = "==")
    [] op = ".." -> Concatenation(s, x, y, nx, ny)
Unary(s, op, x, nx) ==
  CASE op = "not" -> Values(s, <<Boolean(IsFalse(x))>>)
    [] op = "-" -> Arithmetic(s, "UNM", x, x, nx, nx)
    [] op = "#" -> CASE TypeOf(x) = "table" -> Values(s, <<Number(Border(s.tables[x[2]]))>>)
                     [] TypeOf(x) = "string" -> Values(s, <<Number(Len(x[2]))>>)
                     [] OTHER -> Wrong(s, "get length of", nx)
-----------------------------------------------------------------------------
One(e, s) == Then(Eval(e, s), LAMBDA t : Values(t, <<At(t.v, 1)>>))

EvalList(es, s) ==
  IF es = <<>> THEN Values(s, <<>>)
  ELSE IF Len(es) = 1 THEN Eval(es[1], s)
  ELSE Then(One(es[1], s), LAMBDA t :
         Then(EvalList(Tail(es), t), LAMBDA u : Values(u, t.v \o u.v)))

Items(items, t, n, s) ==
  IF items = <<>> THEN Values(s, <<t>>)
  ELSE LET it == items[1]
           Store(u, vs) == [u EXCEPT !.tables[t[2]] =
             FoldLeft(LAMBDA f, i : Put(f, Number(n + i), vs[i]), @, [i \in DOMAIN vs |-> i])]
       IN IF it[1] = "pair"
          THEN Then(One(it[2], s), LAMBDA k :
                 Then(One(it[3], k), LAMBDA u :
                   Items(Tail(items), t, n, SetIndex(u, t, k.v[1], u.v[1], Unnamed, MaxTagLoop))))
          ELSE Then(IF Len(items) = 1 THEN Eval(it[2], s) ELSE One(it[2], s), LAMBDA u :
                 Items(Tail(items), t, n + 1, Store(u, u.v)))

Eval(e, s) ==
  CASE e[1] = "nil" -> Values(s, <<Nil>>)
    [] e[1] \in {"true", "false"} -> Values(s, <<Boolean(e[1] = "true")>>)
    [] e[1] = "number" -> Values(s, <<Number(e[2])>>)
    [] e[1] = "string" -> Values(s, <<String(Text(e[2]))>>)
    [] e[1] = "..." -> Values(s, s.varargs)
    [] e[1] = "name" -> Values(s, <<Lookup(s, e[2])>>)
    [] e[1] = "paren" -> One(e[2], s)
    [] e[1] = "index" ->
         Then(One(e[2], s), LAMBDA t :
           Then(One(e[3], t), LAMBDA u : Index(u, t.v[1], u.v[1], Named(s, e[2]), MaxTagLoop)))
    [] e[1] \in {"call", "method"} -> CallExp(e, s, FALSE)
    [] e[1] = "binary" ->
         Then(One(e[3], s), LAMBDA t :
           IF e[2] \in {"and", "or"}
           THEN IF IsFalse(t.v[1]) = (e[2] = "or") THEN One(e[4], t) ELSE t
           ELSE Then(One(e[4], t), LAMBDA u :
                  Binary(u, e[2], t.v[1], u.v[1], Named(s, e[3]), Named(s, e[4]))))
    [] e[1] = "unary" -> Then(One(e[3], s), LAMBDA t : Unary(t, e[2], t.v[1], Named(s, e[3])))
    [] e[1] = "table" -> LET t == NewTable_(s, <<>>) IN Items(e[2], t.v[1], 0, t)
    [] e[1] = "function" ->
         [s EXCEPT !.closures = Append(@, [params |-> e[2], dots |-> e[3], body |-> e[4],
                                           env |-> s.env, line |-> s.line]),
                   !.v = <<<<"function", Len(s.closures) + 1>>>>]

CallExp(e, s, tail) ==
  IF e[1] = "call"
  THEN Then(One(e[2], s), LAMBDA f :
         Then(EvalList(e[3], f), LAMBDA t : Call(t, f.v[1], t.v, Named(s, e[2]), tail)))
  ELSE Then(One(e[2], s), LAMBDA o :
         Then(Index(o, o.v[1], String(Text(e[3])), Named(s, e[2]), MaxTagLoop), LAMBDA f :
           Then(EvalList(e[4], f), LAMBDA t : Call(t, f.v[1], o.v \o t.v, Named(s, e), tail))))

(* The arguments left over are ..., and the table arg. A tail call leaves  *)
(* no trace of where the function was called from. What is not a function  *)
(* is the first argument of its __call.                                    *)
Call(s, f, args, name, tail) ==
  LET c == s.closures[f[2]]
      rest == IF c.dots THEN SubSeq(args, Len(c.params) + 1, Len(args)) ELSE <<>>
      argtable == NewTable_(s, ArgTable(rest))
      entered == Declare([s EXCEPT !.env = c.env, !.base = Len(c.env), !.varargs = rest,
                                   !.what = "Lua", !.name = IF tail THEN Unnamed ELSE name, !.line = c.line,
                                   !.callers = <<IF tail THEN Replaced ELSE Waiting(s)>> \o @],
                         c.params, args)
      withArg == Declare([entered EXCEPT !.tables = argtable.tables, !.meta = argtable.meta], <<"arg">>, argtable.v)
      ran == Run(c.body, IF c.dots THEN withArg ELSE entered)
      back == [ran EXCEPT !.env = s.env, !.base = s.base, !.varargs = s.varargs, !.what = s.what,
                          !.name = s.name, !.line = s.line, !.callers = s.callers,
                          !.v = IF ran.stop = "return" THEN @ ELSE <<>>, !.stop = ""]
      handler == MetaOf(s, f, "__call")
  IN CASE f = <<"builtin", "setmetatable">> -> SetMeta(s, args)
       [] f \in {<<"builtin", "out">>, <<"builtin", "it">>} ->
            [s EXCEPT !.out = IF f[2] = "out" THEN Append(@, ShownAll(args)) ELSE @,
                      !.v = CallBuiltin(f[2], args)]
       [] TypeOf(f) = "function" -> IF ran.stop = "error" THEN ran ELSE back
       [] OTHER -> IF Callable(handler) THEN Call(s, handler, <<f>> \o args, name, tail) ELSE Wrong(s, "call", name)
-----------------------------------------------------------------------------
(* Statements. A block starts on the line after s.line; s.line ends on the *)
(* last line of the statement.                                             *)
Scoped(s, env) == [s EXCEPT !.env = env]
Run(b, s) == \* the scope is left to the caller
  IF b = <<>> THEN s
  ELSE LET begun == [s EXCEPT !.line = @ + 1]
           done == Exec(b[1], begun)
       IN Then(done, LAMBDA t : Run(Tail(b), [t EXCEPT !.line = NextLine(b[1], begun.line) - 1]))
Block_(b, s) == LET t == Run(b, s) IN Scoped(t, s.env)
Lines(b, line) == IF b = <<>> THEN line ELSE Last(BlockToks(b, line + 1)).line

RECURSIVE Constant(_)
Constant(e) ==
  CASE e[1] \in {"nil", "true", "false", "number", "string"} -> TRUE
    [] e[1] = "paren" -> Constant(e[2])
    [] e[1] = "unary" -> Constant(e[3])
    [] e[1] = "binary" -> Constant(e[3]) /\ Constant(e[4])
    [] OTHER -> FALSE
Condition(e, s) == One(e, IF Constant(e) THEN s ELSE Traced(s))
EndLoop(s) == [s EXCEPT !.stop = IF @ = "break" THEN "" ELSE @]

WhileLoop(st, s) ==
  Then(Condition(st[2], s), LAMBDA t :
    IF IsFalse(t.v[1]) THEN t
    ELSE Then(Block_(st[3], t), LAMBDA u : WhileLoop(st, [u EXCEPT !.line = s.line])))
RepeatLoop(st, s, line, until) ==
  Then(Run(st[2], [s EXCEPT !.line = line]), LAMBDA t :
    Then(Condition(st[3], [t EXCEPT !.line = until]), LAMBDA u :
      IF IsFalse(u.v[1]) THEN RepeatLoop(st, Scoped(u, s.env), line, until) ELSE u))
Arms(st, s) ==
  LET arm == st[2][1]
      rest == <<"if", Tail(st[2]), st[3]>>
      after == Lines(arm[2], s.line) + 1
  IN IF st[2] = <<>> THEN IF st[3] = <<>> THEN s ELSE Block_(st[3], s)
     ELSE Then(Condition(arm[1], s), LAMBDA t :
            IF IsFalse(t.v[1]) THEN Arms(rest, [t EXCEPT !.line = after]) ELSE Block_(arm[2], t))

ForNumLoop(st, s, i) ==
  LET limit == s.v[2]
      step == s.v[3]
      goes == IF NumLt(Number(0), step) THEN NumLe(i, limit) ELSE NumLe(limit, i)
      hidden == Declare(s, <<"(for index)", "(for limit)", "(for step)", st[2]>>, <<i, limit, step, i>>)
  IN IF ~goes THEN s
     ELSE Then(Block_(st[4], hidden), LAMBDA t :
            ForNumLoop(st, [t EXCEPT !.env = s.env, !.line = s.line, !.v = s.v], NumAdd(i, step)))
ForNum_(st, s) ==
  Then(EvalList(st[3], Traced(s)), LAMBDA t :
    LET bounds == <<At(t.v, 1), At(t.v, 2), IF Len(st[3]) = 2 THEN Number(1) ELSE At(t.v, 3)>>
        bad == {i \in 1..3 : TypeOf(bounds[i]) # "number"}
        which == CHOOSE i \in bad : \A j \in bad : i <= j
    IN IF bad # {} THEN Wrong(t, <<"for initial", "for limit", "for step">>[which], Unnamed)
       ELSE ForNumLoop(st, Values(t, bounds), bounds[1]))

Generator == <<"local", "(for generator)">>
Hidden == <<"(for generator)", "(for state)", "(for control)">>
ForInLoop(st, s, hidden) ==
  LET looping == Declare(s, Hidden, hidden)
  IN IF ~Callable(hidden[1]) /\ ~Callable(MetaOf(s, hidden[1], "__call")) THEN Wrong(s, "call", Unnamed)
     ELSE Then(Call(looping, hidden[1], <<hidden[2], hidden[3]>>, Generator, FALSE), LAMBDA t :
            LET control == At(t.v, 1)
                now == <<hidden[1], hidden[2], control>>
                body == Declare([t EXCEPT !.env = s.env], Hidden \o st[2], now \o t.v)
            IN IF control = Nil THEN t
               ELSE Then(Block_(st[4], body), LAMBDA u :
                      ForInLoop(st, [u EXCEPT !.env = s.env, !.line = s.line], now)))
ForIn_(st, s) ==
  Then(EvalList(st[3], Traced(s)), LAMBDA t :
    ForInLoop(st, t, <<At(t.v, 1), At(t.v, 2), At(t.v, 3)>>))

(* All the expressions of an assignment are evaluated before any is stored.*)
Targets(s, targets) ==
  FoldLeft(LAMBDA t, target : Then(t, LAMBDA x :
             IF target[1] = "name" THEN Values(x, Append(x.v, target))
             ELSE Then(One(target[2], x), LAMBDA o :
                    Then(One(target[3], o), LAMBDA k :
                      Values(k, Append(x.v, <<"at", o.v[1], k.v[1], Named(s, target[2])>>))))),
           Values(s, <<>>), targets)
Stores(targets, vs, s) ==
  IF targets = <<>> THEN s
  ELSE LET n == Len(targets)
           target == targets[n]
           stored == IF target[1] = "name" THEN SetVariable(s, target[2], At(vs, n))
                     ELSE SetIndex(s, target[2], target[3], At(vs, n), target[4], MaxTagLoop)
       IN Then(stored, LAMBDA t : Stores(Front(targets), vs, t))

Exec(st, s) ==
  CASE st[1] = "local" ->
         Then(EvalList(st[3], IF st[3] = <<>> \/ st[3][1] = <<"nil">> THEN s ELSE Begun(s, st[3])), LAMBDA t :
           Declare(t, st[2], t.v))
    [] st[1] = "assign" ->
         Then(Targets(IF \A i \in DOMAIN st[3] : st[3][i] = <<"nil">> THEN s ELSE Begun(s, st[3]), st[2]), LAMBDA t :
           Then(EvalList(st[3], t), LAMBDA u : Stores(t.v, u.v, u)))
    [] st[1] = "call" -> Eval(st[2], Traced(s))
    [] st[1] = "do" -> Block_(st[2], s)
    [] st[1] = "while" -> EndLoop(Scoped(WhileLoop(st, s), s.env))
    [] st[1] = "repeat" ->
         EndLoop(Scoped(RepeatLoop(st, s, s.line, Lines(st[2], s.line) + 1), s.env))
    [] st[1] = "if" -> Arms(st, s)
    [] st[1] = "fornum" -> EndLoop(Scoped(ForNum_(st, s), s.env))
    [] st[1] = "forin" -> EndLoop(Scoped(ForIn_(st, s), s.env))
    [] st[1] = "localfunction" ->
         LET declared == Declare(s, <<st[2]>>, <<>>)
             f == Eval(st[3], declared)
         IN SetVariable(f, st[2], f.v[1])
    [] st[1] = "function" ->
         LET body == IF st[3] = "" THEN st[4] ELSE [st[4] EXCEPT ![2] = <<"self">> \o @]
             target == IF st[3] = "" THEN st[2] ELSE <<"index", st[2], <<"string", st[3]>>>>
         IN Then(Targets(s, <<target>>), LAMBDA t :
              LET f == Eval(body, t) IN Stores(t.v, f.v, f))
    [] st[1] = "return" ->
         LET tail == Len(st[2]) = 1 /\ st[2][1][1] \in {"call", "method"}
         IN Then(IF tail THEN CallExp(st[2][1], Begun(s, st[2]), TRUE) ELSE EvalList(st[2], Begun(s, st[2])),
                 LAMBDA t : [t EXCEPT !.stop = "return"])
    [] st[1] = "break" -> [Traced(s) EXCEPT !.stop = "break"]

(* The outcome of a program.                                               *)
Meaning(program) == Run(program, InitMeaning)
=============================================================================
