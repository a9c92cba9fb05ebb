------------------------------ MODULE MCLuaCode ------------------------------
(* Programs for the compiler and the virtual machine.                      *)
EXTENDS LuaCode

Name(n) == <<"name", n>>
Num(n) == <<"number", n>>
Str(t) == <<"string", t>>
TRUE_ == <<"true">>
FALSE_ == <<"false">>
NIL == <<"nil">>
DOTS == <<"...">>
Bin(op, x, y) == <<"binary", op, x, y>>
Un(op, x) == <<"unary", op, x>>
Paren(e) == <<"paren", e>>
Idx(t, k) == <<"index", t, k>>
Fld(t, n) == <<"index", t, Str(n)>>
CallE(f, args) == <<"call", f, args>>
Method(o, n, args) == <<"method", o, n, args>>
Fun(params, body) == <<"function", params, FALSE, body>>
VFun(params, body) == <<"function", params, TRUE, body>>
Item(e) == <<"item", e>>
Pair(k, e) == <<"pair", k, e>>
Tab(items) == <<"table", items>>

Local(names, es) == <<"local", names, es>>
Local1(n, e) == <<"local", <<n>>, <<e>>>>
Set(targets, es) == <<"assign", targets, es>>
Set1(t, e) == <<"assign", <<t>>, <<e>>>>
Do(f, args) == <<"call", CallE(f, args)>>
Out(args) == Do(Name("out"), args)
Block1(b) == <<"do", b>>
While(e, b) == <<"while", e, b>>
Repeat(b, e) == <<"repeat", b, e>>
If(e, b) == <<"if", <<<<e, b>>>>, <<>>>>
IfElse(e, b, c) == <<"if", <<<<e, b>>>>, c>>
ForNum1(n, es, b) == <<"fornum", n, es, b>>
ForIn1(ns, es, b) == <<"forin", ns, es, b>>
LocalFun(n, f) == <<"localfunction", n, f>>
FunStat(target, f) == <<"function", target, "", f>>
MethodStat(target, n, f) == <<"function", target, n, f>>
Return(es) == <<"return", es>>
Break == <<"break">>

MCCollation == <<"k", "s", "t">>

Good(text) == [text |-> text, faulty |-> 0]
Bad(line, text) == [text |-> text, faulty |-> line]
-----------------------------------------------------------------------------
va == Name("a")
vb == Name("b")
vc == Name("c")
vf == Name("f")
vg == Name("g")
vh == Name("h")
vi == Name("i")
vn == Name("n")
vt == Name("t")
vx == Name("x")
vy == Name("y")
Inc(v) == Set1(v, Bin("+", v, Num(1)))
Calls(f) == CallE(f, <<>>)
-----------------------------------------------------------------------------
(* Conditions and the values of and, or and not, in every place a jump can *)
(* come from or go to.  b is FALSE, c and h are nil.                       *)
Prelude == <<Local(<<"a", "b", "c">>, <<Num(1), FALSE_>>), Set1(vg, Num(3))>>
Conditions == {va, vb, Bin("<", va, Num(2)), Un("not", vc), CallE(Name("out"), <<vc>>)}
Constants1 == {NIL, FALSE_, TRUE_, Num(1)}
AndOr(X, Y) == {Bin(op, x, y) : op \in {"and", "or"}, x \in X, y \in Y}
Simple == AndOr(Conditions, Conditions)
Folded == AndOr(Constants1, {va, vb}) \cup AndOr({va, vb}, Constants1) \cup AndOr(Constants1, Constants1)
Nested(X, Y) == AndOr(X, {Paren(y) : y \in Y}) \cup AndOr({Paren(y) : y \in Y}, X)
                \cup AndOr({Un("not", Paren(y)) : y \in Y}, X)

Shows(e) == <<Out(<<e>>), IfElse(e, <<Out(<<Num(1)>>)>>, <<Out(<<Num(2)>>)>>)>>
Keeps(e) ==
  <<While(e, <<Out(<<Num(1)>>), Break>>), Local1("n", Num(0)),
    Repeat(<<Inc(vn)>>, Bin("or", Paren(e), Bin(">=", vn, Num(2)))),
    Local1("x", e), Set1(vc, e), Set1(vg, Tab(<<Item(e), Pair(Str("k"), e)>>)),
    Return(<<vc, vx, Idx(vg, Num(1)), Fld(vg, "k"), e>>)>>
LogicPrograms ==
  {Prelude \o Shows(e) : e \in Nested(Conditions, Simple) \cup Nested({va, vb}, Folded)}
    \cup {Prelude \o Keeps(e) : e \in Simple \cup Folded \cup Nested({va, vb}, AndOr({va, vb}, {va, vb, Un("not", vc)}))}

(* Operators on numbers, strings and what is neither, seen from a function *)
(* so that an operand may be a local, an upvalue, a global or a field.     *)
Operands == {Num(2), Str("s"), va, vc, vx, vy, vg, vh, Fld(vt, "k"), Fld(vt, "z"), Paren(Bin("+", va, vg))}
Operators == {"+", "/", "%", "..", "==", "<", ">="}
Inside(e) ==
  <<Local(<<"x", "y">>, <<Num(5)>>), Set1(vg, Num(3)), Local1("t", Tab(<<Pair(Str("k"), Num(7))>>)),
    LocalFun("f", Fun(<<"a", "c">>, <<Out(<<vx, vy, vt>>), Local1("n", e), Out(<<vn>>), Return(<<e>>)>>)),
    Out(<<CallE(vf, <<Num(1)>>)>>)>>
Unbracketed == \* trees their text has without parentheses
  LET Times(x, y) == Bin("*", x, y)
      Less(x, y) == Bin("<", x, y)
  IN {Bin("-", Bin("-", vx, va), Num(4)), Bin("+", va, Times(vg, Num(2))), Bin("+", Times(va, vg), Num(2)),
      Bin("/", Times(vg, vx), va), Bin("..", va, Bin("+", vg, va)), Less(va, Bin("+", vx, va)),
      Bin("==", Un("not", va), Un("not", vc)), Times(Un("-", va), vg), Bin("-", vg, Un("-", va)),
      Bin("==", Less(va, vx), TRUE_), Bin("or", vc, Bin("and", va, vx)), Bin("or", Bin("and", vc, va), vx),
      Bin("and", Less(va, vx), Bin("~=", va, vx)), Un("not", Un("not", va)), Un("-", Un("-", va)),
      Bin("and", vc, Bin("..", va, vx)), Bin("<=", Bin("..", va, vx), Num(1)), Bin("+", Un("#", Str("s")), va)}
OperatorPrograms ==
  {Inside(Bin(op, x, y)) : op \in Operators, x \in Operands, y \in Operands}
    \cup {Inside(Bin(op, x, IF op = "-" THEN Paren(Bin(op, y, z)) ELSE Bin(op, y, z))) : op \in {"-", ".."}, x \in {va, Num(2)}, y \in {vc, vg}, z \in {Str("s"), va, Num(4)}}
    \cup {Inside(e) : e \in Unbracketed}
    \cup {Inside(Un(op, x)) : op \in {"#", "not"}, x \in Operands}
    \cup {Inside(Un("-", x)) : x \in Operands}
    \cup {Inside(e) : e \in {Calls(vh), Calls(vc), Calls(vy), Calls(Fld(vt, "z")), Method(vt, "z", <<va>>),
                             Method(vh, "z", <<>>), Fld(vh, "z"), Idx(vc, va), Fld(Fld(vt, "z"), "k"),
                             Idx(Fld(vt, "k"), Num(1)), Calls(CallE(Name("out"), <<va>>))}}
-----------------------------------------------------------------------------
(* Variables that outlive their block.                                     *)
Counter == Fun(<<>>, <<Inc(vx), Return(<<vx>>)>>)
Twice(f) == Out(<<Calls(f), Calls(f)>>)
ClosurePrograms == {
  \* a variable a round
  <<Set1(vg, Tab(<<>>)),
    ForNum1("i", <<Num(1), Num(3)>>, <<Local1("x", vi), Set1(Idx(vg, vi), Counter), Inc(vi)>>),
    Twice(Idx(vg, Num(1))), Twice(Idx(vg, Num(3)))>>,
  \* left by a break
  <<Local1("a", Num(1)),
    While(TRUE_, <<Local1("x", va), Local1("f", Counter),
                   IfElse(Bin("<", va, Num(3)), <<Inc(va), Set1(vg, vf)>>, <<Set1(vh, vf), Break>>)>>),
    Local(<<"y", "n">>, <<Num(8), Num(9)>>), Twice(vg), Twice(vh), Out(<<vy, vn, va>>)>>,
  \* the condition of a repeat sees the block's variables
  <<Local1("n", Num(0)),
    Repeat(<<Local1("x", vn), Inc(vn), If(Bin("==", vn, Num(1)), <<Set1(vh, Counter)>>), Set1(vg, Counter)>>,
           Bin("==", vx, Num(2))),
    Local1("y", Num(7)), Twice(vg), Twice(vh), Out(<<vy>>)>>,
  <<Repeat(<<Local1("x", Num(1)), Set1(vg, Counter), If(vg, <<Break>>)>>, FALSE_), Local1("y", Num(2)), Twice(vg), Out(<<vy>>)>>,
  \* shared, and two levels up
  <<Local1("x", Num(1)),
    LocalFun("f", Fun(<<>>, <<Local1("y", Num(10)),
      Set1(vg, Fun(<<>>, <<Set(<<vx, vy>>, <<Bin("+", vx, vy), vx>>), Return(<<vx, vy>>)>>)),
      Set1(vh, Fun(<<>>, <<Return(<<vy, vx>>)>>)), Inc(vx), Return(<<vy>>)>>)),
    Out(<<Calls(vf)>>), Twice(vg), Out(<<Calls(vh), vx>>)>>,
  \* the variables of generic loops
  <<ForIn1(<<"i">>, <<Name("it"), Num(3), Num(0)>>,
           <<If(Bin("==", vi, Num(2)), <<Set1(vg, Fun(<<>>, <<Inc(vi), Return(<<vi>>)>>)), Break>>), Out(<<vi>>)>>),
    Local(<<"p", "q", "r", "x">>, <<Num(1), Num(2), Num(3), Num(4)>>), Twice(vg), Out(<<vx>>)>>,
  <<Local1("f", Fun(<<"a", "n">>, <<If(Bin("<", vn, va), <<Return(<<Bin("+", vn, Num(1)), vn>>)>>)>>)),
    ForIn1(<<"i", "x">>, <<vf, Num(2), Num(0)>>, <<Set1(vg, Counter), Out(<<vi, vx>>)>>), Twice(vg)>>,
  \* a tail call leaves its caller's variables behind
  <<FunStat(vh, Fun(<<"f">>, <<Local(<<"p", "q", "r">>, <<Num(7), Num(8)>>), Return(<<Calls(vf), Calls(vf)>>)>>)),
    FunStat(vg, Fun(<<"x">>, <<Return(<<CallE(vh, <<Counter>>)>>)>>)), Out(<<CallE(vg, <<Num(1)>>)>>)>>,
  <<Block1(<<Local1("x", Num(1)), Set1(vg, Counter)>>), Local1("y", Num(5)), Block1(<<Local1("x", Num(3)), Twice(vg), Out(<<vx>>)>>), Out(<<vy>>)>>
}
-----------------------------------------------------------------------------
Sum(body) == <<Local1("n", Num(0))>> \o body \o <<Out(<<vn>>)>>
Bounds == {<<Num(1), Num(3)>>, <<Num(3), Num(1)>>, <<Num(3), Num(1), Un("-", Num(1))>>,
           <<Num(1), Num(2), Bin("/", Num(1), Num(2))>>, <<Num(2), Num(2)>>, <<vh, Num(2)>>, <<Num(1), vh>>,
           <<Num(1), Num(2), Str("s")>>}
LoopPrograms ==
  {Sum(<<ForNum1("i", bs, body)>>) : bs \in Bounds,
     body \in {<<>>, <<Inc(vn), Out(<<vi>>)>>, <<Set1(vi, Num(0)), Inc(vn), If(Bin(">", vn, Num(1)), <<Break>>)>>,
               <<Local1("x", vi), While(Bin("<", vx, Num(3)), <<Inc(vx), Inc(vn), If(Bin("==", vx, vn), <<Break>>)>>)>>}}
  \cup {
  Sum(<<While(Bin("<", vn, Num(2)), <<Inc(vn), While(TRUE_, <<If(vn, <<Break>>), Inc(vn)>>), Out(<<vn>>)>>)>>),
  \* a loop on one line
  Sum(<<FunStat(vg, Fun(<<"a">>, <<Inc(vn), Return(<<Bin("<", vn, va)>>)>>)), While(CallE(vg, <<Num(3)>>), <<>>),
        Repeat(<<>>, Un("not", CallE(vg, <<Num(6)>>)))>>),
  Sum(<<While(FALSE_, <<Inc(vn)>>), While(NIL, <<Inc(vn)>>), Repeat(<<Inc(vn)>>, TRUE_), Block1(<<>>)>>),
  Sum(<<Repeat(<<Inc(vn), Repeat(<<Local1("n", vn), Inc(vn)>>, Bin(">", vn, Num(0)))>>, Bin("==", vn, Num(2)))>>),
  Sum(<<ForIn1(<<"i", "x">>, <<Name("it"), Num(2), Num(0)>>, <<Out(<<vi, vx>>)>>), ForIn1(<<"i">>, <<Name("h")>>, <<>>)>>),
  Sum(<<ForIn1(<<"i">>, <<Name("it"), Num(2), Num(0), Num(7)>>, <<Set1(vi, Num(9)), Out(<<vi>>)>>)>>),
  Sum(<<LocalFun("f", Fun(<<"x", "i">>, <<If(Bin("<", vi, vx), <<Return(<<Bin("+", vi, Num(1)), vx>>)>>)>>)),
        ForIn1(<<"i", "y">>, <<vf, Num(2), Num(0)>>, <<Inc(vn), Out(<<vi, vy>>)>>)>>)}
  \cup {Sum(<<Local(<<"a", "b">>, <<x, y>>),
              <<"if", <<<<va, <<Set1(vn, Num(1))>>>>, <<vb, <<>>>>, <<Bin("==", va, vb), <<Local1("n", Num(5)), Set1(vn, Num(3))>>>>>>,
                els>>>>) : x \in {NIL, FALSE_}, y \in {NIL, TRUE_}, els \in {<<>>, <<Set1(vn, Num(4))>>}}
  \cup {Sum(<<IfElse(c, <<Set1(vn, Num(1))>>, <<Set1(vn, Num(2))>>)>>) : c \in {TRUE_, FALSE_, NIL, Num(0), Str("s"), Un("not", NIL)}}

(* Parameters, results, varargs, methods, recursion.                       *)
Pair2 == LocalFun("f", Fun(<<"a", "b">>, <<Return(<<vb, va>>)>>))
Results(es) == <<Pair2, Out(es), Local1("t", Tab([i \in DOMAIN es |-> Item(es[i])])), Out(<<Un("#", vt), Idx(vt, Num(2)), Idx(vt, Num(3))>>),
                 Local(<<"x", "y">>, es), Out(<<vx, vy>>), Set(<<vg, vh, vx>>, es), Out(<<vg, vh, vx>>), Return(es)>>
Two == CallE(vf, <<Num(1), Num(2)>>)
CallPrograms ==
  {Results(es) : es \in {<<Two>>, <<Paren(Two)>>, <<Two, Two>>, <<Num(9), Two>>, <<Two, Num(9)>>, <<CallE(vf, <<>>)>>,
                         <<CallE(vf, <<Two>>)>>, <<CallE(vf, <<Two, Num(3)>>), Num(4), Num(5)>>, <<Num(1), Num(2), Num(3), Num(4)>>}}
  \cup {<<FunStat(vg, VFun(params, body)), Out(<<CallE(vg, args)>>), Return(<<CallE(vg, args), DOTS>>)>> :
     params \in {<<>>, <<"x">>, <<"x", "y">>}, args \in {<<>>, <<Num(1)>>, <<Num(1), Num(2), Num(3)>>},
     body \in {<<Return(<<DOTS>>)>>, <<Local(<<"a", "b">>, <<DOTS>>), Out(<<vb, DOTS>>), Return(<<Paren(DOTS), va>>)>>,
               <<Return(<<Fld(Name("arg"), "n"), Idx(Name("arg"), Num(1))>>)>>,
               <<Return(<<CallE(Name("out"), <<Tab(<<Item(DOTS)>>), DOTS>>)>>)>>}}
  \cup {
  <<FunStat(vg, Fun(<<"n">>, <<If(Bin("<", vn, Num(2)), <<Return(<<vn>>)>>), Return(<<Bin("*", vn, CallE(vg, <<Bin("-", vn, Num(1))>>))>>)>>)), Out(<<CallE(vg, <<Num(3)>>)>>)>>,
  <<LocalFun("f", Fun(<<"n", "x">>, <<If(Bin("<=", vn, Num(0)), <<Return(<<vx, vn>>)>>), Return(<<CallE(vf, <<Bin("-", vn, Num(1)), Bin("..", vx, vn)>>)>>)>>)), Return(<<CallE(vf, <<Num(2), Str("s")>>)>>)>>,
  <<LocalFun("f", Fun(<<"n">>, <<Out(<<vn>>), Return(<<CallE(vg, <<vn>>)>>)>>)), FunStat(vg, VFun(<<"x">>, <<Return(<<vx, DOTS, Bin("+", vx, vh)>>)>>)), Do(vf, <<Num(1)>>)>>,
  <<Local1("t", Tab(<<Pair(Str("x"), Num(1))>>)), MethodStat(vt, "n", Fun(<<"y">>, <<Out(<<Fld(Name("self"), "x"), vy>>), Return(<<Name("self")>>)>>)),
    Out(<<Fld(Method(Method(vt, "n", <<Num(2)>>), "n", <<>>), "x")>>), Set1(Fld(vt, "t"), vt), MethodStat(Fld(vt, "t"), "y", VFun(<<>>, <<Return(<<DOTS>>)>>)), Return(<<Method(vt, "y", <<Num(3), Num(4)>>)>>)>>,
  <<Local1("t", Tab(<<>>)), FunStat(Fld(vt, "f"), Fun(<<"a">>, <<Return(<<Fun(<<>>, <<Return(<<va, vt>>)>>)>>)>>)), Out(<<Calls(CallE(Fld(vt, "f"), <<Num(3)>>))>>), Do(CallE(Fld(vt, "f"), <<>>), <<>>), Do(Fld(vt, "g"), <<>>)>>,
  <<Local1("t", Tab([i \in 1..5 |-> IF i = 3 THEN Pair(Str("x"), Num(0)) ELSE Item(Num(i))])), Out(<<Un("#", vt), Idx(vt, Num(4)), Fld(vt, "x")>>),
    Local1("x", Tab(<<Item(Tab(<<Item(Num(1))>>)), Item(Num(2)), Item(CallE(Name("out"), <<Num(3), Num(4)>>))>>)), Out(<<Un("#", vx), Idx(Idx(vx, Num(1)), Num(1))>>), Do(Name("out"), <<Str("s")>>), Do(Name("out"), <<Tab(<<>>)>>)>>,
  <<Local1("t", Tab(<<Pair(Str("p"), Num(10)), Pair(Str("q"), Num(20)), Pair(Str("r"), Num(30))>>)), Out(<<Fld(vt, "p"), Fld(vt, "r"), Fld(vt, "s")>>), Set1(Fld(vt, "s"), Str("u")),
    FunStat(Fld(vt, "z"), Fun(<<"x">>, <<Out(<<Fld(vx, "s")>>)>>)), <<"call", Method(vt, "z", <<>>)>>, <<"call", Method(vt, "y", <<>>)>>>>}

(* Assignments whose targets use what is assigned.                         *)
Lvalues == {va, vg, vt, Fld(vt, "x"), Idx(vt, va), Idx(vt, vg)}
AssignPrograms ==
  {<<Local(<<"a", "t">>, <<Num(1), Tab(<<Item(Num(5)), Item(Num(6)), Pair(Str("x"), Num(7))>>)>>), Set1(vg, Num(2)), Local1("b", vt),
     Set(<<p, q>>, es), Out(<<va, vg, vt, Idx(vb, Num(1)), Idx(vb, Num(2)), Idx(vb, Num(3)), Fld(vb, "x")>>)>> :
     p \in Lvalues, q \in Lvalues, es \in {<<Num(3), Num(4)>>, <<va, vg>>, <<Num(3)>>, <<CallE(Name("out"), <<Num(8), Num(9)>>)>>, <<vg, Idx(vt, Num(1)), Num(3)>>}}

-----------------------------------------------------------------------------
(* Metatables. t and u have the metatable m, p has none; m has one method. *)
vm == Name("m")
vp == Name("p")
vu == Name("u")
SetMeta_(t, m) == CallE(Name("setmetatable"), <<t, m>>)
DoMeta(t, m) == <<"call", SetMeta_(t, m)>>
Keyed(n) == Tab(<<Pair(Str("k"), Num(n))>>)
WithMeta(method, f, body) ==
  <<Local1("m", Tab(<<>>)), IF f[1] = "function" THEN FunStat(Fld(vm, method), f) ELSE Set1(Fld(vm, method), f),
    Local(<<"t", "u", "p">>, <<SetMeta_(Keyed(7), vm), SetMeta_(Keyed(8), vm), Keyed(9)>>)>> \o body
Bodies == {<<Out(<<va, vb>>), Return(<<Num(5), Num(6)>>)>>, <<Local1("c", Fld(va, "k"))>>,
           <<Return(<<Bin("..", Paren(Bin("<", Fld(va, "k"), Fld(vb, "k"))), vb)>>)>>, <<Return(<<va>>)>>}
Pairs == {<<vt, vu>>, <<vt, Num(2)>>, <<Str("s"), vt>>, <<vp, vu>>, <<vu, vp>>, <<vt, vt>>, <<vp, vp>>, <<vt, vg>>}
Used(e) == <<Local1("n", e), Out(<<vn>>), If(e, <<Out(<<Num(1)>>)>>), Return(<<e>>)>>
EventPrograms ==
  {WithMeta(me[1], Fun(<<"a", "b">>, body), Used(Bin(me[2], xy[1], xy[2]))) : body \in Bodies, xy \in Pairs,
     me \in {<<"__add", "+">>, <<"__concat", "..">>, <<"__eq", "==">>, <<"__eq", "~=">>, <<"__lt", "<">>,
             <<"__lt", ">=">>, <<"__le", "<=">>, <<"__le", "<">>}}
  \cup {WithMeta("__unm", Fun(<<"a">>, body), Used(Un("-", x))) : body \in {<<>>, <<Return(<<Fld(va, "k")>>)>>}, x \in {vt, vp}}
  \cup {WithMeta("__concat", Fun(<<"a", "b">>, <<Return(<<r>>)>>), <<Out(<<Bin("..", x, Bin("..", y, z))>>)>>) :
          x \in {vt, Num(2), vp}, y \in {vt, Str("s"), Num(2), vp}, z \in {vt, Str("t"), vg}, r \in {vb, Str("k")}}
  \cup {WithMeta("__lt", Fun(<<"a", "b">>, <<Return(<<Bin("<", Fld(va, "k"), Fld(vb, "k"))>>)>>),
          <<Local1("n", Num(0)), While(Bin("<", vt, vu), <<Inc(Fld(vt, "k")), Inc(vn)>>),
            Out(<<Bin("<=", vt, vu), Bin(">", vt, vu), Bin("and", Bin("<", vu, vt), vn)>>)>>)}
  \* methods that are not the same, or not functions
  \cup {WithMeta(e, Fun(<<>>, <<Return(<<TRUE_>>)>>), <<Local1("a", Tab(<<Pair(Str(e), IF same THEN Fld(vm, e) ELSE Num(1))>>)), DoMeta(vp, va)>> \o Used(Bin(op, vt, vp))) :
          e \in {"__eq", "__lt", "__add"}, op \in {"==", "<", "<=", "+"}, same \in BOOLEAN}
  \cup {WithMeta("__add", f, Used(Bin("+", vt, Num(1)))) : f \in {Num(1), Name("out"), Tab(<<>>)}}
Lookups == <<Out(<<Fld(vt, "k"), Fld(vt, "x"), Idx(vt, Num(1))>>), Do(vh, <<Fld(vu, "x")>>), Return(<<Method(vt, "x", <<Num(3)>>)>>)>>
Assigns == <<Set1(Fld(vt, "k"), Num(1)), Set(<<Fld(vt, "x"), Fld(vu, "k")>>, <<Num(2)>>), Set1(Fld(vu, "k"), Num(4)),
             FunStat(Fld(vu, "f"), Fun(<<>>, <<>>)), Out(<<Fld(vt, "k"), Fld(vt, "x"), Fld(vu, "k"), Fld(vp, "x"), Fld(vp, "k")>>)>>
Sees == Fun(<<"a", "b", "c">>, <<Out(<<va, vb, vc>>), Return(<<Name("out"), vb>>)>>)
AccessPrograms ==
  {<<Set1(vh, Name("out"))>> \o WithMeta("__index", f, Lookups) : f \in {Sees, Name("out"), Tab(<<Pair(Str("x"), Name("out"))>>), vm, Num(1),
                                           SetMeta_(Tab(<<>>), Tab(<<Pair(Str("__index"), Name("out"))>>))}}
  \cup {WithMeta("__newindex", f, Assigns) : f \in {Sees, Name("out"), Num(1)}}
  \cup {WithMeta("k", Num(0), <<Set1(Fld(vm, "__newindex"), x), y>> \o Assigns) :
          x \in {vp, vu}, y \in {Out(<<>>), DoMeta(vp, Tab(<<Pair(Str("__newindex"), Name("out"))>>))}}
  \cup {WithMeta(e, vm, <<DoMeta(vm, vm), last>>) : e \in {"__index", "__newindex"},
          last \in {Out(<<Fld(vt, "x")>>), Set1(Fld(vt, "x"), Num(1)), Set1(Fld(vm, "k"), Num(1))}}
  \cup {WithMeta("__newindex", Name("out"), <<Set1(Idx(t, k), Num(1)), Out(<<Idx(vp, k)>>)>>) : t \in {vt, vp}, k \in {vg, Bin("/", Num(0), Num(0)), Num(3)}}
  \* a method that was not there when it was first looked for
  \cup {WithMeta("k", Num(0), <<use, Set1(Fld(vm, e), Name("out")), use, Set1(Fld(vm, e), NIL), use>>) :
          e \in {"__index", "__newindex", "__eq"},
          use \in {Out(<<Fld(vt, "x")>>), Set1(Fld(vt, "x"), NIL), Out(<<Bin("==", vt, vu)>>)}}
MetaCallPrograms ==
  {WithMeta("__call", f, body) : f \in {Sees, Name("out"), Num(1), VFun(<<"a">>, <<Return(<<DOTS>>)>>)},
     body \in {<<Out(<<CallE(vt, <<Num(1), Num(2)>>)>>), Do(vt, <<>>)>>, <<Return(<<CallE(vu, <<Num(3)>>)>>)>>,
               <<Set1(Fld(vt, "k"), vu), Return(<<Method(vt, "k", <<Num(3)>>)>>)>>, <<Do(vp, <<>>)>>,
               <<LocalFun("f", Fun(<<"x">>, <<Return(<<CallE(vx, <<vx>>)>>)>>)), Out(<<CallE(vf, <<vt>>)>>)>>}}
  \cup {WithMeta("__call", Fun(<<"a", "b", "c">>, <<If(Bin("<", vc, vb), <<Return(<<Bin("+", vc, Num(1)), va>>)>>)>>),
          <<FunStat(vg, Fun(<<"y">>, <<ForIn1(<<"i", "x">>, <<vy, Num(2), Num(0)>>, <<Out(<<vi, vx>>)>>)>>)), Do(vg, <<vt>>), Do(vg, <<vp>>)>>)}
  \cup {WithMeta("__metatable", x, <<DoMeta(y, z), Out(<<Fld(vp, "x"), Fld(vu, "x")>>)>>) :
          x \in {NIL, FALSE_}, y \in {vt, vp, vg}, z \in {vm, NIL, Num(1), Keyed(1)}}
  \cup {WithMeta("__index", Name("out"), <<Return(<<CallE(Name("setmetatable"), args)>>)>>) : args \in {<<vt>>, <<>>, <<vt, NIL>>}}
(* What the parser must refuse, and the line.                              *)
Locals8 == [i \in 1..8 |-> <<"a", "b", "c", "d", "e", "f", "g", "h">>[i]]
FaultyPrograms == {
  Bad(1, <<Break>>), Bad(3, <<While(TRUE_, <<LocalFun("f", Fun(<<>>, <<Break>>))>>)>>),
  Bad(2, <<LocalFun("f", Fun(<<>>, <<Return(<<DOTS>>)>>))>>), Bad(1, <<Local(Locals8, <<>>)>>),
  Bad(2, <<Local(SubSeq(Locals8, 1, 4), <<>>), ForNum1("i", <<Num(1), Num(2)>>, <<>>)>>),
  Bad(3, <<Local(SubSeq(Locals8, 1, 4), <<>>), LocalFun("x", Fun(<<>>, <<Out(<<va, vb, vc, Name("d")>>)>>))>>),
  Bad(1, <<Set1(Two, Num(1))>>), Bad(1, <<Set(<<vx, Two>>, <<Num(1)>>)>>), Bad(2, <<<<"call", vx>>, Local1("a", Num(1))>>),
  Bad(1, <<Set1(Paren(Two), Num(1))>>), Bad(1, <<Out([i \in 1..20 |-> Num(i)])>>),
  Good(<<Local(SubSeq(Locals8, 1, 6), <<>>), LocalFun("x", Fun(<<>>, <<Out(<<va, vb, vc>>)>>))>>)}
MCPrograms ==
  {Good(text) : text \in LogicPrograms \cup OperatorPrograms \cup ClosurePrograms \cup LoopPrograms
                          \cup CallPrograms \cup AssignPrograms
                          \cup EventPrograms \cup AccessPrograms \cup MetaCallPrograms}
    \cup FaultyPrograms
=============================================================================
