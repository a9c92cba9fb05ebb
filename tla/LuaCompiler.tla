----------------------------- MODULE LuaCompiler -----------------------------
(* The compiler: the parser (lparser.c), one pass over the tokens that     *)
(* calls the code generator (lcode.c) as it goes. Every operator takes the *)
(* state s of the compiler and returns the next one; s.fs is the FuncState *)
(* of the function being compiled, s.outer those around it, s.e the        *)
(* expression just read (the expdesc the code passes by address), s.r what *)
(* the C function returns. A token has a type t, a value v (of a name, a   *)
(* number, a string) and the line it ends on; the last one is EOS.         *)
EXTENDS LuaProto, SequencesExt

(* kinds with a value in info: VK, VKNUM (the number), VLOCAL, VNONRELOC   *)
(* (a register), VUPVAL, VGLOBAL, VJMP, VRELOCABLE, VCALL, VVARARG (a pc); *)
(* t and f are the lists of jumps out of the expression when it is true,   *)
(* when it is false.                                                       *)
InitExp(k, i) == [k |-> k, info |-> i, aux |-> 0, t |-> NoJump, f |-> NoJump]
HasJumps(e) == e.t # e.f
IsNumeral(e) == e.k = "VKNUM" /\ e.t = NoJump /\ e.f = NoJump
HasMultRet(k) == k \in {"VCALL", "VVARARG"}

Pc(s) == Len(s.fs.code)
InstrOf(s, pc) == s.fs.code[pc + 1]
GetCode(s) == InstrOf(s, s.e.info)
SetInstr(s, pc, i) == [s EXCEPT !.fs.code[pc + 1] = i]
SetA(s, pc, a) == [s EXCEPT !.fs.code[pc + 1].a = a]
SetB(s, pc, b) == [s EXCEPT !.fs.code[pc + 1].b = b]
SetC(s, pc, c) == [s EXCEPT !.fs.code[pc + 1].c = c]

(* luaX_syntaxerror throws: the rest of the tokens is never read.          *)
Fail(s, msg) ==
  IF s.err # <<>> THEN s
  ELSE [s EXCEPT !.err = <<msg, s.toks[s.pos].line>>, !.pos = Len(s.toks), !.look = FALSE]
Require(s, condition, msg) == IF condition THEN s ELSE Fail(s, msg)

(* The functions of the compiler call each other in every direction: those *)
(* that recurse, or that most others use, are called through the one       *)
(* recursive operator Perform, which names them all at the end.                 *)
RECURSIVE Perform(_, _, _)
CodeABC(s, op, a, b, c) == Perform("Code", s, Instruction(op, a, b, c))
Body(s, needself, line) == Perform("Body", s, <<needself, line>>)
MainFunc(s) == Perform("MainFunc", s, 0)
Exp2NextReg(s) == Perform("Exp2NextReg", s, 0)
Exp2AnyReg(s) == Perform("Exp2AnyReg", s, 0)
DischargeVars(s) == Perform("DischargeVars", s, 0)
GoIfTrue(s) == Perform("GoIfTrue", s, 0)
Exp2RK(s) == Perform("Exp2RK", s, 0)
Expr(s) == Perform("Expr", s, 0)
Chunk(s) == Perform("Chunk", s, 0)
Statement(s) == Perform("Statement", s, 0)
PrimarySuffixes(s) == Perform("PrimarySuffixes", s, 0)
Constructor(s) == Perform("Constructor", s, 0)
SingleVar(s) == Perform("SingleVar", s, 0)
Exp2Reg(s, reg) == Perform("Exp2Reg", s, reg)
Discharge2Reg(s, reg) == Perform("Discharge2Reg", s, reg)
Subexpr(s, limit) == Perform("Subexpr", s, limit)
SubexprRest(s, limit) == Perform("SubexprRest", s, limit)
ExpListRest(s, n) == Perform("ExpListRest", s, n)
IfArms(s, out) == Perform("IfArms", s, out)
Assignment(s, vars) == Perform("Assignment", s, vars)
Fields(s, cc) == Perform("Fields", s, cc)
-----------------------------------------------------------------------------
(* Jump lists: a jump holds the offset of the next jump of its list until  *)
(* it is patched.                                                          *)
GetJump(fs, pc) ==
  LET offset == fs.code[pc + 1].b IN IF offset = NoJump THEN NoJump ELSE pc + 1 + offset

RECURSIVE JumpList(_, _)
JumpList(fs, list) ==
  IF list = NoJump THEN <<>> ELSE <<list>> \o JumpList(fs, GetJump(fs, list))

JumpControl(fs, pc) == IF pc >= 1 /\ TestT(fs.code[pc]) THEN pc - 1 ELSE pc
Control(fs, pc) == fs.code[JumpControl(fs, pc) + 1]

FixJump(s, pc, dest) == SetB(s, pc, dest - (pc + 1))

Concat(s, l1, l2) ==
  IF l2 = NoJump THEN [s EXCEPT !.r = l1]
  ELSE IF l1 = NoJump THEN [s EXCEPT !.r = l2]
  ELSE [FixJump(s, Last(JumpList(s.fs, l1)), l2) EXCEPT !.r = l1]

NeedValue(s, list) ==
  \E j \in ToSet(JumpList(s.fs, list)) : Control(s.fs, j).op # "TESTSET"

(* A TESTSET gets its register, or becomes a TEST when no value is wanted  *)
(* or the value is already there.                                          *)
IsTestSet(s, node) == Control(s.fs, node).op = "TESTSET"
PatchTestReg(s, node, reg) ==
  LET i == Control(s.fs, node) IN
  IF i.op # "TESTSET" THEN s
  ELSE IF reg # NoReg /\ reg # i.b THEN SetA(s, JumpControl(s.fs, node), reg)
  ELSE SetInstr(s, JumpControl(s.fs, node),
                [i EXCEPT !.op = "TEST", !.a = i.b, !.b = 0])

RemoveValues(s, list) ==
  FoldLeft(LAMBDA t, node : PatchTestReg(t, node, NoReg), s, JumpList(s.fs, list))

PatchListAux(s, list, vtarget, reg, dtarget) ==
  FoldLeft(LAMBDA t, node :
             FixJump(PatchTestReg(t, node, reg), node,
                     IF IsTestSet(t, node) THEN vtarget ELSE dtarget),
           s, JumpList(s.fs, list))

DischargeJpc(s) ==
  [PatchListAux(s, s.fs.jpc, Pc(s), NoReg, Pc(s)) EXCEPT !.fs.jpc = NoJump]

GetLabel(s) == [s EXCEPT !.fs.lasttarget = Pc(s)]
PatchToHere(s, list) ==
  LET t == Concat(GetLabel(s), s.fs.jpc, list) IN [t EXCEPT !.fs.jpc = t.r]
PatchList(s, list, target) ==
  IF target = Pc(s) THEN PatchToHere(s, list)
  ELSE PatchListAux(s, list, target, NoReg, target)

(* luaK_code: the pending jumps land here; the line is that of the token   *)
(* read last.                                                              *)
DoCode(s, i) ==
  LET t == DischargeJpc(s) IN
  [t EXCEPT !.fs.code = Append(@, [i EXCEPT !.line = s.lastline]), !.r = Pc(s)]
CodeABx(s, op, a, b) == CodeABC(s, op, a, b, 0)
FixLine(s, line) == [s EXCEPT !.fs.code[Pc(s)].line = line]

(* The jumps to here join the new jump instead of landing on it.           *)
Jump(s) ==
  LET t == CodeABx([s EXCEPT !.fs.jpc = NoJump], "JMP", 0, NoJump)
  IN Concat(t, t.r, s.fs.jpc)
CondJump(s, op, a, b, c) == Jump(CodeABC(s, op, a, b, c))
Ret(s, first, nret) == CodeABC(s, "RETURN", first, nret + 1, 0)
-----------------------------------------------------------------------------
(* Registers and constants.                                                *)
\* mutant: the registers are counted after they were taken
CheckStackLate(s, n) ==
  IF s.fs.freereg <= s.fs.maxstack THEN s
  ELSE Require([s EXCEPT !.fs.maxstack = s.fs.freereg], s.fs.freereg < MaxStack, "too complex")
CheckStack(s, n) ==
  LET newstack == s.fs.freereg + n IN
  IF newstack <= s.fs.maxstack THEN s
  ELSE Require([s EXCEPT !.fs.maxstack = newstack], newstack < MaxStack, "too complex")
ReserveRegs(s, n) ==
  LET t == CheckStack(s, n) IN [t EXCEPT !.fs.freereg = @ + n]
FreeReg(s, reg) ==
  IF ~IsK(reg) /\ reg >= s.fs.nactvar THEN [s EXCEPT !.fs.freereg = @ - 1] ELSE s
FreeExpOf(s, e) == IF e.k = "VNONRELOC" THEN FreeReg(s, e.info) ELSE s
FreeExp(s) == FreeExpOf(s, s.e)

AddK(s, v) ==
  IF v \in ToSet(s.fs.k) THEN [s EXCEPT !.r = (CHOOSE i \in DOMAIN s.fs.k : s.fs.k[i] = v) - 1]
  ELSE [s EXCEPT !.fs.k = Append(@, v), !.r = Len(s.fs.k)]

(* luaK_nil: joins the LOADNIL before it; at the start of a function the   *)
(* registers are clean.                                                    *)
LoadNil(s, from, n) ==
  LET last == InstrOf(s, Pc(s) - 1)
      noTarget == Pc(s) > s.fs.lasttarget
      joins == Pc(s) > 0 /\ last.op = "LOADNIL" /\ last.a <= from /\ from <= last.b + 1
  IN IF noTarget /\ Pc(s) = 0 /\ from >= s.fs.nactvar THEN s
     ELSE IF noTarget /\ joins THEN
            IF from + n - 1 > last.b THEN SetB(s, Pc(s) - 1, from + n - 1) ELSE s
     ELSE CodeABC(s, "LOADNIL", from, from + n - 1, 0)

SetReturns(s, nresults) ==
  CASE s.e.k = "VCALL" -> SetC(s, s.e.info, nresults + 1)
    [] s.e.k = "VVARARG" ->
         ReserveRegs(SetA(SetB(s, s.e.info, nresults + 1), s.e.info, s.fs.freereg), 1)
    [] OTHER -> s
SetMultRet(s) == SetReturns(s, MultRet)

Becomes(s, k, info) == [s EXCEPT !.e.k = k, !.e.info = info]
SetOneRet(s) ==
  CASE s.e.k = "VCALL" -> Becomes(s, "VNONRELOC", GetCode(s).a)
    [] s.e.k = "VVARARG" -> Becomes(SetB(s, s.e.info, 2), "VRELOCABLE", s.e.info)
    [] OTHER -> s

(* luaK_dischargevars: the value of a variable, in some register.          *)
DoDischargeVars(s) ==
  LET Relocable(t) == Becomes(t, "VRELOCABLE", t.r) IN
  CASE s.e.k = "VLOCAL" -> [s EXCEPT !.e.k = "VNONRELOC"]
    [] s.e.k = "VUPVAL" -> Relocable(CodeABC(s, "GETUPVAL", 0, s.e.info, 0))
    [] s.e.k = "VGLOBAL" -> Relocable(CodeABx(s, "GETGLOBAL", 0, s.e.info))
    [] s.e.k = "VINDEXED" ->
         Relocable(CodeABC(FreeReg(FreeReg(s, s.e.aux), s.e.info),
                           "GETTABLE", 0, s.e.info, s.e.aux))
    [] HasMultRet(s.e.k) -> SetOneRet(s)
    [] OTHER -> s

DoDischarge2Reg(s0, reg) ==
  LET s == DischargeVars(s0)
      InReg(t) == Becomes(t, "VNONRELOC", reg)
  IN CASE s.e.k = "VNIL" -> InReg(LoadNil(s, reg, 1))
       [] s.e.k \in {"VTRUE", "VFALSE"} ->
            InReg(CodeABC(s, "LOADBOOL", reg, IF s.e.k = "VTRUE" THEN 1 ELSE 0, 0))
       [] s.e.k = "VK" -> InReg(CodeABx(s, "LOADK", reg, s.e.info))
       [] s.e.k = "VKNUM" ->
            LET t == AddK(s, s.e.info) IN InReg(CodeABx(t, "LOADK", reg, t.r))
       [] s.e.k = "VRELOCABLE" -> InReg(SetA(s, s.e.info, reg))
       [] s.e.k = "VNONRELOC" ->
            InReg(IF reg = s.e.info THEN s ELSE CodeABC(s, "MOVE", reg, s.e.info, 0))
       [] OTHER -> s  \* VVOID, VJMP

Discharge2AnyReg(s) ==
  IF s.e.k = "VNONRELOC" THEN s
  ELSE LET t == ReserveRegs(s, 1) IN Discharge2Reg(t, t.fs.freereg - 1)

(* exp2reg: a jump without a value gets a LOADBOOL to land on.             *)
DoExp2Reg(s0, reg) ==
  LET s1 == Discharge2Reg(s0, reg)
      c1 == Concat(s1, s1.e.t, s1.e.info)
      s == IF s1.e.k = "VJMP" THEN [c1 EXCEPT !.e.t = c1.r] ELSE s1
      Label(t, b, skip) == CodeABC(GetLabel(t), "LOADBOOL", reg, b, skip)
      jumped == IF s.e.k = "VJMP" THEN [s EXCEPT !.r = NoJump] ELSE Jump(s)
      loadf == Label(jumped, 0, 1)
      loadt == Label(loadf, 1, 0)
      needed == NeedValue(s, s.e.t) \/ NeedValue(s, s.e.f)
      here == GetLabel(IF needed THEN PatchToHere(loadt, jumped.r) ELSE s)
      final == Pc(here)
      patched == PatchListAux(PatchListAux(here, s.e.f, final, reg,
                                           IF needed THEN loadf.r ELSE NoJump),
                              s.e.t, final, reg, IF needed THEN loadt.r ELSE NoJump)
  IN [IF HasJumps(s.e) THEN patched ELSE s EXCEPT !.e = InitExp("VNONRELOC", reg)]

DoExp2NextReg(s) ==
  LET t == ReserveRegs(FreeExp(DischargeVars(s)), 1) IN Exp2Reg(t, t.fs.freereg - 1)

DoExp2AnyReg(s0) ==
  LET s == DischargeVars(s0)
      InPlace(t) == [t EXCEPT !.r = t.e.info]
  IN CASE s.e.k = "VNONRELOC" /\ ~HasJumps(s.e) -> InPlace(s)
       [] s.e.k = "VNONRELOC" /\ HasJumps(s.e) /\ s.e.info >= s.fs.nactvar ->
            InPlace(Exp2Reg(s, s.e.info))
       [] OTHER -> InPlace(Exp2NextReg(s))

Exp2Val(s) == IF HasJumps(s.e) THEN Exp2AnyReg(s) ELSE DischargeVars(s)

DoExp2RK(s0) ==
  LET s == Exp2Val(s0)
      v == CASE s.e.k = "VKNUM" -> s.e.info [] s.e.k = "VNIL" -> Nil
             [] OTHER -> Boolean(s.e.k = "VTRUE")
      t == AddK(s, v)
  IN CASE s.e.k \in {"VKNUM", "VTRUE", "VFALSE", "VNIL"} /\ Len(s.fs.k) <= MaxIndexRK ->
            [t EXCEPT !.e.k = "VK", !.e.info = t.r, !.r = RKAsK(t.r)]
       [] s.e.k = "VK" /\ s.e.info <= MaxIndexRK -> [s EXCEPT !.r = RKAsK(s.e.info)]
       [] OTHER -> Exp2AnyReg(s)

(* luaK_storevar: the expression s.e into the variable var.                *)
StoreVar(s, var) ==
  LET any == Exp2AnyReg(s)
      rk == Exp2RK(s)
  IN CASE var.k = "VLOCAL" -> Exp2Reg(FreeExp(s), var.info)
       [] var.k = "VUPVAL" -> FreeExp(CodeABC(any, "SETUPVAL", any.r, var.info, 0))
       [] var.k = "VGLOBAL" -> FreeExp(CodeABx(any, "SETGLOBAL", any.r, var.info))
       [] var.k = "VINDEXED" -> FreeExp(CodeABC(rk, "SETTABLE", var.info, var.aux, rk.r))
       [] OTHER -> s

(* luaK_self: the object and its method into two new registers.            *)
Self(s0, key) ==
  LET s == FreeExp(Exp2AnyReg(s0))
      func == s.fs.freereg
      rk == Exp2RK([ReserveRegs(s, 2) EXCEPT !.e = key])
      coded == FreeExp(CodeABC(rk, "SELF", func, s.e.info, rk.r))
  IN [coded EXCEPT !.e = [s.e EXCEPT !.k = "VNONRELOC", !.info = func]]
-----------------------------------------------------------------------------
(* Conditions: the jump is taken when the condition fails (goiftrue) or    *)
(* holds (goiffalse), and the other list lands here.                       *)
InvertJump(s) ==
  LET pc == JumpControl(s.fs, s.e.info) IN SetA(s, pc, 1 - InstrOf(s, pc).a)

JumpOnCond(s, cond) ==
  IF s.e.k = "VRELOCABLE" /\ GetCode(s).op = "NOT"
  THEN CondJump([s EXCEPT !.fs.code = Front(@)], "TEST", GetCode(s).b, 0, 1 - cond)
  ELSE LET t == FreeExp(Discharge2AnyReg(s))
       IN CondJump(t, "TESTSET", NoReg, t.e.info, cond)

DoGoIfTrue(s0) ==
  LET s == DischargeVars(s0)
      j == CASE s.e.k \in {"VK", "VKNUM", "VTRUE"} -> [s EXCEPT !.r = NoJump]
             [] s.e.k = "VFALSE" -> Jump(s)
             [] s.e.k = "VJMP" -> [InvertJump(s) EXCEPT !.r = s.e.info]
             [] OTHER -> JumpOnCond(s, 0)
      c == Concat(j, j.e.f, j.r)
  IN [PatchToHere([c EXCEPT !.e.f = c.r], c.e.t) EXCEPT !.e.t = NoJump]

GoIfFalse(s0) ==
  LET s == DischargeVars(s0)
      j == CASE s.e.k \in {"VNIL", "VFALSE"} -> [s EXCEPT !.r = NoJump]
             [] s.e.k = "VTRUE" -> Jump(s)
             [] s.e.k = "VJMP" -> [s EXCEPT !.r = s.e.info]
             [] OTHER -> JumpOnCond(s, 1)
      c == Concat(j, j.e.t, j.r)
  IN [PatchToHere([c EXCEPT !.e.t = c.r], c.e.f) EXCEPT !.e.f = NoJump]

CodeNot(s0) ==
  LET s == DischargeVars(s0)
      reg == FreeExp(Discharge2AnyReg(s))
      coded == CodeABC(reg, "NOT", 0, reg.e.info, 0)
      n == CASE s.e.k \in {"VNIL", "VFALSE"} -> [s EXCEPT !.e.k = "VTRUE"]
             [] s.e.k \in {"VK", "VKNUM", "VTRUE"} -> [s EXCEPT !.e.k = "VFALSE"]
             [] s.e.k = "VJMP" -> InvertJump(s)
             [] OTHER -> Becomes(coded, "VRELOCABLE", coded.r)
  IN RemoveValues(RemoveValues([n EXCEPT !.e.f = n.e.t, !.e.t = n.e.f], n.e.t), n.e.f)
-----------------------------------------------------------------------------
(* Operators. e1 is the left operand, s.e the right one.                   *)
Indexed(s, t) ==
  LET k == Exp2RK(s) IN [k EXCEPT !.e = [t EXCEPT !.k = "VINDEXED", !.aux = k.r]]

Folds(op, e1, e2) ==
  /\ IsNumeral(e1) /\ IsNumeral(e2)
  /\ op # "LEN" /\ op # "CONCAT"
  /\ op \in {"DIV", "MOD"} => ~NumEq(e2.info, Number(0))
  /\ ~IsNaN(ArithResult(op, e1.info, e2.info))

CodeArith(s, op, e1) ==
  LET e2 == s.e
      right == IF op \in {"UNM", "LEN"} THEN [s EXCEPT !.r = 0] ELSE Exp2RK(s)
      left == Exp2RK([right EXCEPT !.e = e1])
      freed == IF left.r > right.r THEN FreeExpOf(FreeExp(left), right.e)
               ELSE FreeExp(FreeExpOf(left, right.e))
      coded == CodeABC(freed, op, 0, left.r, right.r)
  IN IF Folds(op, e1, e2) THEN [s EXCEPT !.e = [e1 EXCEPT !.info = ArithResult(op, @, e2.info)]]
     ELSE Becomes(coded, "VRELOCABLE", coded.r)

CodeComp(s, op, cond, e1) ==
  LET left == Exp2RK([s EXCEPT !.e = e1])
      right == Exp2RK([left EXCEPT !.e = s.e])
      freed == FreeExpOf(FreeExp(right), left.e)
      swapped == cond = 0 /\ op # "EQ"
      coded == IF swapped THEN CondJump(freed, op, 1, right.r, left.r)
               ELSE CondJump(freed, op, cond, left.r, right.r)
  IN [coded EXCEPT !.e = [left.e EXCEPT !.k = "VJMP", !.info = coded.r]]

UnaryOps == {"-", "not", "#"}
Prefix(s, op) ==
  LET Operate(t, code) == CodeArith([t EXCEPT !.e = InitExp("VKNUM", Number(0))], code, t.e)
  IN CASE op = "-" -> Operate(IF s.e.k = "VK" THEN Exp2AnyReg(s) ELSE s, "UNM")
       [] op = "not" -> CodeNot(s)
       [] op = "#" -> Operate(Exp2AnyReg(s), "LEN")

(* What the left operand becomes before the right one is read.             *)
Infix(s, op) ==
  CASE op = "and" -> GoIfTrue(s)
    [] op = "or" -> GoIfFalse(s)
    [] op = ".." -> Exp2NextReg(s)
    [] op \in {"+", "-", "*", "/", "%"} -> IF IsNumeral(s.e) THEN s ELSE Exp2RK(s)
    [] OTHER -> Exp2RK(s)

ArithCode == [x \in {"+", "-", "*", "/", "%"} |->
  CASE x = "+" -> "ADD" [] x = "-" -> "SUB" [] x = "*" -> "MUL" [] x = "/" -> "DIV" [] x = "%" -> "MOD"]
CompCode == [x \in {"==", "~=", "<", "<=", ">", ">="} |->
  CASE x = "==" -> <<"EQ", 1>> [] x = "~=" -> <<"EQ", 0>> [] x = "<" -> <<"LT", 1>>
    [] x = "<=" -> <<"LE", 1>> [] x = ">" -> <<"LT", 0>> [] x = ">=" -> <<"LE", 0>>]

(* A concatenation that ends in a concatenation extends its registers.     *)
PosfixConcat(s0, e1) ==
  LET s == Exp2Val(s0)
      extended == SetB(FreeExpOf(s, e1), s.e.info, e1.info)
  IN IF s.e.k = "VRELOCABLE" /\ GetCode(s).op = "CONCAT"
     THEN [extended EXCEPT !.e = [e1 EXCEPT !.k = "VRELOCABLE", !.info = s.e.info]]
     ELSE CodeArith(Exp2NextReg(s), "CONCAT", e1)

Posfix(s, op, e1) ==
  LET d == DischargeVars(s)
      jf == Concat(d, d.e.f, e1.f)
      jt == Concat(d, d.e.t, e1.t)
  IN CASE op = "and" -> [jf EXCEPT !.e.f = jf.r]
       [] op = "or" -> [jt EXCEPT !.e.t = jt.r]
       [] op = ".." -> PosfixConcat(s, e1)
       [] op \in DOMAIN ArithCode -> CodeArith(s, ArithCode[op], e1)
       [] OTHER -> CodeComp(s, CompCode[op][1], CompCode[op][2], e1)

SetList(s, base, nelems, tostore) ==
  LET c == (nelems - 1) \div FieldsPerFlush + 1
      b == IF tostore = MultRet THEN 0 ELSE tostore
  IN [CodeABC(s, "SETLIST", base, b, c) EXCEPT !.fs.freereg = base + 1]
-----------------------------------------------------------------------------

(* luaX_next and luaX_lookahead. linenumber is the line of the last token  *)
(* read, lastline that of the last token left.                             *)
Tok(s) == s.toks[s.pos].t
TokValue(s) == s.toks[s.pos].v
LineNumber(s) == s.toks[IF s.look THEN s.pos + 1 ELSE s.pos].line
Lookahead(s) == [s EXCEPT !.look = TRUE]
Skip(s) ==
  [s EXCEPT !.lastline = LineNumber(s), !.look = FALSE,
            !.pos = IF @ < Len(s.toks) THEN @ + 1 ELSE @]

Check(s, t) == Require(s, Tok(s) = t, "expected")
CheckNext(s, t) == Skip(Check(s, t))
CheckMatch(s, what) == IF Tok(s) = what THEN Skip(s) ELSE Check(s, what)
TestNext(s, t) == IF Tok(s) = t THEN Skip(s) ELSE s

NewFunc(line) ==
  [code |-> <<>>, k |-> <<>>, p |-> <<>>, locvars |-> <<>>, actvar |-> <<>>, nactvar |-> 0,
   freereg |-> 0, jpc |-> NoJump, lasttarget |-> -1, bl |-> <<>>, upvalues |-> <<>>,
   vararg |-> {}, numparams |-> 0, maxstack |-> 2, linedefined |-> line, lastlinedefined |-> 0]
-----------------------------------------------------------------------------
(* Local variables, blocks and upvalues.                                   *)
\* mutant: one variable too many
NewLocalVarLate(s, name, n) ==
  LET t == Require(s, s.fs.nactvar + n <= MaxVars, "local variables") IN
  [t EXCEPT !.fs.locvars = Append(@, [name |-> name, startpc |-> 0, endpc |-> 0]),
            !.fs.actvar = Append(SubSeq(@, 1, s.fs.nactvar + n), Len(s.fs.locvars) + 1)]
NewLocalVar(s, name, n) ==
  LET t == Require(s, s.fs.nactvar + n + 1 <= MaxVars, "local variables") IN
  [t EXCEPT !.fs.locvars = Append(@, [name |-> name, startpc |-> 0, endpc |-> 0]),
            !.fs.actvar = Append(SubSeq(@, 1, s.fs.nactvar + n), Len(s.fs.locvars) + 1)]
VarAt(fs, i) == fs.actvar[i + 1]

AdjustLocalVars(s, n) ==
  LET first == s.fs.nactvar
      new == {VarAt(s.fs, i) : i \in first..(first + n - 1)}
  IN [s EXCEPT !.fs.nactvar = @ + n,
               !.fs.locvars = [i \in DOMAIN @ |-> IF i \in new THEN [@[i] EXCEPT !.startpc = Pc(s)]
                                                  ELSE @[i]]]
RemoveVars(s, level) ==
  LET gone == {VarAt(s.fs, i) : i \in level..(s.fs.nactvar - 1)}
  IN [s EXCEPT !.fs.nactvar = level,
               !.fs.locvars = [i \in DOMAIN @ |-> IF i \in gone THEN [@[i] EXCEPT !.endpc = Pc(s)]
                                                  ELSE @[i]]]

EnterBlock(s, isbreakable) ==
  [s EXCEPT !.fs.bl = Append(@, [breaklist |-> NoJump, isbreakable |-> isbreakable,
                                 nactvar |-> s.fs.nactvar, upval |-> FALSE])]
LeaveBlock(s) ==
  LET bl == Last(s.fs.bl)
      gone == RemoveVars([s EXCEPT !.fs.bl = Front(@)], bl.nactvar)
      closed == IF bl.upval THEN CodeABC(gone, "CLOSE", bl.nactvar, 0, 0) ELSE gone
  IN PatchToHere([closed EXCEPT !.fs.freereg = bl.nactvar], bl.breaklist)

SearchVar(fs, name) ==
  LET found == {i \in 0..(fs.nactvar - 1) : fs.locvars[VarAt(fs, i)].name = name}
  IN IF found = {} THEN -1 ELSE CHOOSE i \in found : \A j \in found : j <= i

(* markupval: the innermost block that began before the variable closes it.*)
MarkUpval(fs, level) ==
  LET around == {b \in DOMAIN fs.bl : fs.bl[b].nactvar <= level}
  IN IF around = {} THEN fs
     ELSE [fs EXCEPT !.bl[CHOOSE b \in around : \A c \in around : c <= b].upval = TRUE]

IndexUpvalue(fs, name, v) ==
  LET known == {i \in DOMAIN fs.upvalues : fs.upvalues[i].k = v.k /\ fs.upvalues[i].info = v.info}
  IN IF known # {} THEN [fs |-> fs, index |-> (CHOOSE i \in known : TRUE) - 1]
     ELSE [fs |-> [fs EXCEPT !.upvalues = Append(@, [k |-> v.k, info |-> v.info, name |-> name])],
           index |-> Len(fs.upvalues)]

(* singlevaraux on the chain of functions, the innermost last.             *)
RECURSIVE SingleVarAux(_, _, _)
SingleVarAux(chain, name, base) ==
  IF chain = <<>> THEN [chain |-> chain, var |-> InitExp("VGLOBAL", NoReg)]
  ELSE LET fs == Last(chain)
           i == SearchVar(fs, name)
           up == SingleVarAux(Front(chain), name, FALSE)
           indexed == IndexUpvalue(fs, name, up.var)
       IN IF i >= 0 THEN [chain |-> Append(Front(chain), IF base THEN fs ELSE MarkUpval(fs, i)),
                          var |-> InitExp("VLOCAL", i)]
          ELSE IF up.var.k = "VGLOBAL" THEN [chain |-> Append(up.chain, fs), var |-> up.var]
          ELSE [chain |-> Append(up.chain, indexed.fs), var |-> InitExp("VUPVAL", indexed.index)]

CodeString(s, str) ==
  LET t == AddK(s, String(str)) IN [t EXCEPT !.e = InitExp("VK", t.r)]
CheckName(s) == CodeString(CheckNext(s, "NAME"), TokValue(s))

DoSingleVar(s0) ==
  LET name == TokValue(s0)
      s == CheckNext(s0, "NAME")
      found == SingleVarAux(Append(s.outer, s.fs), name, TRUE)
      t == Require([s EXCEPT !.outer = Front(found.chain), !.fs = Last(found.chain), !.e = found.var],
                   \A i \in DOMAIN found.chain : Len(found.chain[i].upvalues) <= MaxUpvalues, "upvalues")
      k == AddK(t, String(name))
  IN IF found.var.k = "VGLOBAL" THEN [k EXCEPT !.e.info = k.r] ELSE t

(* As many values as variables: the last expression makes up for it.       *)
AdjustAssign(s, nvars, nexps) ==
  LET extra == nvars - nexps
      open == IF extra + 1 < 0 THEN 0 ELSE extra + 1
      returned == SetReturns(s, open)
      last == IF s.e.k = "VVOID" THEN s ELSE Exp2NextReg(s)
  IN IF HasMultRet(s.e.k) THEN IF open > 1 THEN ReserveRegs(returned, open - 1) ELSE returned
     ELSE IF extra > 0 THEN LoadNil(ReserveRegs(last, extra), last.fs.freereg, extra)
     ELSE last

CloseFunc(s) == Ret(RemoveVars(s, 0), 0, 0)

PushClosure(s, func) ==
  LET c == CodeABx([s EXCEPT !.fs.p = Append(@, Proto(func))], "CLOSURE", 0, Len(s.fs.p))
      Capture(t, u) == CodeABC(t, IF u.k = "VLOCAL" THEN "MOVE" ELSE "GETUPVAL", 0, u.info, 0)
  IN FoldLeft(Capture, [c EXCEPT !.e = InitExp("VRELOCABLE", c.r)], func.upvalues)
-----------------------------------------------------------------------------

Block(s) == LeaveBlock(Chunk(EnterBlock(s, FALSE)))

DoExpListRest(s, n) ==
  IF Tok(s) = "," THEN ExpListRest(Expr(Exp2NextReg(Skip(s))), n + 1) ELSE [s EXCEPT !.r = n]
ExpList1(s) == ExpListRest(Expr(s), 1)

Field(s) == LET t == Exp2AnyReg(s) IN Indexed(CheckName(Skip(t)), t.e)
YIndex(s) == CheckNext(Exp2Val(Expr(Skip(s))), "]")

(* Constructors: cc.v is the item read last and not stored yet.            *)
RecField(s, cc) ==
  LET key == Exp2RK(CheckNext(IF Tok(s) = "NAME" THEN CheckName(s) ELSE YIndex(s), "="))
      value == Exp2RK(Expr(key))
      coded == CodeABC(value, "SETTABLE", cc.t, key.r, value.r)
  IN [s |-> [coded EXCEPT !.fs.freereg = s.fs.freereg], cc |-> [cc EXCEPT !.nh = @ + 1]]

ListField(s, cc) ==
  LET t == Expr(s)
  IN [s |-> t, cc |-> [cc EXCEPT !.v = t.e, !.na = @ + 1, !.tostore = @ + 1]]

CloseListField(s, cc) ==
  LET t == Exp2NextReg([s EXCEPT !.e = cc.v])
      full == cc.tostore = FieldsPerFlush
  IN IF cc.v.k = "VVOID" THEN [s |-> s, cc |-> cc]
     ELSE [s |-> IF full THEN SetList(t, cc.t, cc.na, cc.tostore) ELSE t,
           cc |-> [cc EXCEPT !.v = InitExp("VVOID", 0), !.tostore = IF full THEN 0 ELSE @]]

LastListField(s0, cc) ==
  LET s == [s0 EXCEPT !.e = cc.v]
  IN IF cc.tostore = 0 THEN [s |-> s, cc |-> cc]
     ELSE IF HasMultRet(cc.v.k)
     THEN [s |-> SetList(SetMultRet(s), cc.t, cc.na, MultRet), cc |-> [cc EXCEPT !.na = @ - 1]]
     ELSE [s |-> SetList(IF cc.v.k = "VVOID" THEN s ELSE Exp2NextReg(s), cc.t, cc.na, cc.tostore),
           cc |-> cc]

DoFields(s, cc) ==
  LET c == CloseListField(s, cc)
      look == Lookahead(c.s)
      named == Tok(c.s) = "NAME"
      item == IF named /\ look.toks[look.pos + 1].t # "=" THEN ListField(look, c.cc)
              ELSE IF named THEN RecField(look, c.cc)
              ELSE IF Tok(c.s) = "[" THEN RecField(c.s, c.cc)
              ELSE ListField(c.s, c.cc)
  IN IF Tok(s) = "}" THEN [s |-> s, cc |-> cc]
     ELSE IF Tok(item.s) \in {",", ";"} THEN Fields(Skip(item.s), item.cc)
     ELSE item

(* The sizes in NEWTABLE only reserve room in the table.                   *)
DoConstructor(s) ==
  LET new == CodeABC(s, "NEWTABLE", 0, 0, 0)
      pc == new.r
      t == Exp2NextReg([new EXCEPT !.e = InitExp("VRELOCABLE", pc)])
      cc == [t |-> t.e.info, v |-> InitExp("VVOID", 0), na |-> 0, nh |-> 0, tostore |-> 0]
      read == Fields(CheckNext(t, "{"), cc)
      last == LastListField(CheckMatch(read.s, "}"), read.cc)
  IN [SetC(SetB(last.s, pc, last.cc.na), pc, last.cc.nh) EXCEPT !.e = t.e]

(* Parameters; `...` declares arg as well (LUA_COMPAT_VARARG).             *)
RECURSIVE ParList(_, _)
ParList(s, n) ==
  CASE Tok(s) = "NAME" ->
         LET t == NewLocalVar(Skip(s), TokValue(s), n)
         IN IF Tok(t) = "," THEN ParList(Skip(t), n + 1) ELSE [t EXCEPT !.r = n + 1]
    [] Tok(s) = "..." ->
         [NewLocalVar(Skip(s), <<"arg">>, n) EXCEPT !.fs.vararg = {"has", "needs", "is"}, !.r = n + 1]
    [] OTHER -> Fail([s EXCEPT !.r = n], "<name> or '...' expected")

DoBody(s, needself, line) ==
  LET open == CheckNext([s EXCEPT !.outer = Append(@, s.fs), !.fs = NewFunc(line)], "(")
      self == IF needself THEN AdjustLocalVars(NewLocalVar(open, <<"self">>, 0), 1) ELSE open
      pars == IF Tok(self) = ")" THEN [self EXCEPT !.r = 0] ELSE ParList(self, 0)
      fixed == AdjustLocalVars(pars, pars.r)
      n == fixed.fs.nactvar
      typed == [fixed EXCEPT !.fs.numparams = IF "has" \in fixed.fs.vararg THEN n - 1 ELSE n]
      chunk == Chunk(CheckNext(ReserveRegs(typed, n), ")"))
      done == CloseFunc(CheckMatch([chunk EXCEPT !.fs.lastlinedefined = LineNumber(chunk)], "end"))
  IN PushClosure([done EXCEPT !.fs = Last(done.outer), !.outer = Front(done.outer)], done.fs)

FuncArgs(s) ==
  LET line == LineNumber(s)
      open == Skip(Require(s, line = s.lastline, "ambiguous syntax"))
      args == CASE Tok(s) = "(" /\ Tok(open) = ")" -> Skip([open EXCEPT !.e = InitExp("VVOID", 0)])
                [] Tok(s) = "(" /\ Tok(open) # ")" -> CheckMatch(SetMultRet(ExpList1(open)), ")")
                [] Tok(s) = "{" -> Constructor(s)
                [] Tok(s) = "STRING" -> Skip(CodeString(s, TokValue(s)))
                [] OTHER -> Fail(s, "function arguments expected")
      base == s.e.info
      last == IF HasMultRet(args.e.k) \/ args.e.k = "VVOID" THEN args ELSE Exp2NextReg(args)
      nparams == IF HasMultRet(args.e.k) THEN MultRet ELSE last.fs.freereg - (base + 1)
      call == FixLine(CodeABC(last, "CALL", base, nparams + 1, 2), line)
  IN [call EXCEPT !.e = InitExp("VCALL", call.r), !.fs.freereg = base + 1]

PrefixExp(s) ==
  CASE Tok(s) = "(" -> DischargeVars(CheckMatch(Expr(Skip(s)), ")"))
    [] Tok(s) = "NAME" -> SingleVar(s)
    [] OTHER -> [Fail(s, "unexpected symbol") EXCEPT !.e = InitExp("VVOID", 0)]

DoPrimarySuffixes(s) ==
  LET any == Exp2AnyReg(s)
      name == CheckName(Skip(s))
  IN CASE Tok(s) = "." -> PrimarySuffixes(Field(s))
       [] Tok(s) = "[" -> PrimarySuffixes(Indexed(YIndex(any), any.e))
       [] Tok(s) = ":" -> PrimarySuffixes(FuncArgs(Self([name EXCEPT !.e = s.e], name.e)))
       [] Tok(s) \in {"(", "STRING", "{"} -> PrimarySuffixes(FuncArgs(Exp2NextReg(s)))
       [] OTHER -> s
PrimaryExp(s) == PrimarySuffixes(PrefixExp(s))

SimpleExp(s) ==
  LET Constant(k, i) == Skip([s EXCEPT !.e = InitExp(k, i)])
      dots == Require(s, "is" \in s.fs.vararg, "cannot use '...' outside a vararg function")
      vararg == CodeABC([dots EXCEPT !.fs.vararg = @ \ {"needs"}], "VARARG", 0, 1, 0)
  IN CASE Tok(s) = "NUMBER" -> Constant("VKNUM", TokValue(s))
       [] Tok(s) = "STRING" -> Skip(CodeString(s, TokValue(s)))
       [] Tok(s) = "nil" -> Constant("VNIL", 0)
       [] Tok(s) = "true" -> Constant("VTRUE", 0)
       [] Tok(s) = "false" -> Constant("VFALSE", 0)
       [] Tok(s) = "..." -> Skip([vararg EXCEPT !.e = InitExp("VVARARG", vararg.r)])
       [] Tok(s) = "{" -> Constructor(s)
       [] Tok(s) = "function" -> LET t == Skip(s) IN Body(t, FALSE, LineNumber(t))
       [] OTHER -> PrimaryExp(s)

(* The left and right priorities of the binary operators.                  *)
Priority(op) ==
  CASE op = "or" -> <<1, 1>> [] op = "and" -> <<2, 2>>
    [] op \in DOMAIN CompCode -> <<3, 3>>
    [] op = ".." -> <<5, 4>>
    [] op \in {"+", "-"} -> <<6, 6>> [] op \in {"*", "/", "%"} -> <<7, 7>>
UnaryPriority == 8
BinaryOps == {"or", "and", ".."} \cup DOMAIN CompCode \cup DOMAIN ArithCode

DoSubexpr(s, limit) ==
  LET operand == Subexpr(Skip(s), UnaryPriority)
      first == IF Tok(s) \in UnaryOps THEN Prefix(operand, Tok(s)) ELSE SimpleExp(s)
  IN SubexprRest(first, limit)
DoSubexprRest(s, limit) ==
  IF Tok(s) \notin BinaryOps \/ Priority(Tok(s))[1] <= limit THEN s
  ELSE LET left == Infix(Skip(s), Tok(s))
           right == Subexpr(left, Priority(Tok(s))[2])
       IN SubexprRest(Posfix(right, Tok(s), left.e), limit)
DoExpr(s) == Subexpr(s, 0)
-----------------------------------------------------------------------------
(* Statements.                                                             *)

\* mutant: no copy is kept
NoConflict(s, vars) == [s |-> s, vars |-> vars]
(* check_conflict: a local assigned to is also the table or the key of an  *)
(* earlier target: that target keeps a copy.                               *)
ConflictsWith(v, local) == v.k = "VINDEXED" /\ local.info \in {v.info, v.aux}
CheckConflict(s, vars) ==
  LET extra == s.fs.freereg
      Safe(i) == IF i = s.e.info THEN extra ELSE i
      saved == ReserveRegs(CodeABC(s, "MOVE", extra, s.e.info, 0), 1)
      conflict == s.e.k = "VLOCAL" /\ \E i \in DOMAIN vars : ConflictsWith(vars[i], s.e)
  IN IF ~conflict THEN [s |-> s, vars |-> vars]
     ELSE [s |-> [saved EXCEPT !.e = s.e],
           vars |-> [i \in DOMAIN vars |->
             IF vars[i].k = "VINDEXED"
             THEN [vars[i] EXCEPT !.info = Safe(@), !.aux = Safe(@)] ELSE vars[i]]]

StoreTop(s, var) == StoreVar([s EXCEPT !.e = InitExp("VNONRELOC", s.fs.freereg - 1)], var)
StoreTops(s, vars) == FoldRight(LAMBDA var, t : StoreTop(t, var), vars, s)

Assignables == {"VLOCAL", "VUPVAL", "VGLOBAL", "VINDEXED"}
DoAssignment(s0, vars) ==
  LET s == Require(s0, Last(vars).k \in Assignables, "syntax error")
      next == PrimaryExp(Skip(s))
      checked == CheckConflict(next, vars)
      exps == ExpList1(CheckNext(s, "="))
      nvars == Len(vars)
      adjusted == AdjustAssign(exps, nvars, exps.r)
      dropped == IF exps.r > nvars THEN exps.r - nvars ELSE 0
  IN IF Tok(s) = "," THEN Assignment(checked.s, Append(checked.vars, next.e))
     ELSE IF exps.r = nvars
     THEN StoreTops(StoreVar(SetOneRet(exps), Last(vars)), Front(vars))
     ELSE StoreTops([adjusted EXCEPT !.fs.freereg = @ - dropped], vars)

ExprStat(s) ==
  LET t == PrimaryExp(s)
  IN IF t.e.k = "VCALL" THEN SetC(t, t.e.info, 1) ELSE Assignment(t, <<t.e>>)

Cond(s) ==
  LET t == Expr(s)
      u == GoIfTrue(IF t.e.k = "VNIL" THEN [t EXCEPT !.e.k = "VFALSE"] ELSE t)
  IN [u EXCEPT !.r = u.e.f]

\* mutant: the variables of the blocks left stay open
BreakOpen(s) ==
  LET loops == {b \in DOMAIN s.fs.bl : s.fs.bl[b].isbreakable}
      loop == CHOOSE b \in loops : \A c \in loops : c <= b
      jump == Jump(s)
      joined == Concat(jump, s.fs.bl[loop].breaklist, jump.r)
  IN IF loops = {} THEN Fail(s, "no loop to break")
     ELSE [joined EXCEPT !.fs.bl[loop].breaklist = joined.r]
(* The blocks left by the break are those inside the nearest loop.         *)
BreakStat(s) ==
  LET loops == {b \in DOMAIN s.fs.bl : s.fs.bl[b].isbreakable}
      loop == CHOOSE b \in loops : \A c \in loops : c <= b
      upval == \E b \in (loop + 1)..Len(s.fs.bl) : s.fs.bl[b].upval
      closed == IF upval THEN CodeABC(s, "CLOSE", s.fs.bl[loop].nactvar, 0, 0) ELSE s
      jump == Jump(closed)
      joined == Concat(jump, s.fs.bl[loop].breaklist, jump.r)
  IN IF loops = {} THEN Fail(s, "no loop to break")
     ELSE [joined EXCEPT !.fs.bl[loop].breaklist = joined.r]

WhileStat(s) ==
  LET init == GetLabel(Skip(s))
      cond == Cond(init)
      body == Jump(Block(CheckNext(EnterBlock(cond, TRUE), "do")))
      loop == LeaveBlock(CheckMatch(PatchList(body, body.r, Pc(init)), "end"))
  IN PatchToHere(loop, cond.r)

RepeatStat(s) ==
  LET init == Pc(s)
      scope == EnterBlock(EnterBlock(GetLabel(s), TRUE), FALSE)
      cond == Cond(CheckMatch(Chunk(Skip(scope)), "until"))
      left == LeaveBlock(cond)
      again == Jump(LeaveBlock(PatchToHere(BreakStat(cond), cond.r)))
  IN LeaveBlock(IF ~Last(cond.fs.bl).upval THEN PatchList(left, cond.r, init)
                ELSE PatchList(again, again.r, init))

ForBody(s, base, line, nvars, isnum) ==
  LET do == CheckNext(AdjustLocalVars(s, 3), "do")
      prep == IF isnum THEN CodeABx(do, "FORPREP", base, NoJump) ELSE Jump(do)
      scope == ReserveRegs(AdjustLocalVars(EnterBlock(prep, FALSE), nvars), nvars)
      body == PatchToHere(LeaveBlock(Block(scope)), prep.r)
      endfor == FixLine(IF isnum THEN CodeABx(body, "FORLOOP", base, NoJump)
                        ELSE CodeABC(body, "TFORLOOP", base, 0, nvars), line)
      jump == Jump(endfor)
  IN IF isnum THEN PatchList(endfor, Pc(body), prep.r + 1)
     ELSE PatchList(jump, jump.r, prep.r + 1)

Exp1(s) == Exp2NextReg(Expr(s))
Literals(s, names) ==
  FoldLeft(LAMBDA t, n : NewLocalVar(t, names[n], n - 1), s, [n \in DOMAIN names |-> n])

ForNum(s, name, line) ==
  LET vars == Literals(s, <<<<"(for index)">>, <<"(for limit)">>, <<"(for step)">>, name>>)
      limit == Exp1(CheckNext(Exp1(CheckNext(vars, "=")), ","))
      one == AddK(limit, Number(1))
      step == IF Tok(limit) = "," THEN Exp1(Skip(limit))
              ELSE ReserveRegs(CodeABx(one, "LOADK", limit.fs.freereg, one.r), 1)
  IN ForBody(step, s.fs.freereg, line, 1, TRUE)

RECURSIVE MoreNames(_, _)
MoreNames(s, n) ==
  IF Tok(s) # "," THEN [s EXCEPT !.r = n]
  ELSE LET t == Skip(s) IN MoreNames(NewLocalVar(CheckNext(t, "NAME"), TokValue(t), n), n + 1)

ForList(s, name) ==
  LET hidden == Literals(s, <<<<"(for generator)">>, <<"(for state)">>, <<"(for control)">>, name>>)
      vars == MoreNames(hidden, 4)
      in == CheckNext(vars, "in")
      exps == ExpList1(in)
  IN ForBody(CheckStack(AdjustAssign(exps, 3, exps.r), 3), s.fs.freereg, LineNumber(in),
             vars.r - 3, FALSE)

ForStat(s, line) ==
  LET for == Skip(EnterBlock(s, TRUE))
      named == CheckNext(for, "NAME")
      loop == CASE Tok(named) = "=" -> ForNum(named, TokValue(for), line)
                [] Tok(named) \in {",", "in"} -> ForList(named, TokValue(for))
                [] OTHER -> Fail(named, "'=' or 'in' expected")
  IN LeaveBlock(CheckMatch(loop, "end"))

(* One arm of an if after the other; out is the list of jumps to its end.  *)
DoIfArms(s, out) ==
  LET cond == Cond(Skip(s))
      then == Block(CheckNext(cond, "then"))
      jump == Jump(then)
      escape == Concat(jump, out, jump.r)
      next == PatchToHere(escape, cond.r)
      last == Concat(then, out, cond.r)
  IN CASE Tok(then) = "elseif" -> IfArms(next, escape.r)
       [] Tok(then) = "else" -> [Block(Skip(next)) EXCEPT !.r = escape.r]
       [] OTHER -> last
IfStat(s) ==
  LET arms == IfArms(s, NoJump) IN CheckMatch(PatchToHere(arms, arms.r), "end")

(* The function can see its own name, the debugger only once it is stored. *)
LocalFunc(s) ==
  LET var == NewLocalVar(CheckNext(s, "NAME"), TokValue(s), 0)
      v == InitExp("VLOCAL", var.fs.freereg)
      declared == AdjustLocalVars(ReserveRegs(var, 1), 1)
      stored == StoreVar(Body(declared, FALSE, LineNumber(declared)), v)
  IN [stored EXCEPT !.fs.locvars[VarAt(stored.fs, stored.fs.nactvar - 1)].startpc = Pc(stored)]

LocalStat(s) ==
  LET names == MoreNames(NewLocalVar(CheckNext(s, "NAME"), TokValue(s), 0), 1)
      exps == IF Tok(names) = "=" THEN ExpList1(Skip(names))
              ELSE [names EXCEPT !.e = InitExp("VVOID", 0), !.r = 0]
  IN AdjustLocalVars(AdjustAssign(exps, names.r, exps.r), names.r)

RECURSIVE NameFields(_)
NameFields(s) == IF Tok(s) = "." THEN NameFields(Field(s)) ELSE s
FuncStat(s, line) ==
  LET name == NameFields(SingleVar(Skip(s)))
      needself == Tok(name) = ":"
      target == IF needself THEN Field(name) ELSE name
  IN FixLine(StoreVar(Body(target, needself, line), target.e), line)

BlockFollow == {"else", "elseif", "end", "until", "EOS"}

(* A single call returned is a tail call.                                  *)
RetStat(s0) ==
  LET s == Skip(s0)
      exps == ExpList1(s)
      multi == SetMultRet(exps)
      tail == IF exps.e.k = "VCALL" /\ exps.r = 1
              THEN [multi EXCEPT !.fs.code[exps.e.info + 1].op = "TAILCALL"] ELSE multi
      any == Exp2AnyReg(exps)
      next == Exp2NextReg(exps)
  IN IF Tok(s) \in BlockFollow \cup {";"} THEN Ret(s, 0, 0)
     ELSE IF HasMultRet(exps.e.k) THEN Ret(tail, exps.fs.nactvar, MultRet)
     ELSE IF exps.r = 1 THEN Ret(any, any.r, 1)
     ELSE Ret(next, next.fs.nactvar, exps.r)

DoStatement(s) ==
  CASE Tok(s) = "if" -> IfStat(s)
    [] Tok(s) = "while" -> WhileStat(s)
    [] Tok(s) = "do" -> CheckMatch(Block(Skip(s)), "end")
    [] Tok(s) = "for" -> ForStat(s, LineNumber(s))
    [] Tok(s) = "repeat" -> RepeatStat(s)
    [] Tok(s) = "function" -> FuncStat(s, LineNumber(s))
    [] Tok(s) = "local" ->
         LET t == Skip(s) IN IF Tok(t) = "function" THEN LocalFunc(Skip(t)) ELSE LocalStat(t)
    [] Tok(s) = "return" -> RetStat(s)
    [] Tok(s) = "break" -> BreakStat(Skip(s))
    [] OTHER -> ExprStat(s)

DoChunk(s) ==
  LET t == TestNext(Statement(s), ";")
      freed == [t EXCEPT !.fs.freereg = t.fs.nactvar]
  IN IF Tok(s) \in BlockFollow THEN s
     ELSE IF Tok(s) \in {"return", "break"} THEN freed
     ELSE Chunk(freed)

DoMainFunc(s) == CloseFunc(Check(Chunk(s), "EOS"))

Perform(f, s, x) ==
  CASE f = "Code" -> DoCode(s, x)
    [] f = "Body" -> DoBody(s, x[1], x[2])
    [] f = "MainFunc" -> DoMainFunc(s)
    [] f = "Exp2NextReg" -> DoExp2NextReg(s)
    [] f = "Exp2AnyReg" -> DoExp2AnyReg(s)
    [] f = "DischargeVars" -> DoDischargeVars(s)
    [] f = "GoIfTrue" -> DoGoIfTrue(s)
    [] f = "Exp2RK" -> DoExp2RK(s)
    [] f = "Expr" -> DoExpr(s)
    [] f = "Chunk" -> DoChunk(s)
    [] f = "Statement" -> DoStatement(s)
    [] f = "PrimarySuffixes" -> DoPrimarySuffixes(s)
    [] f = "Constructor" -> DoConstructor(s)
    [] f = "SingleVar" -> DoSingleVar(s)
    [] f = "Exp2Reg" -> DoExp2Reg(s, x)
    [] f = "Discharge2Reg" -> DoDischarge2Reg(s, x)
    [] f = "Subexpr" -> DoSubexpr(s, x)
    [] f = "SubexprRest" -> DoSubexprRest(s, x)
    [] f = "ExpListRest" -> DoExpListRest(s, x)
    [] f = "IfArms" -> DoIfArms(s, x)
    [] f = "Assignment" -> DoAssignment(s, x)
    [] f = "Fields" -> DoFields(s, x)

(* luaY_parser: err is empty, or what is wrong and the line.               *)
Compiled(s) == [err |-> s.err, main |-> Proto(s.fs)]
Parser(toks) ==
  Compiled(MainFunc(
    [toks |-> toks, pos |-> 1, look |-> FALSE, lastline |-> 1, err |-> <<>>,
     fs |-> [NewFunc(0) EXCEPT !.vararg = {"is"}], outer |-> <<>>,
     e |-> InitExp("VVOID", 0), r |-> 0]))
==============================================================================
