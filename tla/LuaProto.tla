------------------------------ MODULE LuaProto ------------------------------
(* Lua values, instructions and function prototypes as open-ldb's compiler *)
(* builds them and its virtual machine reads them (lopcodes.h, lopcodes.c, *)
(* lobject.h, lparser.h), and the code checker of ldebug.c.                *)
EXTENDS Integers, Sequences, FiniteSets
LOCAL INSTANCE TLC

CONSTANTS
  FieldsPerFlush, \* LFIELDS_PER_FLUSH: list items stored by one SETLIST
  MaxIndexRK,     \* MAXINDEXRK: the last constant an RK operand can name
  MaxStack,       \* MAXSTACK: registers of a function
  MaxVars,        \* LUAI_MAXVARS: local variables of a function
  MaxUpvalues,    \* LUAI_MAXUPVALUES
  MaxTagLoop,     \* MAXTAGLOOP: tables tried for an index
  Collation       \* the texts that are compared, in the order of strcoll

ASSUME LimitsAssumption ==
  /\ FieldsPerFlush \in Nat \ {0}
  /\ MaxIndexRK \in 0..254
  /\ MaxStack \in 1..250
  /\ MaxVars \in 1..200
  /\ MaxUpvalues \in 1..60
  /\ MaxTagLoop \in Nat \ {0}
-----------------------------------------------------------------------------
(* Values: a pair of a type and what tells two values of it apart. A       *)
(* number is a fraction <<n, d>> in lowest terms, d >= 0; d = 0 is an      *)
(* infinity or not-a-number. A string is a sequence of pieces of text.     *)
Nil == <<"nil">>
Boolean(b) == <<"boolean", b>>
String(pieces) == <<"string", pieces>>
TypeOf(v) == v[1]
IsFalse(v) == v \in {Nil, Boolean(FALSE)}

Abs(n) == IF n < 0 THEN -n ELSE n
Gcd[a \in Nat, b \in Nat] == IF b = 0 THEN a ELSE Gcd[b, a % b]
Sign(n) == IF n < 0 THEN -1 ELSE IF n = 0 THEN 0 ELSE 1
Fraction(n, d) ==
  IF d = 0 THEN <<Sign(n), 0>>
  ELSE LET g == Gcd[Abs(n), Abs(d)] IN <<Sign(d) * (n \div g), Abs(d) \div g>>
Number(n) == <<"number", <<n, 1>>>>
Rational(f) == <<"number", f>>
NaN == Rational(<<0, 0>>)
IsNaN(v) == v = NaN

NumAdd(x, y) == Rational(Fraction(x[2][1] * y[2][2] + y[2][1] * x[2][2], x[2][2] * y[2][2]))
NumMul(x, y) == Rational(Fraction(x[2][1] * y[2][1], x[2][2] * y[2][2]))
NumUnm(x) == Rational(<<-x[2][1], x[2][2]>>)
NumSub(x, y) == NumAdd(x, NumUnm(y))
NumDiv(x, y) ==
  IF y[2][2] = 0 /\ x[2][2] = 0 THEN NaN
  ELSE Rational(Fraction(x[2][1] * y[2][2],
                         x[2][2] * (IF y[2][1] = 0 /\ y[2][2] = 1 THEN 0 ELSE y[2][1])))
NumMod(x, y) ==
  IF x[2][2] = 0 \/ y[2][2] = 0 \/ y[2][1] = 0 THEN NaN
  ELSE LET q == NumDiv(x, y)[2] IN NumSub(x, NumMul(Number(q[1] \div q[2]), y))
NumLt(x, y) ==
  /\ ~IsNaN(x) /\ ~IsNaN(y)
  /\ IF x[2][2] = 0 /\ y[2][2] = 0 THEN x[2][1] < y[2][1]
     ELSE x[2][1] * y[2][2] < y[2][1] * x[2][2]
NumEq(x, y) == x = y /\ ~IsNaN(x)
NumLe(x, y) == NumLt(x, y) \/ NumEq(x, y)

(* A number as text is one piece.                                          *)
NumberText(v) == <<ToString(v[2])>>
Concatenable(v) == TypeOf(v) \in {"string", "number"}
ToText(v) == IF TypeOf(v) = "number" THEN NumberText(v) ELSE v[2]
Equal(x, y) == IF TypeOf(x) = "number" /\ TypeOf(y) = "number" THEN NumEq(x, y) ELSE x = y

(* Tables are functions from keys to what is not nil; a border is where    *)
(* the numbering from 1 ends.                                              *)
Get(f, x) == IF x \in DOMAIN f THEN f[x] ELSE Nil
Put(f, x, v) ==
  IF v = Nil THEN [y \in DOMAIN f \ {x} |-> f[y]]
  ELSE [y \in DOMAIN f \cup {x} |-> IF y = x THEN v ELSE f[y]]
Border(f) == CHOOSE n \in 0..Cardinality(DOMAIN f) :
               Number(n + 1) \notin DOMAIN f /\ \A i \in 1..n : Number(i) \in DOMAIN f
ArgTable(rest) == \* the table arg of a vararg function
  [k \in {Number(i) : i \in DOMAIN rest} \cup {String(<<"n">>)} |->
     IF TypeOf(k) = "string" THEN Number(Len(rest)) ELSE rest[k[2][1]]]

Unnamed == <<"", "">> \* a value or a function that has no name

(* What is seen of a value from outside.                                   *)
Shown(v) ==
  IF TypeOf(v) \in {"nil", "boolean", "number", "string"} THEN v
  ELSE <<IF TypeOf(v) = "builtin" THEN "function" ELSE TypeOf(v)>>
ShownAll(vs) == [i \in DOMAIN vs |-> Shown(vs[i])]

(* Three C functions: out records its arguments and returns them; it counts *)
(* from its second argument up to its first; setmetatable needs the heap.  *)
Builtins == {"out", "it", "setmetatable"}
CallBuiltin(n, args) ==
  IF n = "out" THEN args
  ELSE IF NumLt(args[2], args[1]) THEN <<NumAdd(args[2], Number(1))>> ELSE <<Nil>>

(* Strings are ordered by the collation of the C library.                  *)
StrLt(x, y) ==
  LET Place(v) == CHOOSE i \in DOMAIN Collation : String(<<Collation[i]>>) = v
  IN Place(x) < Place(y)

Events == [ADD |-> "__add", SUB |-> "__sub", MUL |-> "__mul", DIV |-> "__div", MOD |-> "__mod", UNM |-> "__unm"]
ArithOps == {"ADD", "SUB", "MUL", "DIV", "MOD"}
ArithResult(op, x, y) ==
  CASE op = "ADD" -> NumAdd(x, y) [] op = "SUB" -> NumSub(x, y)
    [] op = "MUL" -> NumMul(x, y) [] op = "DIV" -> NumDiv(x, y)
    [] op = "MOD" -> NumMod(x, y) [] op = "UNM" -> NumUnm(x)
-----------------------------------------------------------------------------
(* Instructions. Bx and sBx are kept in b. The operand modes of ABC        *)
(* instructions: "N" unused, "U" a number, "R" a register, "K" a register  *)
(* or a constant.                                                          *)
NoJump == -1
NoReg == 255
MultRet == -1
BitRK == 256
RKAsK(i) == i + BitRK
IsK(r) == r >= BitRK
IndexK(r) == r - BitRK

Mode(t, a, b, c, m) == [test |-> t = 1, setsA |-> a = 1, b |-> b, c |-> c, mode |-> m]
OpModes ==
  [MOVE |-> Mode(0, 1, "R", "N", "ABC"), LOADK |-> Mode(0, 1, "K", "N", "ABx"),
   LOADBOOL |-> Mode(0, 1, "U", "U", "ABC"), LOADNIL |-> Mode(0, 1, "R", "N", "ABC"),
   GETUPVAL |-> Mode(0, 1, "U", "N", "ABC"), GETGLOBAL |-> Mode(0, 1, "K", "N", "ABx"),
   GETTABLE |-> Mode(0, 1, "R", "K", "ABC"), SETGLOBAL |-> Mode(0, 0, "K", "N", "ABx"),
   SETUPVAL |-> Mode(0, 0, "U", "N", "ABC"), SETTABLE |-> Mode(0, 0, "K", "K", "ABC"),
   NEWTABLE |-> Mode(0, 1, "U", "U", "ABC"), SELF |-> Mode(0, 1, "R", "K", "ABC"),
   ADD |-> Mode(0, 1, "K", "K", "ABC"), SUB |-> Mode(0, 1, "K", "K", "ABC"),
   MUL |-> Mode(0, 1, "K", "K", "ABC"), DIV |-> Mode(0, 1, "K", "K", "ABC"),
   MOD |-> Mode(0, 1, "K", "K", "ABC"), UNM |-> Mode(0, 1, "R", "N", "ABC"),
   NOT |-> Mode(0, 1, "R", "N", "ABC"), LEN |-> Mode(0, 1, "R", "N", "ABC"),
   CONCAT |-> Mode(0, 1, "R", "R", "ABC"), JMP |-> Mode(0, 0, "R", "N", "AsBx"),
   EQ |-> Mode(1, 0, "K", "K", "ABC"), LT |-> Mode(1, 0, "K", "K", "ABC"),
   LE |-> Mode(1, 0, "K", "K", "ABC"), TEST |-> Mode(1, 1, "R", "U", "ABC"),
   TESTSET |-> Mode(1, 1, "R", "U", "ABC"), CALL |-> Mode(0, 1, "U", "U", "ABC"),
   TAILCALL |-> Mode(0, 1, "U", "U", "ABC"), RETURN |-> Mode(0, 0, "U", "N", "ABC"),
   FORLOOP |-> Mode(0, 1, "R", "N", "AsBx"), FORPREP |-> Mode(0, 1, "R", "N", "AsBx"),
   TFORLOOP |-> Mode(1, 0, "N", "U", "ABC"), SETLIST |-> Mode(0, 0, "U", "U", "ABC"),
   CLOSE |-> Mode(0, 0, "N", "N", "ABC"), CLOSURE |-> Mode(0, 1, "U", "N", "ABx"),
   VARARG |-> Mode(0, 1, "U", "N", "ABC")]

Instruction(op, a, b, c) == [op |-> op, a |-> a, b |-> b, c |-> c, line |-> 0]
TestT(i) == OpModes[i.op].test

(* What the compiler hands over of a function: a Proto.                    *)
Proto(fs) ==
  [code |-> fs.code, k |-> fs.k, p |-> fs.p, locvars |-> fs.locvars,
   upvalues |-> [i \in DOMAIN fs.upvalues |-> fs.upvalues[i].name],
   numparams |-> fs.numparams, vararg |-> fs.vararg, maxstack |-> fs.maxstack,
   linedefined |-> fs.linedefined, lastlinedefined |-> fs.lastlinedefined]

InstrAt(p, pc) == p.code[pc + 1]
Size(p) == Len(p.code)
LineAt(p, pc) == InstrAt(p, pc).line

(* luaF_getlocalname: the variables active at pc, innermost last; the n-th *)
(* is the value of register n - 1.                                         *)
ActiveNames(p, pc) ==
  LET Active(v) == v.startpc <= pc /\ pc < v.endpc
  IN LET named == SelectSeq(p.locvars, Active) IN [i \in DOMAIN named |-> named[i].name]
-----------------------------------------------------------------------------
(* luaG_checkcode: what close_func asserts of every function it has        *)
(* compiled.                                                               *)
PreCheck(p) ==
  /\ p.maxstack <= MaxStack
  /\ p.numparams + (IF "has" \in p.vararg THEN 1 ELSE 0) <= p.maxstack
  /\ "needs" \in p.vararg => "has" \in p.vararg
  /\ InstrAt(p, Size(p) - 1).op = "RETURN"

(* An instruction after an open call or vararg takes all the results.      *)
CheckOpenOp(p, pc) ==
  /\ InstrAt(p, pc + 1).op \in {"CALL", "TAILCALL", "RETURN", "SETLIST"}
  /\ InstrAt(p, pc + 1).b = 0

CheckReg(p, r) == r < p.maxstack

CheckArg(p, r, mode) ==
  CASE mode = "N" -> r = 0
    [] mode = "U" -> TRUE
    [] mode = "R" -> CheckReg(p, r)
    [] mode = "K" -> IF IsK(r) THEN IndexK(r) < Len(p.k) ELSE CheckReg(p, r)

CheckOperands(p, pc, i) ==
  CASE OpModes[i.op].mode = "ABC" ->
         CheckArg(p, i.b, OpModes[i.op].b) /\ CheckArg(p, i.c, OpModes[i.op].c)
    [] OpModes[i.op].mode = "ABx" -> OpModes[i.op].b = "K" => i.b < Len(p.k)
    [] OpModes[i.op].mode = "AsBx" -> pc + 1 + i.b \in 0..(Size(p) - 1)

CheckInstruction(p, pc) ==
  LET i == InstrAt(p, pc) IN
  /\ CheckReg(p, i.a)
  /\ CheckOperands(p, pc, i)
  /\ TestT(i) => pc + 2 < Size(p) /\ InstrAt(p, pc + 1).op = "JMP"
  /\ CASE i.op = "LOADBOOL" -> i.c = 0 \/ pc + 2 < Size(p)
       [] i.op \in {"GETUPVAL", "SETUPVAL"} -> i.b < Len(p.upvalues)
       [] i.op \in {"GETGLOBAL", "SETGLOBAL"} -> TypeOf(p.k[i.b + 1]) = "string"
       [] i.op = "SELF" -> CheckReg(p, i.a + 1)
       [] i.op = "CONCAT" -> i.b < i.c
       [] i.op = "TFORLOOP" -> i.c >= 1 /\ CheckReg(p, i.a + 2 + i.c)
       [] i.op \in {"FORLOOP", "FORPREP"} -> CheckReg(p, i.a + 3)
       [] i.op \in {"CALL", "TAILCALL"} ->
            /\ i.b # 0 => CheckReg(p, i.a + i.b - 1)
            /\ IF i.c = 0 THEN CheckOpenOp(p, pc)
               ELSE i.c > 1 => CheckReg(p, i.a + i.c - 2)
       [] i.op = "RETURN" -> i.b > 1 => CheckReg(p, i.a + i.b - 2)
       [] i.op = "SETLIST" -> i.b > 0 => CheckReg(p, i.a + i.b)
       [] i.op = "CLOSURE" ->
            /\ i.b < Len(p.p)
            /\ LET nup == Len(p.p[i.b + 1].upvalues) IN
               /\ pc + nup < Size(p)
               /\ \A j \in 1..nup : InstrAt(p, pc + j).op \in {"GETUPVAL", "MOVE"}
       [] i.op = "VARARG" ->
            /\ "is" \in p.vararg /\ "needs" \notin p.vararg
            /\ i.b = 0 => CheckOpenOp(p, pc)
            /\ CheckReg(p, i.a + i.b - 2)
       [] OTHER -> TRUE

CheckFunction(p) == PreCheck(p) /\ \A pc \in 0..(Size(p) - 1) : CheckInstruction(p, pc)
RECURSIVE CheckCode(_)
CheckCode(p) == CheckFunction(p) /\ \A j \in DOMAIN p.p : CheckCode(p.p[j])
=============================================================================
