-------------------------------- MODULE LuaAst --------------------------------
(* Lua programs as trees, their tokens, and what they mean by the language: *)
(* the reference the compiler and the virtual machine are checked against.  *)
(* Nothing here translates code of the repository.                          *)
(*                                                                          *)
(* Expressions: <<"nil">> <<"true">> <<"false">> <<"number", n>>            *)
(* <<"string", text>> <<"...">> <<"name", n>> <<"index", e, key>>           *)
(* <<"call", f, args>> <<"method", o, name, args>> <<"binary", op, a, b>>   *)
(* <<"unary", op, a>> <<"paren", e>> <<"table", items>>                     *)
(* <<"function", params, dots, block>>; items are <<"item", e>> and         *)
(* <<"pair", key, e>>. A block is a sequence of statements.                 *)
EXTENDS LuaCompiler
LOCAL INSTANCE TLC

Text(str) == <<str>>
-----------------------------------------------------------------------------
(* Layout: one statement a line, an end on a line of its own.              *)
Token(t, v, line) == [t |-> t, v |-> v, line |-> line]
Word(t, line) == <<Token(t, <<>>, line)>>
Words(ts, line) == [i \in DOMAIN ts |-> Token(ts[i], <<>>, line)]
NameTok(n, line) == <<Token("NAME", Text(n), line)>>
LineAfter(toks, line) == IF toks = <<>> THEN line ELSE Last(toks).line

RECURSIVE ExpToks(_, _), ListToks(_, _), BlockToks(_, _), StatToks(_, _), ArmToks(_, _, _)

NamesToks(names, line) ==
  FlattenSeq([i \in DOMAIN names |->
    (IF i = 1 THEN <<>> ELSE Word(",", line)) \o NameTok(names[i], line)])

ListToks(es, line) ==
  IF es = <<>> THEN <<>>
  ELSE LET first == ExpToks(es[1], line)
       IN IF Len(es) = 1 THEN first
          ELSE first \o Word(",", line) \o ListToks(Tail(es), line)

FunctionToks(f, line) ==
  LET dots == IF f[3] THEN (IF f[2] = <<>> THEN <<>> ELSE Word(",", line)) \o Word("...", line)
              ELSE <<>>
      body == BlockToks(f[4], line + 1)
  IN Word("(", line) \o NamesToks(f[2], line) \o dots \o Word(")", line)
     \o body \o Word("end", LineAfter(body, line) + 1)

ItemToks(it, line) ==
  IF it[1] = "item" THEN ExpToks(it[2], line)
  ELSE Word("[", line) \o ExpToks(it[2], line) \o Words(<<"]", "=">>, line) \o ExpToks(it[3], line)

ExpToks(e, line) ==
  CASE e[1] \in {"nil", "true", "false", "..."} -> Word(e[1], line)
    [] e[1] = "number" -> <<Token("NUMBER", Number(e[2]), line)>>
    [] e[1] = "string" -> <<Token("STRING", Text(e[2]), line)>>
    [] e[1] = "name" -> NameTok(e[2], line)
    [] e[1] = "index" -> ExpToks(e[2], line) \o
         (IF e[3][1] = "string" THEN Word(".", line) \o NameTok(e[3][2], line)
          ELSE Word("[", line) \o ExpToks(e[3], line) \o Word("]", line))
    [] e[1] = "call" /\ Len(e[3]) = 1 /\ e[3][1][1] \in {"string", "table"} ->
         ExpToks(e[2], line) \o ExpToks(e[3][1], line)
    [] e[1] = "call" /\ ~(Len(e[3]) = 1 /\ e[3][1][1] \in {"string", "table"}) ->
         ExpToks(e[2], line) \o Word("(", line) \o ListToks(e[3], line) \o Word(")", line)
    [] e[1] = "method" ->
         ExpToks(e[2], line) \o Word(":", line) \o NameTok(e[3], line) \o Word("(", line)
           \o ListToks(e[4], line) \o Word(")", line)
    [] e[1] = "binary" ->
         ExpToks(e[3], line) \o Word(e[2], line) \o ExpToks(e[4], line)
    [] e[1] = "unary" -> Word(e[2], line) \o ExpToks(e[3], line)
    [] e[1] = "paren" -> Word("(", line) \o ExpToks(e[2], line) \o Word(")", line)
    [] e[1] = "table" ->
         Word("{", line) \o FlattenSeq([i \in DOMAIN e[2] |-> ItemToks(e[2][i], line) \o Word(",", line)])
           \o Word("}", line)
    [] e[1] = "function" -> Word("function", line) \o FunctionToks(e, line)

End(toks, line) == toks \o Word("end", LineAfter(toks, line) + 1)
DoToks(head, body, line) == End(head \o Word("do", line) \o BlockToks(body, line + 1), line)

ArmToks(arms, word, line) ==
  LET head == Word(word, line) \o ExpToks(arms[1][1], line) \o Word("then", line)
      this == head \o BlockToks(arms[1][2], line + 1)
  IN IF Len(arms) = 1 THEN this ELSE this \o ArmToks(Tail(arms), "elseif", LineAfter(this, line) + 1)

StatToks(st, line) ==
  CASE st[1] = "local" ->
         Word("local", line) \o NamesToks(st[2], line)
           \o (IF st[3] = <<>> THEN <<>> ELSE Word("=", line) \o ListToks(st[3], line))
    [] st[1] = "assign" -> ListToks(st[2], line) \o Word("=", line) \o ListToks(st[3], line)
    [] st[1] = "call" -> ExpToks(st[2], line)
    [] st[1] = "do" -> DoToks(<<>>, st[2], line)
    [] st[1] = "while" -> DoToks(Word("while", line) \o ExpToks(st[2], line), st[3], line)
    [] st[1] = "repeat" ->
         LET body == Word("repeat", line) \o BlockToks(st[2], line + 1)
             until == LineAfter(body, line) + 1
         IN body \o Word("until", until) \o ExpToks(st[3], until)
    [] st[1] = "if" ->
         LET arms == ArmToks(st[2], "if", line)
             else == LineAfter(arms, line) + 1
         IN End(IF st[3] = <<>> THEN arms ELSE arms \o Word("else", else) \o BlockToks(st[3], else + 1), line)
    [] st[1] = "fornum" ->
         DoToks(Word("for", line) \o NameTok(st[2], line) \o Word("=", line) \o ListToks(st[3], line),
                st[4], line)
    [] st[1] = "forin" ->
         DoToks(Word("for", line) \o NamesToks(st[2], line) \o Word("in", line) \o ListToks(st[3], line),
                st[4], line)
    [] st[1] = "localfunction" ->
         Words(<<"local", "function">>, line) \o NameTok(st[2], line) \o FunctionToks(st[3], line)
    [] st[1] = "function" -> \* of a name, a field or a method
         Word("function", line) \o ExpToks(st[2], line)
           \o (IF st[3] = "" THEN <<>> ELSE Word(":", line) \o NameTok(st[3], line))
           \o FunctionToks(st[4], line)
    [] st[1] = "return" -> Word("return", line) \o ListToks(st[2], line)
    [] st[1] = "break" -> Words(<<"break", ";">>, line)

BlockToks(b, line) ==
  IF b = <<>> THEN <<>>
  ELSE LET first == StatToks(b[1], line)
       IN first \o BlockToks(Tail(b), LineAfter(first, line) + 1)
NextLine(st, line) == Last(StatToks(st, line)).line + 1

Ending(toks) == toks \o Word("EOS", LineAfter(toks, 1))
Tokens(program) == Ending(BlockToks(program, 1))
=============================================================================
