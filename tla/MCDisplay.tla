----------------------------- MODULE MCDisplay ------------------------------
(* Instances of Display for TLC: call stacks with locals of several types, *)
(* and globals of every type.                                              *)
EXTENDS Display

Num(n) == Value("number", <<n>>, TRUE, <<>>)
Str(text) == Value("string", text, TRUE, <<>>)
Bool(b) == Value("boolean", <<>>, b, <<>>)
Fun == Value("function", <<>>, TRUE, <<>>)
File == Value("userdata", <<>>, TRUE, <<>>)
Table(entries) == Value("table", <<>>, TRUE, entries)
Pair(k, v) == [key |-> k, value |-> v]

Local(n, v) == [name |-> n, value |-> v]
Frame(source, line, name, locals) ==
  [source |-> source, currentline |-> line, name |-> name, locals |-> locals]
Global(n, v) == [name |-> n, value |-> v]

MainFrame == Frame("a.lua", "9", "main", <<Local("x", Num("1"))>>)
Sort == Frame("a.lua", "4", "sort",
              <<Local("x", Str(<<"abc">>)), Local("done", Bool(FALSE)),
                Local("t", Table(<<Pair(Num("1"), Num("7"))>>))>>)
Loop == Frame("a.lua", "6", "loop",
              <<Local(ForIndex, Num("2")), Local("i", Num("2")),
                Local("i", Num("3")), Local("s", Str(<<"a", Bar, "b">>))>>)
Helper == Frame("b.lua", "2", "help", <<>>)

MCStacks == {<<MainFrame>>, <<Sort, MainFrame>>, <<Loop, MainFrame>>,
             <<Helper, Sort, MainFrame>>}
MCTwoStacks == {<<MainFrame>>, <<Sort, MainFrame>>}

MCPool == {Global("n", Num("5")), Global("s", Str(<<"abc">>)),
           Global("e", Str(<<>>)), Global("b", Bool(TRUE)), Global("f", Fun),
           Global("u", File),
           Global("t", Table(<<Pair(Num("1"), Num("8")), Pair(Str(<<"k">>), Fun)>>)),
           Global("one", Table(<<Pair(Num("1"), Num("8"))>>)),
           Global("none", Table(<<>>)),
           Global("lib", Table(<<Pair(Str(<<"config">>), Str(<<"a", Newline>>)),
                                 Pair(Str(<<"path">>), Str(<<"p">>)),
                                 Pair(Str(<<"loaded">>), Table(<<>>))>>))}

MCGlobalLists == UNION {{f \in [1..n -> MCPool] : \A i, j \in 1..n : f[i] = f[j] => i = j} :
                          n \in 0..2}
MCOneGlobal == {<<g>> : g \in MCPool}
MCNoGlobals == {<<Global("n", Num("5"))>>}
=============================================================================
