------------------------------ MODULE LuaValues -------------------------------
(***************************************************************************)
(* How a stopped ldb puts the Lua stack, a local and the globals on one    *)
(* line, and how PDAStackFrame and PDAVariable take the line apart.  A     *)
(* text is a sequence of pieces: words and the separators among them.      *)
(* Buffer sizes and number formats are left out.                           *)
(***************************************************************************)
EXTENDS Integers, Sequences
LOCAL INSTANCE SequencesExt

Bar == "|"
Eq == "="
Hash == "#"
Open == "["
Close == "]"
Newline == "newline"
Separators == {Bar, Eq, Hash, Open, Close, Newline}

(* A Lua value.  "text" is what lua_tostring gives for numbers and strings *)
(* and "entries" the pairs of a table in the order of lua_next.            *)
Value(type, text, truthy, entries) ==
  [type |-> type, text |-> text, truthy |-> truthy, entries |-> entries]

IsScalar(v) == v.type \in {"number", "string", "boolean"}

(* The names the debugger API gives the hidden variables of a for loop     *)
(* hold a space; a command's words end at the first one.                   *)
ForIndex == "(for index)"
WordOf(name) == IF name = ForIndex THEN "(for" ELSE name
-----------------------------------------------------------------------------
(* ldb.  A frame is [source, currentline, name, locals]; stack[1] is the   *)
(* level 0, the running function.  printIt prints a key or a value.        *)
PrintIt(v) == IF v.type \in {"number", "string"} THEN v.text ELSE <<v.type>>

EntryText(name, e) ==
  <<name, Open>> \o PrintIt(e.key) \o <<Close, Eq>> \o PrintIt(e.value)

EntriesText(name, entries) ==
  FlattenSeq([i \in DOMAIN entries |-> Append(EntryText(name, entries[i]), Bar)])

(* lua_toboolean at a positive index reads a register of the running       *)
(* function: its locals come first, then temporaries.                      *)
Register(stop, i) ==
  LET locals == stop.stack[1].locals
  IN IF i \in DOMAIN locals THEN locals[i].value.truthy ELSE stop.temporary

(* The text of a scalar; r is the register the boolean case looks at.      *)
ScalarText(stop, v, r) ==
  IF v.type = "boolean"
    THEN <<IF Register(stop, r) THEN "true" ELSE "false">>
    ELSE v.text

FrameText(f) ==
  <<f.source, Bar, f.currentline, Bar, f.name, Bar>>
    \o FlattenSeq([i \in DOMAIN f.locals |-> <<f.locals[i].name, Bar>>])
    \o <<Hash>>

(* ideStackTrace: from the outermost level down to level 0.                *)
IdeStackTrace(stop) ==
  FlattenSeq(Reverse([n \in DOMAIN stop.stack |-> FrameText(stop.stack[n])]))

(* Mutant: the levels are counted from the outermost frame.                 *)
GetLocalVarValueFromOutermost(stop, level, name) ==
  LET at == Len(stop.stack) - level
      locals == IF at \in DOMAIN stop.stack THEN stop.stack[at].locals ELSE <<>>
      i == SelectInSeq(locals, LAMBDA l : l.name = WordOf(name))
  IN IF i = 0 THEN <<"notFound">> ELSE locals[i].value.text

(* lua_getstack: the functions that run, level 0 the innermost.            *)
Levels(stop) == 0..(Len(stop.stack) - 1)
GetStack(stop, level) == stop.stack[level + 1]

(* getLocalVarValue: the first local of that name at that level.           *)
GetLocalVarValue(stop, level, name) ==
  LET locals == IF level \in Levels(stop) THEN GetStack(stop, level).locals ELSE <<>>
      i == SelectInSeq(locals, LAMBDA l : l.name = WordOf(name))
      v == locals[i].value
  IN CASE i = 0 -> <<"notFound">>
       [] i # 0 /\ IsScalar(v) -> ScalarText(stop, v, i + 1)
       [] i # 0 /\ v.type = "table" -> EntriesText(name, v.entries)
       [] OTHER -> <<"type", v.type, "not yet displayable">>

StartGlobalTable == <<"startglobaltable", Eq, "startglobaltable">>
EndGlobalTable == <<"endglobaltable", Eq, "endglobaltable">>

HasNewline(text) == \E i \in DOMAIN text : text[i] = Newline

GlobalText(stop, g) ==
  CASE IsScalar(g.value) ->
         <<g.name, Eq>> \o ScalarText(stop, g.value, 1) \o <<Bar>>
    [] g.value.type = "table" ->
         StartGlobalTable \o <<Bar>>
           \o EntriesText(g.name, SelectSeq(g.value.entries,
                            LAMBDA e : ~HasNewline(EntryText(g.name, e))))
           \o EndGlobalTable \o <<Bar>>
    [] OTHER -> <<"type", g.value.type, Eq, "not yet displayable">>

(* getGlobals: functions are skipped; a value of another type empties the  *)
(* buffer of what was collected before it.                                 *)
GetGlobals(stop, globals) ==
  LET kept == SelectSeq(globals, LAMBDA g : g.value.type # "function")
      other == SelectLastInSeq(kept, LAMBDA g : ~IsScalar(g.value)
                                                /\ g.value.type # "table")
      from == IF other = 0 THEN 1 ELSE other
  IN FlattenSeq([i \in 1..(Len(kept) - from + 1) |->
                   GlobalText(stop, kept[from + i - 1])])
-----------------------------------------------------------------------------
(* The IDE.  String.split: the fields between the separators, without the  *)
(* empty ones at the end; a text without a separator is one field.         *)
Positions(text, sep) ==
  SelectSeq([i \in DOMAIN text |-> i], LAMBDA i : text[i] = sep)

Split(text, sep) ==
  LET cuts == <<0>> \o Positions(text, sep) \o <<Len(text) + 1>>
      fields == [k \in 1..(Len(cuts) - 1) |->
                   SubSeq(text, cuts[k] + 1, cuts[k + 1] - 1)]
  IN IF Len(cuts) = 2 THEN fields
     ELSE SubSeq(fields, 1, SelectLastInSeq(fields, LAMBDA f : f # <<>>))

(* A variable of the variables view.                                       *)
Variable(kind, name, value, children) ==
  [kind |-> kind, name |-> name, value |-> value, children |-> children]

(* "name=value": two fields, or an ArrayIndexOutOfBoundsException.         *)
IsPair(item) == Len(Split(item, Eq)) > 1
PairOf(kind, item) ==
  Variable(kind, Split(item, Eq)[1], Split(item, Eq)[2], <<>>)

(* The variables of a frame: strings[3] and on.                            *)
LocalVariables(data) ==
  LET strings == Split(data, Bar)
  IN [i \in 1..(Len(strings) - 3) |-> Variable("local", strings[i + 3], <<>>, <<>>)]

(* PDAStackFrame.init.  An item between the two markers of a table belongs *)
(* to that table; the table's name comes from the item two after its start *)
(* marker.                                                                 *)
EndOf(items, k) ==
  k + SelectInSeq(SubSeq(items, k + 1, Len(items)), LAMBDA s : s = EndGlobalTable)

InsideTable(items, i) ==
  \E k \in 1..(i - 1) : items[k] = StartGlobalTable /\ i <= EndOf(items, k)

TableName(items, k) == Split(items[k + 2], Open)[1]

Children(items, k) ==
  LET entries == SubSeq(items, k + 1, EndOf(items, k) - 1)
  IN [i \in DOMAIN entries |-> PairOf("entry", entries[i])]

GlobalVariable(items, k) ==
  IF items[k] = StartGlobalTable
    THEN Variable("globaltable", TableName(items, k), <<"global table">>,
                  Children(items, k))
    ELSE PairOf("global", items[k])

(* The exceptions of init: a missing value, a table name past the end.     *)
CanDecode(items) ==
  \A k \in DOMAIN items :
    IsPair(items[k]) /\ (items[k] = StartGlobalTable => k + 2 \in DOMAIN items)

(* Mutant: a table's entries are counted as variables of their own.         *)
TopItemsCountingEntries(items) == [i \in DOMAIN items |-> i]

TopItems(items) ==
  SelectSeq([i \in DOMAIN items |-> i], LAMBDA i : ~InsideTable(items, i))

GlobalsHeader == <<Variable("global", <<>>, <<>>, <<>>),
                   Variable("global", <<"GLOBAL">>, <<"VARIABLES">>, <<>>)>>

GlobalVariables(items) ==
  LET top == TopItems(items)
  IN [i \in DOMAIN top |-> GlobalVariable(items, top[i])]

(* PDAVariable.getValue: what the view shows for the reply to "var".       *)
IsTableReply(reply) == \E i \in DOMAIN reply : reply[i] = Bar

CanDecodeValue(reply) ==
  IsTableReply(reply) =>
    \A i \in DOMAIN Split(reply, Bar) : IsPair(Split(reply, Bar)[i])

ShownValue(reply) ==
  LET items == Split(reply, Bar)
  IN IF IsTableReply(reply)
       THEN [text |-> <<"table">>,
             entries |-> [i \in DOMAIN items |-> PairOf("entry", items[i])]]
       ELSE [text |-> reply, entries |-> <<>>]
=============================================================================
