------------------------------ MODULE MCLuaGc ------------------------------
(* An instance of LuaGc for TLC.                                           *)
EXTENDS LuaGc

CONSTANTS o1, o2, o3
MCSlots == {Main, Globals, o1, o2, o3}
MCRegisters == 1..2
MCTexts == {1}

Does(things, flags, memory) == [things |-> things, flags |-> flags, memory |-> memory]
MCRepertoires ==
  {Does({"table", "ownmetatable"}, {{"v"}}, {o1, o2}),
   Does({"table", "ownmetatable", "keys"}, {{"k"}}, {o1, o2}),
   Does({"table", "metatables", "userdata", "close"}, {{"gc"}}, {o1, o2}),
   Does({"table", "string", "collectgarbage"}, {{}}, {o1, o2}),
   Does({"function", "collectgarbage", "close"}, {{}}, {o1, o2}),
   Does({"function", "thread"}, {{}}, {o1, o2, o3})}
=============================================================================
