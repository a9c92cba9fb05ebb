----------------------------- MODULE MCLuaCalls -----------------------------
(* Instances of LuaCalls for TLC.                                          *)
EXTENDS LuaCalls

MCRepertoires ==
  {{"call", "resume", "yield", "error"},
   {"pcall", "hook", "error"},
   {"xpcall", "call", "error"},
   {"xpcall", "foreach", "hook", "error"},
   {"metamethod", "resume", "wrap", "yield"},
   {"pcall", "resume", "yield"},
   {"resume", "hook", "yield"},
   {"xpcall", "wrap", "error"}}
Symmetry == Permutations(Threads \ {Main})
=============================================================================
