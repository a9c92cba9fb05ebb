----------------------------- MODULE MCLuaTable -----------------------------
(* Instances of LuaTable for TLC.                                          *)
EXTENDS LuaTable
CONSTANTS str1, str2

MCInts == 1..4
MCNames == {str1, str2}
\* the upper words of the doubles 2.0 to 6.0; the lower ones are 0
MCHashNum == [n \in 0..5 |->
  CASE n = 0 -> 2^30 - 2^20 [] n = 1 -> 2^30 [] n = 2 -> 2^30 + 2^19 [] n = 3 -> 2^30 + 2^20
    [] n = 4 -> 2^30 + 2^20 + 2^18 [] OTHER -> 2^30 + 2^20 + 2^19]
MCHashes == {[n \in MCNames |-> 0]}
MCKeySets == {{1, 2, str1, str2}, {1, 2, 3, 4, str1}}
=============================================================================
