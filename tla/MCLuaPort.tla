------------------------------ MODULE MCLuaPort ------------------------------
(* LuaPort with small sets of signals, one per question.                   *)
EXTENDS LuaPort, TLC
=============================================================================
