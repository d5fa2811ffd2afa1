------------------------------ MODULE MCBytePack ------------------------------
EXTENDS BytePack, TLC

(* Of the lengths 2 to 13: a quarter of the 2 to 52 bits of the coder.     *)
MCCodes == {<<0, 1>>, Ones(5), Ones(7) \o <<0>>, Ones(9), <<0>> \o Ones(12)}
=============================================================================
