----------------------------- MODULE MCBootSafety -----------------------------
(* BootSafety with the limit of the source.                                *)
EXTENDS BootSafety, TLC
=============================================================================
