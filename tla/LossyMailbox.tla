---------------------------- MODULE LossyMailbox ----------------------------
(***************************************************************************)
(* What the REPL link of source/application/luaport.c promises a host: a   *)
(* mailbox with one slot.  Every command the host writes gets the next     *)
(* number, an empty one too; a write replaces whatever the slot holds, the *)
(* interpreter takes the slot or throws it away, and what it takes it      *)
(* takes once.  It may leave a command in the slot for ever: the program   *)
(* cannot tell an empty command from an empty slot, and takes one only     *)
(* where it replaced another just before.                                  *)
(***************************************************************************)
EXTENDS Naturals, Sequences

VARIABLES
  put,    \* number of commands written so far; command n is the n-th write
  box,    \* the number of the command in the slot, 0 when it is empty
  taken   \* the commands handed to the interpreter, in order

vars == <<put, box, taken>>

Init == put = 0 /\ box = 0 /\ taken = <<>>

Put  == put' = put + 1 /\ box' = put' /\ UNCHANGED taken

Take == box # 0 /\ box' = 0 /\ taken' = Append(taken, box) /\ UNCHANGED put

Drop == box # 0 /\ box' = 0 /\ UNCHANGED <<put, taken>>

Next == Put \/ Take \/ Drop

Spec == Init /\ [][Next]_vars

-----------------------------------------------------------------------------
(* The promise itself: no command is taken twice and none overtakes an     *)
(* older one, and nothing is taken that was not written.                   *)
TakenInOrder ==
  /\ \A i, j \in DOMAIN taken : i < j => taken[i] < taken[j]
  /\ \A i \in DOMAIN taken : taken[i] \in 1 .. put
=============================================================================
