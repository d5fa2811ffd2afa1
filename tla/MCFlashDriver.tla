---------------------------- MODULE MCFlashDriver ----------------------------
(* FlashDriver with calls of a few words.                                  *)
EXTENDS FlashDriver, TLC
=============================================================================
