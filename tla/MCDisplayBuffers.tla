--------------------------- MODULE MCDisplayBuffers ---------------------------
(* DisplayBuffers on a screen of three by two pixels, with bytes of half   *)
(* the size: a sprite that runs past the last line and round the           *)
(* addresses, one in a column that goes round the lines of the pen, with   *)
(* color sums that wrap, a single pixel, and a sprite that does not fit.   *)
EXTENDS DisplayBuffers, TLC

MCSprites == {
  [x |-> 0, y |-> 0, width |-> 3, colors |->  2, offset |->  4, bytes |-> <<13, 11>>],
  [x |-> 1, y |-> 0, width |-> 1, colors |->  4, offset |-> 14, bytes |-> <<6, 9>>],
  [x |-> 0, y |-> 1, width |-> 1, colors |-> 16, offset |->  0, bytes |-> <<9>>],
  [x |-> 2, y |-> 0, width |-> 3, colors |-> 16, offset |->  0, bytes |-> <<5, 7>>]}
=============================================================================
