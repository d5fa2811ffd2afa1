---- MODULE MCFileLibrary ----
EXTENDS FileLibrary, TLC
MCStrings == {<<"nl", "x">>}
Symmetry == Permutations(Handles)

(* Nothing depends on eof_line, so a state that has it is not followed.    *)
Bound == ~eof_line
====
