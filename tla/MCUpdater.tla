------------------------------ MODULE MCUpdater ------------------------------
(* Images of a few words: slices of two words, pages of three. The vector    *)
(* table is a number of words, the last slice of the code is not. One image   *)
(* has no vector table.                                                      *)
EXTENDS Updater

SmallImages == {<<8, 10>>, <<0, 14>>}
=============================================================================
