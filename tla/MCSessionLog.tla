---------------------------- MODULE MCSessionLog ----------------------------
(* Small instances of SessionLog for TLC. *)
EXTENDS SessionLog, TLC

ContentsAreAlike == Permutations(Contents)
=============================================================================
