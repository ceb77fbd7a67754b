--------------------------- MODULE MCModelContext ---------------------------
(* Small instances of ModelContext for TLC. *)
EXTENDS ModelContext

IdsAreAlike == Permutations(Ids)
=============================================================================
