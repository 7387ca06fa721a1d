--------------------------- MODULE MCEntityCache ---------------------------
(* Small instances of EntityCache for TLC. *)
EXTENDS EntityCache, TLC

Symmetric == Permutations(Objects) \cup Permutations(Workers)
=============================================================================
