--------------------------- MODULE MCChaseLevDeque ---------------------------
(* Instance of ChaseLevDeque for TLC. *)
EXTENDS ChaseLevDeque, TLC

\* Items and thieves are interchangeable and every property is a safety property.
Perms == Permutations(Task) \union Permutations(Thief)
==============================================================================
