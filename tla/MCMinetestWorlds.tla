-------------------------- MODULE MCMinetestWorlds --------------------------
(* Small instances of MinetestWorlds for TLC. *)
EXTENDS MinetestWorlds, TLC

Symmetry == Permutations(Requests) \cup Permutations(Children)

=============================================================================
