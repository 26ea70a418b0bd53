------------------------- MODULE MCMinetestServers -------------------------
(* Small instances of MinetestServers for TLC. *)
EXTENDS MinetestServers, TLC

\* Handlers, children and ports of the same kind are interchangeable.
Symmetry ==
  Permutations(Requests) \cup Permutations(Children) \cup
  Permutations(Shared) \cup Permutations(Ports \ Shared)

=============================================================================
