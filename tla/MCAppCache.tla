------------------------------ MODULE MCAppCache ------------------------------
(* Small instances of AppCache for TLC. *)
EXTENDS AppCache, TLC

Symmetry ==
  Permutations(Requests) \cup Permutations(States) \cup Permutations(Grants)
    \cup Permutations(Params) \cup Permutations(Users)

=============================================================================
