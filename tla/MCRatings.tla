----------------------------- MODULE MCRatings -----------------------------
(* Small instances of Ratings for TLC. *)
EXTENDS Ratings, TLC

Symmetry ==
  Permutations(Games) \cup Permutations(Requests) \cup
  Permutations(Patient) \cup Permutations(Users \ Patient)

\* Two ratings whose mean is not an integer.
TwoValues == {100, 353}

=============================================================================
