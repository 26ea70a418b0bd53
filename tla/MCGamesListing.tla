---------------------------- MODULE MCGamesListing ----------------------------
(* Small instances of GamesListing for TLC. *)
EXTENDS GamesListing, TLC

Symmetry == Permutations(Usernames)

=============================================================================
