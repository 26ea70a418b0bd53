---------------------------- MODULE MCAccounts ----------------------------
(* Small instances of Accounts for TLC. *)
EXTENDS Accounts, TLC

Symmetry ==
  Permutations(Platforms) \cup Permutations(AccountIds) \cup
  Permutations(Usernames \ Reserved) \cup Permutations(Requests)

=============================================================================
