SPECIFICATION Spec
CONSTANTS
  Platforms = {"github", "metamask"}
  Names = {n1}
  Users = {u1, u2}
  Requests = {r1, r2}
  MaxAccounts = 2
  MaxEdits = 1
  None = None
INVARIANTS
  OwnGamesListed
SYMMETRY Symmetry
