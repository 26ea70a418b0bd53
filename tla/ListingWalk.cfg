SPECIFICATION ListingSpec
CONSTANTS
  Games = {1, 2, 3}
  Usernames = {u1, u2}
  Tags = {t1}
  Absent = Absent
  Joined = Joined
  Limit = 1
  MaxTime = 4
INVARIANTS
  WalkComplete
SYMMETRY Symmetry
