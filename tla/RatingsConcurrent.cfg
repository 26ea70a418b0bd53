SPECIFICATION Spec
CONSTANTS
  Games = {g1}
  Users = {u1, u2}
  Values <- TwoValues
  Requests = {r1, r2}
  Patient = {u1}
  MaxRows = 4
  Null = Null
INVARIANTS
  OneRatingPerUser
  FoundStillTrue
  UndisturbedAverage
SYMMETRY Symmetry
