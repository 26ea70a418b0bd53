SPECIFICATION Spec
CONSTANTS
  Params = {a1}
  Users = {u1, u2}
  Addresses = {w1}
  Sources = {q1}
  Requests = {r1, r2}
  States = {s1}
  Grants = {g1, g2}
  MaxCode = 2
  MaxVersion = 1
  Miss = Miss
INVARIANTS
  OncePerState
PROPERTIES
  RetryAtGitHub
  AskedOnceAtDiscord
  LatestCodeOnly
  FillsForward
SYMMETRY Symmetry
