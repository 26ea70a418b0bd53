SPECIFICATION Spec
CONSTANTS
  Worlds = {w1, w2}
  Requests = {r1, r2}
  Children = {c1, c2}
  None = None
  PortsBegin = 30000
  MaxRows = 2
  MaxCrashes = 1
  Fallible = {w2}
  Careful = {w2}
  ExecEnabled = TRUE
INVARIANTS
  TypeOK
  PortServesItsWorld
  ServersReachable
  GameHasFolder
  NothingWithoutGame
PROPERTIES
  PortStable
  SupervisorSpec
  NoRemovalUnderServer
SYMMETRY Symmetry
