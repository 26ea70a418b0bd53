SPECIFICATION FairSpec
CONSTANTS
  Worlds = {w1}
  Requests = {r1, r2}
  Children = {c1, c2}
  None = None
  PortsBegin = 30000
  MaxRows = 2
  MaxCrashes = 0
  Fallible = {}
  Careful = {}
  ExecEnabled = TRUE
PROPERTIES
  HandlersReturn
