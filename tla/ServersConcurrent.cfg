SPECIFICATION Spec
CONSTANTS
  Ports = {p1, p2}
  Shared = {p1}
  Requests = {r1, r2, r3}
  Children = {c1, c2, c3, c4}
  None = None
  MaxCrashes = 1
INVARIANTS
  NoLostWakeup
  IInv
  ServersAreTracked
  ExclusiveStopWaits
PROPERTIES
  StoppingKeepsSlot
SYMMETRY Symmetry
