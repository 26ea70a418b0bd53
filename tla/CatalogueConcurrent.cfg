SPECIFICATION Spec
CONSTANTS
  a1 = a1
  t1 = t1
  Addresses = {a1}
  Tags = {t1}
  Chains = {1, 2}
  SupportedChainIds = {1, 2}
  Dtos <- SmallDtos
  Requests = {r1, r2}
  None = None
  Gone = Gone
  MaxRows = 3
  MaxSends = 4
INVARIANTS
  DisabledHasNoAddress
  OneRowEach
  SoldAsLastWritten
PROPERTIES
  ModeKept
SYMMETRY Symmetry
