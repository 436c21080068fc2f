SPECIFICATION Spec
CONSTANTS
  None = None
  u1 = u1
  u2 = u2
  u3 = u3
  r1 = r1
  r2 = r2
  Users <- ThreeUsers
  Founders <- ThreeUsers
  WithTotp <- TwoUsers
  Requests <- TwoRequests
  Patches <- Patch
  Deletes = TRUE
INVARIANTS
  FloorTypeOK
PROPERTIES
  PatchKeepsFloor
CHECK_DEADLOCK FALSE
SYMMETRY Symmetry
