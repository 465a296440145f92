SPECIFICATION Spec
CONSTANTS
  c1 = c1
  c2 = c2
  r1 = r1
  r2 = r2
  Callers <- MCCallers
  Requests <- MCRequests
  Nobody = Nobody
  Hour = 0
  MaxClock = 3
SYMMETRY CallerSymmetry
INVARIANTS
  TypeOK
  OwnResponse
  InFlightIsHolders
  RetriesBounded
  CleanCallSucceeds
PROPERTY
  ImplementsChannelSafely
