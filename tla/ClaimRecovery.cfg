CONSTANTS
  Artifacts = {a1}
  LeaseLen = 2
  MaxTime = 2
SPECIFICATION FairSpec
CHECK_DEADLOCK FALSE
INVARIANTS
  EndsWhole
  SourceKept
PROPERTIES
  RenewedRunKept
  ClaimEnds
