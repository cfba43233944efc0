CONSTANTS
  Slots = {k}
  Invocations = {i, j}
  MaxRevision = 1
  MaxClaims = 3
  MaxTime = 3
  SlotLeaseLen = 1
  Window = 3
  Margin = 1
SYMMETRY Symmetry
SPECIFICATION ReferralSpec
CHECK_DEADLOCK FALSE
INVARIANT
  OnceOnly
