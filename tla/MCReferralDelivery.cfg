CONSTANTS
  Slots = {k}
  Invocations = {i, j}
  MaxRevision = 2
  MaxClaims = 2
  MaxTime = 3
  SlotLeaseLen = 1
  Window = 3
  Margin = 1
SYMMETRY Symmetry
SPECIFICATION ReferralSpec
CHECK_DEADLOCK FALSE
INVARIANTS
  SentTwiceOnlyIfMisjudgedOrLate
  AttentionHasObligation
PROPERTIES
  LateOnlyIfAcknowledged
