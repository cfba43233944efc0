CONSTANTS
  Artifacts = {a1}
  LeaseLen = 2
  MaxTime = 2
SPECIFICATION Spec
CHECK_DEADLOCK FALSE
INVARIANTS
  RetiredAtomically
