CONSTANTS
  SourceIds = {s1, s2}
  Owners = {o1, o2}
  Cuts = {c1, c2}
  NoOwner = NoOwner
  NoCut = NoCut
  SourceLeaseLen = 2
  MaxTime = 5
  TxnSpan = 1
  RunName = RunName
  SourceName = SourceName
  LeaseBeats = 4
SPECIFICATION MCFairSpec
INVARIANTS
  OneRunning
  LeaseKept
  HaltsOnlyWhenLost
PROPERTIES
  LiveLeaseExcludes
  ImplementsCutRegister
  LossRecorded
