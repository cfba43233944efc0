CONSTANTS
  k1 = k1
  elt = elt
  p1 = p1
  p2 = p2
  o1 = o1
  o2 = o2
  s1 = s1
  Runs = {k1}
  Artifacts = {elt}
  Requested <- MCRequested
  SourceIds = {s1}
  SourceOf <- MCSourceOf
  Owners = {o1, o2}
  OwnerOf <- MCOwners
  Tasks = {p1, p2}
  KeyOf <- MCKeyOf
  Elt = elt
  Cuts = {c1}
  NoOwner = NoOwner
  NoCut = NoCut
  NoSource = NoSource
  NoAttempt = NoAttempt
  SourceLeaseLen = 1
  RunLeaseLen = 1
  MaxTime = 1
  MaxFaults = 0
SPECIFICATION Spec
CHECK_DEADLOCK FALSE
INVARIANTS
  EltMutatedOnce
