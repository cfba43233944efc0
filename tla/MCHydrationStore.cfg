CONSTANTS
  k1 = k1
  a2 = a2
  k2 = k2
  a1 = a1
  Runs <- MCRuns
  Artifacts <- MCArtifacts
  Requested <- MCRequested
  SourceIds = {s1}
  Owners = {o1, o2}
  Cuts = {c1}
  NoOwner = NoOwner
  NoCut = NoCut
  NoSource = NoSource
  SourceLeaseLen = 1
  RunLeaseLen = 1
  MaxTime = 2
  TxnSpan = 1
  MaxAttempts <- MCMaxAttempts
SYMMETRY Symmetry
SPECIFICATION Spec
INVARIANTS
  OneActiveRun
  OutcomeTruthful
  AttemptLogs
  SourcePinned
PROPERTIES
  LiveRunUndisturbed
  SuccessIsFinal
  ImplementsBinding
  ImplementsSourceExecution
