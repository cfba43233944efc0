CONSTANTS
  a1 = a1
  i1 = i1
  i2 = i2
  Alerts = {a1}
  Intents = {i1, i2}
  AlertOf <- MCAlertOf
  Drains = {d1, d2}
  BatchLimit = 2
  LeaseLen = 1
  MaxDuration = 1
  MaxAttempts = 2
  BackoffBase = 1
  BackoffCap = 1
  NoIntent = NoIntent
SYMMETRY Symmetry
SPECIFICATION Spec
INVARIANTS
  LeaseOutlivesDrain
  OutboxTruthful
PROPERTIES
  ResentOnlyAfterFault
  ResolvedNotSent
