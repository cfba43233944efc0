CONSTANTS
  MaxEdits = 2
  NoRevision = NoRevision
  o1 = o1
  o2 = o2
  MaxTime = 1
  Skew = 1
  MaxDisturbances = 2
SPECIFICATION MCSpec
CHECK_DEADLOCK FALSE
SYMMETRY Symmetry
INVARIANTS
  CountCovers
  ResultTruthful
  SheetTruthful
PROPERTIES
  EditsSurvive
  OverwritesOnlyUnseenEdit
  EngageStops
