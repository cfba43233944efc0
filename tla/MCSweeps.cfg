SPECIFICATION Spec
CONSTANTS
    Apps = {a1, a2}
    Agencies = {g1, g2}
    NoAgency = NoAgency
    Runs = {r1, r2}
    NoRun = NoRun
    MaxFaults = 2
SYMMETRY Symmetry
INVARIANTS
    RecordsAgree
    StoredOnceWhenPinned
    CrossAgencyCaught
PROPERTIES
    RedatedOnlyUnderFault
CHECK_DEADLOCK FALSE
