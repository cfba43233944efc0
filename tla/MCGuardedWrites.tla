---------------------------- MODULE MCGuardedWrites ----------------------------
(***************************************************************************)
(* One guarded write of a run: of the ELT document (EltWrite) or of a       *)
(* registered spreadsheet (SheetWrite).  An artifact is one or the other,   *)
(* so a behaviour is a call of one kind and the other target stands still.  *)
(***************************************************************************)
EXTENDS EltWrite, TLC

CONSTANTS o1, o2, MaxTime, Skew, MaxDisturbances

MCOperators == {o1, o2}

VARIABLES
    target,     \* what the artifact is
    book, sheetChanges, lastEdit, sheetDrive, sheetEdits, sheetPermit, sheetNet, sheetOurs,
    call, now, events, runs

Sheet == INSTANCE SheetWriteProofs
    WITH Operators <- MCOperators, changes <- sheetChanges, drive <- sheetDrive,
         edits <- sheetEdits, permit <- sheetPermit, net <- sheetNet, ours <- sheetOurs

sheetVars == <<book, sheetChanges, lastEdit, sheetDrive, sheetEdits, sheetPermit, sheetNet,
               sheetOurs, call, now, events, runs>>

MCInit ==
    /\ Init /\ Sheet!Init
    /\ \/ target = "document" /\ sheetDrive = 1 /\ call.form = "values" /\ call.action = "no_op"
       \/ target = "spreadsheet" /\ drive = 1 /\ ~permit /\ write.plan.action = "no_op"

MCNext ==
    /\ UNCHANGED target
    /\ \/ target = "document" /\ Next /\ UNCHANGED sheetVars
       \/ target = "spreadsheet" /\ Sheet!Next /\ UNCHANGED vars

MCSpec == MCInit /\ [][MCNext]_<<target, vars, sheetVars>>

\* SheetWrite: a result says what was done to the workbook.
SheetTruthful == Sheet!SheetTruthful

\* SheetWrite: an edit Drive shows at the trailing fence is not overwritten.
OverwritesOnlyUnseenEdit == Sheet!OverwritesOnlyUnseenEdit

\* SheetWrite: a confirmed engagement stops the write.
EngageStops == Sheet!EngageStops

Symmetry == Permutations(MCOperators)

=============================================================================
