------------------------------ MODULE SheetWrite ------------------------------
(***************************************************************************)
(* The two functions that mutate a registered spreadsheet                   *)
(* (google-workspace-staging-client.ts): writeStagingSheetValues and        *)
(* normalizeStagingSheetStructure, with the kill switch they read at the    *)
(* mutation boundary and with what else happens to the workbook meanwhile.  *)
(*                                                                          *)
(* A batchUpdate of a spreadsheet carries no revision: it is applied to     *)
(* whatever the workbook holds, at once or later, whether or not the call   *)
(* throws.  Drive's version, which is all the code can compare, lags the    *)
(* content.  A call is one of the two forms; the bounded polls of the       *)
(* settlements are loops that may give up at any turn.                      *)
(***************************************************************************)
EXTENDS KillSwitch

CONSTANT MaxDisturbances    \* bound on edits and operator runs together

VARIABLES
    book,       \* the workbook: what the plan replaces, and the rest
    changes,    \* its changes so far
    lastEdit,   \* the last change in which a person edited what the plan replaces
    drive,      \* the Drive version a metadata read shows
    edits,      \* edits by people, for the bound
    permit,     \* flags and permit are live
    net,        \* batches that are still to be applied
    ours,       \* history: the batches that were applied
    call        \* the local state of the call

workbook == <<book, changes, lastEdit, edits, ours>>
outside == <<drive, permit, switch>>
vars == <<workbook, outside, net, call>>

\* What the plan replaces is as it was planned on, as the plan wants it, damaged
\* by a batch that met something else, or edited by a person.
Book == [own : {"planned", "desired", "bad", "edited"}, rest : {"planned", "edited"}]

Batches == {"forward", "rollback"}

Unread == [own |-> "planned", rest |-> "planned"]

PC == {"authorization", "reads", "gate", "mutation", "postState", "settlement",
       "recovery", "rollback", "rollbackRecovery", "done"}

Certification == {"not_attempted", "preimage_verified", "postimage_verified",
                  "postimage_rejected", "ambiguous"}

\* todo: the reads of the round that are still to be made; version: the Drive
\* version the round started at; saw: what its reads have shown; fenced (history):
\* what Drive showed at the trailing fence.
Call == [ pc      : PC,
          form    : {"values", "structure"},
          action  : {"no_op", "change"},
          todo    : SUBSET {"metadata", "own", "rest"},
          before  : Nat,
          fenced  : Nat,
          version : Nat,
          saw     : Book,
          count   : 0..2,
          cert    : Certification,
          status  : {"none", "unchanged", "changed", "failed"} ]

TypeOK ==
    /\ SwitchTypeOK
    /\ book \in Book
    /\ changes \in Nat /\ lastEdit \in Nat /\ drive \in Nat
    /\ edits \in Nat
    /\ permit \in BOOLEAN
    /\ net \subseteq Batches /\ ours \subseteq Batches
    /\ call \in Call

\* The plan was made from the workbook as it is, a structural permit at the
\* Drive version there is; that version may not show the last change yet.
Init ==
    /\ SwitchInit
    /\ changes = 2 /\ lastEdit = 0 /\ edits = 0 /\ drive \in {1, 2}
    /\ permit = TRUE
    /\ net = {} /\ ours = {}
    /\ \E form \in {"values", "structure"}, action \in {"no_op", "change"} :
          LET own == IF action = "no_op" THEN "desired" ELSE "planned"
          IN  /\ book = [own |-> own, rest |-> "planned"]
              /\ call = [pc |-> "authorization", form |-> form, action |-> action, todo |-> {},
                         before |-> drive, fenced |-> 0, version |-> 0, saw |-> Unread, count |-> 0,
                         cert |-> "not_attempted", status |-> "none"]

-----------------------------------------------------------------------------
(* Google's side *)

\* What a batch makes of what it meets.  A rollback deletes what the forward
\* batch inserted, or something else when there is nothing of that kind.
Outcomes(batch) ==
    IF batch = "forward" THEN {"desired", "bad"}
    ELSE IF book.own = "desired" THEN {"planned"} ELSE {book.own, "bad"}

Apply(batch) ==
    /\ \E own \in Outcomes(batch) : book' = [book EXCEPT !.own = own]
    /\ changes' = changes + 1
    /\ ours' = ours \union {batch}
    /\ UNCHANGED <<lastEdit, edits>>

Goes(row) == call' = row /\ UNCHANGED <<workbook, outside, net>>

To(pc) == [call EXCEPT !.pc = pc, !.todo = {}, !.version = 0, !.saw = Unread]
Ends(status, cert) == [To("done") EXCEPT !.status = status, !.cert = cert]
Fails(cert) == Ends("failed", cert)
Counted(pc, cert) == [To(pc) EXCEPT !.count = 1, !.cert = cert]

\* The call of a batch: answered, or it throws, whatever became of the batch.
Send(batch, ok, err) ==
    /\ \/ Apply(batch) /\ call' \in {ok, err} /\ UNCHANGED net
       \/ call' = err /\ net' \in {net, net \union {batch}} /\ UNCHANGED workbook
    /\ UNCHANGED outside

-----------------------------------------------------------------------------
(* Preflight *)

Authorize ==
    /\ call.pc = "authorization"
    /\ Goes(IF permit THEN [To("reads") EXCEPT !.todo = {"metadata", "own", "rest"}]
            ELSE Fails("not_attempted"))

Preimage == [own |-> IF call.action = "no_op" THEN "desired" ELSE "planned", rest |-> "planned"]
Postimage == [own |-> "desired", rest |-> "planned"]

Done(read) == [call EXCEPT !.todo = @ \ {read}]

\* A value write takes the Drive version it finds, a normalisation only that of
\* its permit.
ReadMetadata ==
    /\ call.pc = "reads" /\ "metadata" \in call.todo
    /\ \/ Goes(Fails("not_attempted"))
       \/ call.form = "values" /\ Goes([Done("metadata") EXCEPT !.before = drive])
       \/ call.form = "structure" /\ drive = call.before /\ Goes(Done("metadata"))

\* What is read is what the plan was made from.  A normalisation reads content
\* and metadata side by side, a value write the metadata first.
ReadContent ==
    /\ call.pc = "reads"
    /\ call.form = "values" => "metadata" \notin call.todo
    /\ \E read \in call.todo \ {"metadata"} :
          Goes(IF book[read] = Preimage[read] THEN Done(read) ELSE Fails("not_attempted"))

\* Mutant: nothing is read again once the content is in.
NoFence == call.pc = "reads" /\ call.todo = {}

\* The trailing Drive fence.
Fence == call.pc = "reads" /\ call.todo = {} /\ drive = call.before

Fenced ==
    /\ call.pc = "reads" /\ call.todo = {}
    /\ \/ Goes(Fails("not_attempted"))
       \/ Fence /\ Goes(IF call.action = "no_op" THEN Ends("unchanged", "not_attempted")
                        ELSE [To("gate") EXCEPT !.fenced = drive])

\* Flags, permit and kill switch are checked again at the mutation boundary;
\* the kill switch is read from the database, which may fail.
Gate ==
    /\ call.pc = "gate"
    /\ \/ Goes(Fails("not_attempted"))
       \/ permit /\ Clear /\ Goes(To("mutation"))

\* The batch is counted before it is sent; a value write looks at its permit
\* once more.
Mutate ==
    /\ call.pc = "mutation"
    /\ IF call.form = "values"
       THEN IF permit
            THEN Send("forward", Counted("postState", "postimage_rejected"),
                                 Counted("settlement", "ambiguous"))
            ELSE Goes(Fails("not_attempted"))
       ELSE Send("forward", Counted("postState", "ambiguous"), Counted("recovery", "ambiguous"))

-----------------------------------------------------------------------------
(* Settlement *)

Rounds == {"postState", "settlement", "recovery", "rollbackRecovery"}

InRound == call.version # 0

\* A round starts with the Drive version, which has to have advanced unless the
\* batch may not have been applied.
OpenRound ==
    /\ call.pc \in Rounds /\ ~InRound
    /\ call.pc \in {"postState", "rollbackRecovery"} => drive > call.before
    /\ Goes([call EXCEPT !.version = drive, !.todo = {"own", "rest"}])

Look ==
    /\ call.pc \in Rounds /\ InRound
    /\ \E read \in call.todo : Goes([Done(read) EXCEPT !.saw[read] = book[read]])

\* A round whose reads lie between two equal Drive versions.
Stable == InRound /\ call.todo = {} /\ drive = call.version

\* Whatever a finished round did not settle is polled again.
Polled(settled) == InRound /\ call.todo = {} /\ ~settled /\ Goes(To(call.pc))

PostStateMatches == Stable /\ call.saw = Postimage

\* The batch was answered: it is verified or given up, never compensated.
PostState ==
    /\ call.pc = "postState"
    /\ \/ PostStateMatches /\ Goes(Ends("changed", "postimage_verified"))
       \/ /\ call.form = "structure" /\ Stable
          /\ call.saw.own = "desired" /\ call.saw.rest = "edited"
          /\ Goes(Fails("postimage_verified"))
       \/ Polled(PostStateMatches)
       \/ Goes(Fails(call.cert))

SettledPreimage == Stable /\ call.saw = Preimage

\* Mutant: an advanced Drive version is taken for the batch's.
SettledIfAdvanced == Stable /\ drive > call.before /\ call.saw.rest = "planned"

SettledPostimage == Stable /\ drive > call.before /\ call.saw = Postimage

\* The value batch threw: one stable read classifies what is there.
Settle ==
    /\ call.pc = "settlement"
    /\ \/ SettledPreimage /\ Goes(Fails("preimage_verified"))
       \/ ~SettledPreimage /\ SettledPostimage /\ Goes(Fails("postimage_verified"))
       \/ Goes(Fails("ambiguous"))

\* The structural batch threw: unless the preimage is there it is rolled back.
Recover ==
    /\ call.pc = "recovery"
    /\ \/ SettledPreimage /\ Goes(Fails("preimage_verified"))
       \/ Polled(SettledPreimage)
       \/ Goes(To("rollback"))

Rollback ==
    /\ call.pc = "rollback"
    /\ LET row == [To("rollbackRecovery") EXCEPT !.count = 2]
       IN  Send("rollback", row, row)

RecoverRollback ==
    /\ call.pc = "rollbackRecovery"
    /\ \/ SettledPreimage /\ Goes(Fails("preimage_verified"))
       \/ Polled(SettledPreimage)
       \/ Goes(Fails("ambiguous"))

Step == Authorize \/ ReadMetadata \/ ReadContent \/ Fenced \/ Gate \/ Mutate \/ OpenRound
        \/ Look \/ PostState \/ Settle \/ Recover \/ Rollback \/ RecoverRollback

-----------------------------------------------------------------------------
(* Meanwhile *)

Disturbances == edits + Cardinality({o \in Operators : runs[o].pc # "idle"})

\* Somebody edits what the plan replaces, the rest, or only the file.
Edit ==
    /\ Disturbances < MaxDisturbances
    /\ edits' = edits + 1
    /\ changes' = changes + 1
    /\ \/ book' = [book EXCEPT !.own = "edited"] /\ lastEdit' = changes'
       \/ book' = [book EXCEPT !.rest = "edited"] /\ UNCHANGED lastEdit
       \/ UNCHANGED <<book, lastEdit>>
    /\ UNCHANGED <<outside, net, ours, call>>

\* The Drive version catches up.
DriveAdvances ==
    /\ drive < changes
    /\ drive' = changes
    /\ UNCHANGED <<workbook, permit, switch, net, call>>

\* A batch whose call threw is applied after all.
LateBatch ==
    /\ \E batch \in net : net' = net \ {batch} /\ Apply(batch)
    /\ UNCHANGED <<outside, call>>

PermitExpires ==
    /\ permit /\ permit' = FALSE
    /\ UNCHANGED <<workbook, drive, switch, net, call>>

Operate ==
    /\ SwitchNext
    /\ Cardinality({o \in Operators : runs'[o].pc # "idle"}) + edits <= MaxDisturbances
    /\ UNCHANGED <<workbook, drive, permit, net, call>>

Next == Step \/ Edit \/ DriveAdvances \/ LateBatch \/ PermitExpires \/ Operate

Spec == Init /\ [][Next]_vars

-----------------------------------------------------------------------------
(* Properties *)

\* A result says what was done to the workbook: a change was applied once and
\* nothing of it is still on its way, a certified postimage is that of the
\* batch even when its call threw, what was not changed was not touched, and
\* the count covers every batch that was applied or may still be.
SheetTruthful ==
    /\ call.cert = "postimage_verified" => ours = {"forward"} /\ net = {}
    /\ call.status = "unchanged" \/ call.cert = "not_attempted" => ours = {} /\ net = {}
    /\ Cardinality(ours) + Cardinality(net) <= call.count

\* The batch overwrites what a person wrote only if Drive did not show that
\* edit yet when the trailing fence was read: an edit Drive shows by then, made
\* after the plan or during the preflight, is never lost to it.
OverwritesOnlyUnseenEdit ==
    [][book.own = "edited" /\ "forward" \in ours' \ ours => lastEdit > call.fenced]_vars

\* A confirmed engagement that precedes the gate's read stops the write, however
\* the operators' clocks differ, unless it was taken back.
EngageStops ==
    [][call.pc = "gate" /\ call'.pc = "mutation" =>
          \A o \in Operators :
              runs[o].pc = "confirmed" /\ runs[o].engaged => TakenBack(o)]_vars

=============================================================================
