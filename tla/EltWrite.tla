------------------------------- MODULE EltWrite -------------------------------
(***************************************************************************)
(* writeStagingEltDocument, the only function that mutates the ELT document *)
(* (google-workspace-staging-client.ts), with what else happens to the      *)
(* document meanwhile: people edit it, its Drive version trails its content *)
(* or advances for other reasons, and a batchUpdate may be applied although *)
(* the call threw, or be applied later.                                     *)
(*                                                                          *)
(* A content fingerprint is the pair of what the fact block holds and       *)
(* whether the rest is as planned.  A stable read (two equal reads between  *)
(* two equal Drive versions) is one step: revision and version only grow,   *)
(* so both had those values in between.  Any read may throw.                *)
(***************************************************************************)
EXTENDS Naturals, FiniteSets

CONSTANTS
    MaxEdits,       \* bound on what other people do to the document
    NoRevision      \* no committed revision is known

ASSUME EltWriteAssumption == MaxEdits \in Nat /\ NoRevision \notin Nat

VARIABLES
    doc,        \* the document: revision, fact block, the rest
    changes,    \* its changes so far
    drive,      \* the Drive version a metadata read shows
    edits,      \* what other people did, for the bound
    permit,     \* flags and permit are live
    halted,     \* the durable kill switch is set
    net,        \* batchUpdates that are still to be applied
    ours,       \* history: the batchUpdates that were applied
    write       \* the local state of the call

document == <<doc, changes, edits, ours>>
vars == <<doc, changes, drive, edits, permit, halted, net, ours, write>>

\* The fact block holds the old week, the planned one, an application of the
\* plan that does not certify, or somebody's edit.
Facts == {"old", "new", "bad", "edited"}

Document == [rev : Nat, facts : Facts, outside : {"planned", "edited"}]

\* StagingMutationCertificationStatus
Certification == {"not_attempted", "preimage_verified", "postimage_verified",
                  "postimage_rejected", "ambiguous", "rollback_verified", "rollback_unverified"}

PC == {"authorization", "preimage", "gate", "mutation", "settlement", "postimage",
       "rollback", "recovery", "done"}

Batch == [kind : {"mutation", "rollback"}, rev : Nat]

\* plan: the revision it requires and whether there is anything to change;
\* before: the Drive version of the preimage; after: that of the postimage;
\* committed: the revision the last batchUpdate answered.
Write == [ pc        : PC,
           plan      : [rev : Nat, action : {"no_op", "replace"}],
           before    : Nat,
           after     : [rev : Nat, drive : Nat],
           committed : Nat \union {NoRevision},
           count     : 0..2,
           cert      : Certification,
           status    : {"none", "no_change", "written", "failed"} ]

TypeOK ==
    /\ doc \in Document
    /\ changes \in Nat /\ drive \in Nat /\ edits \in 0..MaxEdits
    /\ permit \in BOOLEAN /\ halted \in BOOLEAN
    /\ net \subseteq Batch
    /\ ours \subseteq {"mutation", "rollback"}
    /\ write \in Write

\* The Drive version may not yet show the change the plan was read after.
Init ==
    /\ changes = 2 /\ drive \in {1, 2} /\ edits = 0
    /\ permit \in BOOLEAN /\ halted = FALSE
    /\ net = {} /\ ours = {}
    /\ \E action \in {"no_op", "replace"} :
          /\ doc = [rev |-> 1, facts |-> IF action = "no_op" THEN "new" ELSE "old",
                    outside |-> "planned"]
          /\ write = [pc |-> "authorization", plan |-> [rev |-> 1, action |-> action],
                      before |-> 0, after |-> [rev |-> 0, drive |-> 0], committed |-> NoRevision,
                      count |-> 0, cert |-> "not_attempted", status |-> "none"]

-----------------------------------------------------------------------------
(* Google's side *)

\* A batchUpdate is applied only at the revision its writeControl requires.
Applies(b) == doc.rev = b.rev

Apply(b) ==
    /\ Applies(b)
    /\ \E facts \in IF b.kind = "mutation" THEN {"new", "bad"} ELSE {"old", "bad"} :
          doc' = [doc EXCEPT !.rev = @ + 1, !.facts = facts]
    /\ changes' = changes + 1
    /\ ours' = ours \union {b.kind}
    /\ UNCHANGED edits

Goes(row) ==
    /\ write' = row
    /\ UNCHANGED <<document, drive, permit, halted, net>>

To(pc) == [write EXCEPT !.pc = pc]
Ends(row, status, cert) == [row EXCEPT !.pc = "done", !.status = status, !.cert = cert]
Fails(cert) == Ends(write, "failed", cert)

\* The call of batch b: answered, or it throws, whatever became of the batch.
Send(b, row, ok, err) ==
    /\ \/ /\ Apply(b)
          /\ write' \in {[row EXCEPT !.pc = ok, !.committed = doc.rev + 1],
                         [row EXCEPT !.pc = err, !.committed = NoRevision]}
          /\ UNCHANGED net
       \/ /\ write' = [row EXCEPT !.pc = err, !.committed = NoRevision]
          /\ net' \in {net, net \union {b}}
          /\ UNCHANGED document
    /\ UNCHANGED <<drive, permit, halted>>

-----------------------------------------------------------------------------
(* The call *)

Authorize ==
    /\ write.pc = "authorization"
    /\ Goes(IF permit THEN To("preimage") ELSE Fails("not_attempted"))

\* The preimage is the document the plan was made from.
Preimage ==
    /\ write.pc = "preimage"
    /\ \/ Goes(Fails("not_attempted"))
       \/ /\ doc.rev = write.plan.rev
          /\ LET row == [write EXCEPT !.before = drive]
             IN  Goes(IF write.plan.action = "no_op"
                      THEN Ends(row, "no_change", "preimage_verified")
                      ELSE [row EXCEPT !.pc = "gate"])

\* Flags, permit and kill switch are checked again at the mutation boundary;
\* the kill switch is read from the database, which may fail.
Gate ==
    /\ write.pc = "gate"
    /\ \/ Goes(Fails("not_attempted"))
       \/ permit /\ ~halted /\ Goes(To("mutation"))

\* Mutant: the call is counted when its answer is in.
CountedWhenAnswered(row, cert) == [row EXCEPT !.cert = cert]

\* The call is counted before it is made.
Counted(row, cert) == [row EXCEPT !.count = @ + 1, !.cert = cert]

Mutate ==
    /\ write.pc = "mutation"
    /\ IF permit
       THEN Send([kind |-> "mutation", rev |-> write.plan.rev],
                 Counted(write, "ambiguous"), "postimage", "settlement")
       ELSE Goes(Fails("not_attempted"))

\* The document certifies as what the plan writes.
CertifiedPostimage ==
    doc.rev # write.plan.rev /\ doc.facts = "new" /\ doc.outside = "planned"

\* Mutant: the settlement looks at the Drive version only.
SettledWrittenIfAdvanced == drive > write.before

SettledWritten == drive > write.before /\ CertifiedPostimage

\* The mutation threw: a settled document says whether it was applied.
Settle ==
    /\ write.pc = "settlement"
    /\ \/ Goes(Fails("ambiguous"))
       \/ /\ drive = write.before /\ doc.rev = write.plan.rev
          /\ Goes(Fails("preimage_verified"))
       \/ /\ SettledWritten
          /\ Goes(Ends(write, "written", "postimage_verified"))

\* The document is the one the mutation committed, with the rest as planned:
\* its fact block may be rolled back.
SafeRollback ==
    /\ doc.rev = write.committed
    /\ doc.rev # write.plan.rev
    /\ doc.outside = "planned"

Postimage ==
    /\ write.pc = "postimage"
    /\ \/ Goes(Fails("postimage_rejected"))
       \/ /\ drive > write.before
          /\ SafeRollback
          /\ Goes(IF CertifiedPostimage
                  THEN Ends(write, "written", "postimage_verified")
                  ELSE [write EXCEPT !.pc = "rollback", !.after = [rev |-> doc.rev, drive |-> drive]])

\* Mutant: the rollback asks for whatever revision the document has.
RollbackOfLatest == [kind |-> "rollback", rev |-> doc.rev]

\* The rollback is fenced by the revision that was read.
RollbackBatch == [kind |-> "rollback", rev |-> write.after.rev]

Rollback ==
    /\ write.pc = "rollback"
    /\ Send(RollbackBatch, Counted(write, "rollback_unverified"), "recovery", "recovery")

\* The exact preimage is back.
Recovered ==
    /\ drive > write.after.drive
    /\ doc.facts = "old" /\ doc.outside = "planned"
    /\ write.committed # NoRevision => doc.rev = write.committed

Recover ==
    /\ write.pc = "recovery"
    /\ \/ Goes(Fails("rollback_unverified"))
       \/ Recovered /\ Goes(Fails("rollback_verified"))

Step == Authorize \/ Preimage \/ Gate \/ Mutate \/ Settle \/ Postimage \/ Rollback \/ Recover

-----------------------------------------------------------------------------
(* Meanwhile *)

\* Somebody edits the fact block or the rest, or only the file (its sharing).
Edit ==
    /\ edits < MaxEdits
    /\ edits' = edits + 1
    /\ changes' = changes + 1
    /\ \/ doc' = [doc EXCEPT !.rev = @ + 1, !.facts = "edited"]
       \/ doc' = [doc EXCEPT !.rev = @ + 1, !.outside = "edited"]
       \/ UNCHANGED doc
    /\ UNCHANGED <<drive, permit, halted, net, ours, write>>

\* The Drive version catches up.
DriveAdvances ==
    /\ drive < changes
    /\ drive' = changes
    /\ UNCHANGED <<document, permit, halted, net, write>>

\* A batchUpdate whose call threw is applied, or rejected, after all.
LateBatch ==
    /\ \E b \in net :
          /\ net' = net \ {b}
          /\ IF Applies(b) THEN Apply(b) ELSE UNCHANGED document
    /\ UNCHANGED <<drive, permit, halted, write>>

PermitExpires ==
    /\ permit /\ permit' = FALSE
    /\ UNCHANGED <<document, drive, halted, net, write>>

KillSwitch ==
    /\ ~halted /\ halted' = TRUE
    /\ UNCHANGED <<document, drive, permit, net, write>>

Next == Step \/ Edit \/ DriveAdvances \/ LateBatch \/ PermitExpires \/ KillSwitch

Spec == Init /\ [][Next]_vars

-----------------------------------------------------------------------------
(* Properties *)

\* What a person wrote into the fact block stays: neither the mutation nor the
\* rollback, prompt or late, is ever applied over it.
EditsSurvive == [][doc.facts = "edited" => doc'.facts = "edited"]_vars

\* The count that fences the document in the hydration store covers every batch
\* that was applied or may still be, whatever the caller was answered.
CountCovers == Cardinality(ours) + Cardinality(net) <= write.count

\* A result says what was done: a written week was written by this call and not
\* taken back, a verified rollback took it back, and no result but a failure
\* leaves a batch that may still be applied.
ResultTruthful ==
    /\ write.status = "written" => ours = {"mutation"} /\ net = {}
    /\ write.status = "no_change" => ours = {} /\ net = {}
    /\ write.cert = "rollback_verified" => ours = {"mutation", "rollback"} /\ net = {}

=============================================================================
