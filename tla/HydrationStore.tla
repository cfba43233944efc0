---------------------------- MODULE HydrationStore ----------------------------
(***************************************************************************)
(* The hydration store under any client: every owner may call every RPC of *)
(* migrations 023, 024, 026 and 030 at any time, late, twice or out of     *)
(* order, and the daily retention job runs whenever it likes.  A crash is  *)
(* an owner that makes no more calls; a zombie is one that makes them too  *)
(* late.                                                                   *)
(***************************************************************************)
EXTENDS HydrationRpc, StoreClock

CONSTANT MaxAttempts    \* bound on attempt_no, by artifact

ASSUME HydrationStoreAssumption == MaxAttempts \in [Artifacts -> Nat]

VARIABLE db

vars == <<now, db>>

TypeOK ==
    /\ now \in Nat
    /\ db \in Database

Init ==
    /\ now = 0
    /\ db = EmptyDatabase

Tick == Advance /\ UNCHANGED db

\* A call whose guard fails returns false, or raises, and changes nothing: the
\* actions below are the calls that do something.
Claim(k, o) ==
    /\ \E t \in TxnStarts : ~ClaimRefused(db, k, t) /\ db' = AfterClaim(db, k, o, t)
    /\ UNCHANGED now

Bind(k, o) ==
    /\ \E t \in TxnStarts, s \in SourceIds, c \in Cuts :
          Binds(db, k, o, s, c, t) /\ db' = AfterBind(db, k, o, s, c, t)
    /\ UNCHANGED now

StartAttempt(k, a, o) ==
    /\ \E t \in TxnStarts, n \in 1..MaxAttempts[a] :
          Starts(db, k, a, n, o, t) /\ db' = AfterStart(db, k, a, n, o, t)
    /\ UNCHANGED now

TimeoutAttempts(k, o) ==
    /\ HasRunningAttempt(db, k)
    /\ \E t \in TxnStarts : db' = AfterTimeoutAttempts(db, k, o, t)
    /\ UNCHANGED now

FinishAttempt(k, a, o) ==
    /\ \E t \in TxnStarts, n \in 1..MaxAttempts[a], outcome \in AttemptStatus \ {"running"} :
          /\ FinishesAttempt(db, k, a, n, o, t)
          /\ db' = AfterFinishAttempt(db, k, a, n, outcome, o, t)
    /\ UNCHANGED now

FinishRun(k, o) ==
    /\ \E t \in TxnStarts, outcome \in RunOutcome :
          FinishesRun(db, k, o, outcome, t) /\ db' = AfterFinishRun(db, k, o, outcome, t)
    /\ UNCHANGED now

HeartbeatRun(k, o) ==
    /\ \E t \in TxnStarts :
          HoldsRun(db, k, o, t) /\ db' = AfterRunHeartbeat(db, k, o, t)
    /\ UNCHANGED now

Prune(s) ==
    /\ \E t \in TxnStarts : Prunable(db, s, t) /\ db' = AfterPrune(db, s, t)
    /\ UNCHANGED now

\* The loaders of SourceExecution, on the source table of the database.
AcquireSource(s, o) ==
    /\ \E t \in TxnStarts : db' = [db EXCEPT !.source = AfterAcquire(@, s, o, t)]
    /\ UNCHANGED now

CompleteSource(s, o) ==
    /\ \E t \in TxnStarts, c \in Cuts :
          /\ HoldsSource(db.source, s, o, t)
          /\ db' = [db EXCEPT !.source = AfterComplete(@, s, o, c, t)]
    /\ UNCHANGED now

FailSource(s, o) ==
    /\ \E t \in TxnStarts : db' = [db EXCEPT !.source = AfterFail(@, s, o, t)]
    /\ UNCHANGED now

HeartbeatSource(s, o) ==
    /\ \E t \in TxnStarts :
          /\ HoldsSource(db.source, s, o, t)
          /\ db' = [db EXCEPT !.source = AfterSourceHeartbeat(@, s, o, t)]
    /\ UNCHANGED now

Next ==
    \/ Tick
    \/ \E s \in SourceIds : Prune(s)
    \/ \E s \in SourceIds, o \in Owners :
          \/ AcquireSource(s, o) \/ CompleteSource(s, o)
          \/ FailSource(s, o) \/ HeartbeatSource(s, o)
    \/ \E k \in Runs, o \in Owners :
          \/ Claim(k, o) \/ Bind(k, o) \/ TimeoutAttempts(k, o)
          \/ FinishRun(k, o) \/ HeartbeatRun(k, o)
          \/ \E a \in Artifacts : StartAttempt(k, a, o) \/ FinishAttempt(k, a, o)

Spec == Init /\ [][Next]_vars

-----------------------------------------------------------------------------
(* Invariants *)

\* The durable invariant of 026: one run is active across every dedupe key.
OneActiveRun ==
    \A j, k \in Runs : Active(db, j) /\ Active(db, k) => j = k

\* An attempt is running, or certified, only as the last of its artifact: the
\* work on an artifact is never repeated after it was certified, and a crash,
\* a recovery or a retention sweep leaves no attempt running behind.
AttemptLogs ==
    \A k \in Runs, a \in Artifacts : \A n \in DOMAIN db.attempts[k][a] :
        /\ n < Len(db.attempts[k][a]) => db.attempts[k][a][n] \in {"failed", "timed_out"}
        /\ db.attempts[k][a][n] = "running" => db.run[k].status = "running"

\* An active run that is bound can replay its cut: retention, recovery and
\* reclaim never leave it without the payload it was bound to.
SourcePinned ==
    \A k \in Runs :
        Active(db, k) =>
            /\ db.run[k].status = "running" <=> db.run[k].source # NoSource
            /\ db.run[k].source # NoSource =>
                   Replayable(db.source, db.run[k].source, db.run[k].cut)

\* A terminal run says what its attempts show.  Only a run that lost its owner
\* is called timed_out against its attempts: one that never started an attempt,
\* or one whose cut retention discarded.
OutcomeTruthful ==
    \A k \in Runs :
        db.run[k].status = "terminal" =>
            \/ db.run[k].outcome = Aggregate(db.attempts[k], Requested[k])
            \/ /\ db.run[k].outcome = "timed_out"
               /\ \/ \A a \in Requested[k] : db.attempts[k][a] = <<>>
                  \/ db.source[db.run[k].source].payload = "pruned"

-----------------------------------------------------------------------------
(* Action properties *)

\* While the clock has not reached the lease of a run, it keeps its owner, and
\* it ends only by its owner's finish: with no attempt cut short in that step.
LiveRunUndisturbed ==
    [][\A k \in Runs :
          Active(db, k) /\ db.run[k].leased > now =>
              /\ db'.run[k].owner = db.run[k].owner
              /\ ~Active(db', k) =>
                     db'.attempts[k] = db.attempts[k] /\ ~HasRunningAttempt(db, k)]_vars

\* A run that succeeded, or found nothing to change, is never reopened and its
\* attempts are never touched again.
SuccessIsFinal ==
    [][\A k \in Runs :
          db.run[k].status = "terminal" /\ db.run[k].outcome \in {"succeeded", "no_change"} =>
              db'.run[k] = db.run[k] /\ db'.attempts[k] = db.attempts[k]]_vars

\* The cut of a run, as the write-once register of CutRegister.
BoundCut ==
    [k \in Runs |->
        IF db.run[k].source = NoSource THEN NoCut ELSE <<db.run[k].source, db.run[k].cut>>]

Binding == INSTANCE CutRegister
    WITH Ids <- Runs, Values <- SourceIds \X Cuts, Unset <- NoCut, published <- BoundCut

\* Whatever takeover, retry and recovery do, a run works on one cut for ever.
ImplementsBinding == Binding!CRSpec

Loads == INSTANCE SourceExecution WITH source <- db.source

\* What SourceExecution says of the source table alone is true of it here: no
\* RPC of the runs, and no retention, does to it what the loaders could not.
ImplementsSourceExecution == Loads!SourceSpec

=============================================================================
