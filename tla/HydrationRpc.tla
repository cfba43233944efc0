----------------------------- MODULE HydrationRpc -----------------------------
(***************************************************************************)
(* The tables recruiting_ops_hydration_runs and                            *)
(* recruiting_ops_hydration_artifact_attempts (migrations 024, 026, 030)   *)
(* with the source table they bind, as one value `db', and each RPC as a   *)
(* function from the database before the call to the one after it.         *)
(*                                                                         *)
(* A run is identified by its dedupe key; its immutable inputs are the     *)
(* constant Requested.  t is the transaction's now().  The row locks the   *)
(* RPCs take (source first, then attempts, then the run) and the advisory  *)
(* lock of claim make each of them one atomic step, except where claim     *)
(* recovers an expired run: ClaimRecovery opens that case.                 *)
(***************************************************************************)
EXTENDS SourceLease, Sequences

CONSTANTS
    Runs,           \* dedupe keys
    Artifacts,      \* artifact keys
    Requested,      \* requested_artifacts of each run
    NoSource,       \* source_execution_id of a run that is not bound
    RunLeaseLen     \* p_lease_seconds of claim and heartbeat, in ticks

ASSUME HydrationRpcAssumption ==
    /\ Requested \in [Runs -> (SUBSET Artifacts) \ {{}}]
    /\ NoSource \notin SourceIds
    /\ RunLeaseLen \in Nat \ {0}

\* `queued' is left in the statement that inserts it, so no reader sees it.
RunStatus == {"absent", "loading_source", "running", "terminal"}

RunOutcome == {"succeeded", "no_change", "partial", "failed", "timed_out"}

\* A running attempt or the outcome of a terminal one; certification_failed
\* is counted like failed everywhere in the RPCs.
CertifiedOutcome == {"written", "no_change"}
AttemptStatus == {"running", "failed", "timed_out"} \union CertifiedOutcome

\* leased = 0 is a null lease.
RunRow == [ status  : RunStatus,
            outcome : RunOutcome \union {"none"},
            owner   : Owners \union {NoOwner},
            leased  : Nat,
            source  : SourceIds \union {NoSource},
            cut     : Cuts \union {NoCut} ]

\* attempts[k][a][n] is the attempt number n of run k on artifact a.
Database == [ source   : SourceTable,
              run      : [Runs -> RunRow],
              attempts : [Runs -> [Artifacts -> Seq(AttemptStatus)]] ]

AbsentRun == [ status |-> "absent", outcome |-> "none", owner |-> NoOwner,
               leased |-> 0, source |-> NoSource, cut |-> NoCut ]

EmptyDatabase == [ source   |-> [s \in SourceIds |-> AbsentRow],
                   run      |-> [k \in Runs |-> AbsentRun],
                   attempts |-> [k \in Runs |-> [a \in Artifacts |-> <<>>]] ]

Active(db, k) == db.run[k].status \in {"loading_source", "running"}

\* The run is not terminal, o owns it and its lease has not passed at t.
HoldsRun(db, k, o, t) ==
    /\ Active(db, k)
    /\ db.run[k].owner = o
    /\ db.run[k].leased > t

Latest(log) == IF log = <<>> THEN "none" ELSE log[Len(log)]

\* Every running attempt of a log becomes timed_out.
TimedOut(log) == [n \in DOMAIN log |-> IF log[n] = "running" THEN "timed_out" ELSE log[n]]

HasRunningAttempt(db, k) ==
    \E a \in Artifacts : \E n \in DOMAIN db.attempts[k][a] : db.attempts[k][a][n] = "running"

WithRun(db, k, row) == [db EXCEPT !.run[k] = row]

\* The logs of a run with every running attempt timed out.
Settled(db, k) == [a \in Artifacts |-> TimedOut(db.attempts[k][a])]

\* The row of a run that ends: its lease becomes null.
Ended(row, outcome) ==
    [row EXCEPT !.status = "terminal", !.outcome = outcome, !.leased = 0]

-----------------------------------------------------------------------------
(* Outcomes *)

\* The outcome finish_run computes from the latest attempt of each artifact.
Aggregate(logs, wanted) ==
    LET latest    == [a \in wanted |-> Latest(logs[a])]
        certified == {a \in wanted : latest[a] \in CertifiedOutcome}
    IN  CASE certified = wanted /\ (\E a \in wanted : latest[a] = "written") -> "succeeded"
          [] certified = wanted /\ (\A a \in wanted : latest[a] = "no_change") -> "no_change"
          [] certified # wanted /\ certified # {} -> "partial"
          [] certified = {} /\ (\E a \in wanted : latest[a] = "timed_out") -> "timed_out"
          [] OTHER -> "failed"

\* What claim writes for an expired run: like finish_run, except that a run
\* with no attempt at all is timed_out.
RecoveredOutcome(logs, wanted) ==
    IF \A a \in wanted : logs[a] = <<>> THEN "timed_out" ELSE Aggregate(logs, wanted)

-----------------------------------------------------------------------------
(* claim_recruiting_ops_hydration_run (026) *)

\* Mutant: only a run that wrote something counts as a stored success.
SealedIfWritten(db, k) ==
    db.run[k].status = "terminal" /\ db.run[k].outcome = "succeeded"

\* A stored success is replayed.
Sealed(db, k) ==
    db.run[k].status = "terminal" /\ db.run[k].outcome \in {"succeeded", "no_change"}

\* idx_recops_hydration_run_one_active lets at most one other run be active.
OtherActive(db, k) == {r \in Runs \ {k} : Active(db, r)}

\* Mutant: recovery calls every expired run timed out, certified work or not.
RetiredTimedOut(db, r) ==
    [WithRun(db, r, Ended(db.run[r], "timed_out")) EXCEPT !.attempts[r] = Settled(db, r)]

\* Recovery of an expired run: its running attempts time out and it ends with
\* the outcome its attempts show.
Retired(db, r) ==
    LET ended == Ended(db.run[r], RecoveredOutcome(Settled(db, r), Requested[r]))
    IN  [WithRun(db, r, ended) EXCEPT !.attempts[r] = Settled(db, r)]

\* Mutant: claim looks only at its own key, as before 026.
AfterRetireOwnKeyOnly(db, k) == db

\* The database after the other active run, if any, was retired.
AfterRetire(db, k) ==
    IF OtherActive(db, k) = {} THEN db
    ELSE Retired(db, CHOOSE r \in OtherActive(db, k) : TRUE)

\* Mutant: the claim of an active run does not look at its lease.
ClaimableIgnoringLease(db, k, o, t) ==
    /\ ~Sealed(db, k)
    /\ db.run[k].source # NoSource =>
           Replayable(db.source, db.run[k].source, db.run[k].cut)

\* Mutant: a bound source is reclaimed without checking that it can be replayed.
ClaimableUnreplayed(db, k, o, t) ==
    /\ ~Sealed(db, k)
    /\ Active(db, k) => db.run[k].owner = o \/ db.run[k].leased <= t

\* The requested run may be taken by o: it is not held by another owner, and a
\* bound cut can still be replayed.
Claimable(db, k, o, t) ==
    /\ ~Sealed(db, k)
    /\ Active(db, k) => db.run[k].owner = o \/ db.run[k].leased <= t
    /\ db.run[k].source # NoSource =>
           Replayable(db.source, db.run[k].source, db.run[k].cut)

\* Mutant: a reopened run forgets its cut and loads another.
ClaimedRowUnbound(row, o, until) ==
    [row EXCEPT !.owner   = o,
                !.leased  = until,
                !.outcome = "none",
                !.source  = IF row.status = "terminal" THEN NoSource ELSE @,
                !.cut     = IF row.status = "terminal" THEN NoCut ELSE @,
                !.status  = IF row.status \in {"absent", "terminal"} THEN "loading_source"
                            ELSE row.status]

\* The row the claim writes; a reopened run goes on from its cut if it has one.
ClaimedRow(row, o, until) ==
    [row EXCEPT !.owner   = o,
                !.leased  = until,
                !.outcome = "none",
                !.status  = IF row.status \in {"loading_source", "running"} THEN row.status
                            ELSE IF row.status = "terminal" /\ row.source # NoSource THEN "running"
                            ELSE "loading_source"]

\* The claim returns before it recovers or takes anything.
ClaimRefused(db, k, t) ==
    \/ Sealed(db, k)
    \/ \E r \in OtherActive(db, k) : db.run[r].leased > t

ClaimAcquired(db, k, o, t) ==
    /\ ~ClaimRefused(db, k, t)
    /\ Claimable(AfterRetire(db, k), k, o, t)

AfterClaim(db, k, o, t) ==
    LET d == AfterRetire(db, k)
    IN  IF ClaimRefused(db, k, t) THEN db
        ELSE IF Claimable(d, k, o, t)
             THEN WithRun(d, k, ClaimedRow(d.run[k], o, t + RunLeaseLen))
             ELSE d

-----------------------------------------------------------------------------
(* The RPCs of the owner of a run *)

Binds(db, k, o, s, c, t) ==
    /\ Replayable(db.source, s, c)
    /\ HoldsRun(db, k, o, t)
    /\ db.run[k].status = "loading_source"
    /\ db.run[k].source = NoSource

AfterBind(db, k, o, s, c, t) ==
    IF Binds(db, k, o, s, c, t)
    THEN WithRun(db, k, [db.run[k] EXCEPT !.source = s, !.cut = c, !.status = "running"])
    ELSE db

\* Mutant: the attempt is inserted without looking for a certified one.
StartsAgain(db, k, a, n, o, t) ==
    /\ HoldsRun(db, k, o, t)
    /\ db.run[k].status = "running"
    /\ Replayable(db.source, db.run[k].source, db.run[k].cut)
    /\ a \in Requested[k]
    /\ n = Len(db.attempts[k][a]) + 1
    /\ Latest(db.attempts[k][a]) # "running"

\* start_recruiting_ops_hydration_artifact_attempt inserts attempt number n: it
\* must be the next, and neither a running nor a certified attempt may exist.
Starts(db, k, a, n, o, t) ==
    /\ HoldsRun(db, k, o, t)
    /\ db.run[k].status = "running"
    /\ Replayable(db.source, db.run[k].source, db.run[k].cut)
    /\ a \in Requested[k]
    /\ n = Len(db.attempts[k][a]) + 1
    /\ \A m \in DOMAIN db.attempts[k][a] :
           db.attempts[k][a][m] \notin CertifiedOutcome \union {"running"}

AfterStart(db, k, a, n, o, t) ==
    IF Starts(db, k, a, n, o, t)
    THEN [db EXCEPT !.attempts[k][a] = Append(@, "running")]
    ELSE db

AfterTimeoutAttempts(db, k, o, t) ==
    IF HoldsRun(db, k, o, t) /\ db.run[k].status = "running"
    THEN [db EXCEPT !.attempts[k] = Settled(db, k)]
    ELSE db

\* finish_recruiting_ops_hydration_artifact_attempt of attempt n.
FinishesAttempt(db, k, a, n, o, t) ==
    /\ HoldsRun(db, k, o, t)
    /\ db.run[k].status = "running"
    /\ n \in DOMAIN db.attempts[k][a]
    /\ db.attempts[k][a][n] = "running"

AfterFinishAttempt(db, k, a, n, outcome, o, t) ==
    IF FinishesAttempt(db, k, a, n, o, t)
    THEN [db EXCEPT !.attempts[k][a][n] = outcome]
    ELSE db

\* finish_recruiting_ops_hydration_run raises unless every attempt is terminal
\* and the outcome is the aggregate of the latest ones.
FinishesRun(db, k, o, outcome, t) ==
    /\ HoldsRun(db, k, o, t)
    /\ ~HasRunningAttempt(db, k)
    /\ outcome = Aggregate(db.attempts[k], Requested[k])

AfterFinishRun(db, k, o, outcome, t) ==
    IF FinishesRun(db, k, o, outcome, t)
    THEN WithRun(db, k, Ended(db.run[k], outcome))
    ELSE db

\* heartbeat_recruiting_ops_hydration_run (030).
AfterRunHeartbeat(db, k, o, t) ==
    IF HoldsRun(db, k, o, t)
    THEN WithRun(db, k, [db.run[k] EXCEPT !.leased = t + RunLeaseLen])
    ELSE db

-----------------------------------------------------------------------------
(* prune_recruiting_ops_source_execution_payloads, for one source          *)

BoundTo(db, s) == {k \in Runs : db.run[k].source = s}

\* A completed source no run with a live lease is bound to.
Prunable(db, s, t) ==
    /\ db.source[s].status = "completed"
    /\ db.source[s].payload = "kept"
    /\ \A k \in BoundTo(db, s) : ~(Active(db, k) /\ db.run[k].leased > t)

\* Mutant: what goes with the payload is also the fingerprint of the cut.
AfterPruneForgetful(db, s, t) ==
    IF Prunable(db, s, t)
    THEN [db EXCEPT !.source[s] = [@ EXCEPT !.payload = "pruned", !.cut = NoCut]]
    ELSE db

\* The expired runs bound to s end as timed_out and their running attempts with
\* them; then the payload goes, unless a run that is not terminal needs it.
AfterPrune(db, s, t) ==
    LET expired == {k \in BoundTo(db, s) : Active(db, k) /\ db.run[k].leased <= t}
        settled == [db EXCEPT
            !.attempts = [k \in Runs |-> IF k \in expired THEN Settled(db, k) ELSE db.attempts[k]],
            !.run      = [k \in Runs |-> IF k \in expired THEN Ended(db.run[k], "timed_out")
                                                         ELSE db.run[k]]]
    IN  IF ~Prunable(db, s, t) THEN db
        ELSE IF \E k \in BoundTo(db, s) : Active(settled, k) THEN settled
        ELSE [settled EXCEPT !.source[s] = [@ EXCEPT !.payload = "pruned"]]

=============================================================================
