----------------------------- MODULE ClaimRecovery -----------------------------
(***************************************************************************)
(* How claim_recruiting_ops_hydration_run (026) retires the expired run of  *)
(* another dedupe key, statement by statement at READ COMMITTED, against    *)
(* the RPCs of that run's owner, its heartbeat and the retention job.       *)
(* HydrationStore takes each of these transactions as one step.             *)
(*                                                                         *)
(* run, attempts and payload are the committed rows.  What a transaction    *)
(* wrote and has not committed is in its own state, which also says what    *)
(* rows it has locked.  A transaction of one statement is one step.  There  *)
(* is one run and one source; each attempt is the latest of its artifact.   *)
(***************************************************************************)
EXTENDS Naturals

CONSTANTS
    Artifacts,  \* the requested artifacts of the run
    LeaseLen,   \* the lease a claim or heartbeat gives
    MaxTime     \* bound of the clock

ASSUME ClaimRecoveryAssumption ==
    /\ Artifacts # {}
    /\ LeaseLen \in Nat \ {0}
    /\ MaxTime \in Nat

VARIABLES
    clock,
    run,        \* the expired run's row
    attempts,   \* the latest attempt of each artifact
    payload,    \* whether the source can be replayed
    claim,      \* the recovering transaction
    main,       \* the owner's RPC under way
    beat,       \* its heartbeat under way
    prune       \* the retention job

rows == <<run, attempts, payload>>
vars == <<clock, rows, claim, main, beat, prune>>

Outcome == {"none", "succeeded", "no_change", "partial", "failed", "timed_out"}
Certified == {"written", "no_change"}
Attempt == {"none", "running", "failed", "timed_out"} \union Certified

RunRow == [ status  : {"loading_source", "running", "terminal"},
            outcome : Outcome,
            leased  : 0..(MaxTime + LeaseLen),
            bound   : BOOLEAN ]

Rpc == {"bind", "start", "finish_attempt", "timeout_attempts", "finish_run"}

TypeOK ==
    /\ clock \in 0..MaxTime
    /\ run \in RunRow
    /\ attempts \in [Artifacts -> Attempt]
    /\ payload \in {"kept", "pruned"}
    /\ claim \in [ pc       : {"idle", "look", "top", "reread", "attempts", "count", "run", "take", "done"},
                   t        : 0..MaxTime,
                   active   : RunRow,
                   observed : BOOLEAN,
                   locked   : BOOLEAN,
                   retired  : SUBSET Artifacts,
                   outcome  : Outcome,
                   acquired : BOOLEAN ]
    /\ main \in [ pc : {"idle", "begun", "locked"}, t : 0..MaxTime, rpc : Rpc, artifact : Artifacts ]
    /\ beat \in [ pc : {"idle", "begun"}, t : 0..MaxTime ]
    /\ prune \in [ pc : {"idle", "begun", "attempts", "run", "done"}, t : 0..MaxTime,
                   retired : SUBSET Artifacts ]

NoRow == [status |-> "terminal", outcome |-> "none", leased |-> 0, bound |-> FALSE]
Idle == [pc |-> "idle", t |-> 0, rpc |-> "bind", artifact |-> CHOOSE a \in Artifacts : TRUE]

\* The run was just claimed, or works on its cut.
Init ==
    /\ clock = 0
    /\ \E bound \in BOOLEAN :
          run = [status |-> IF bound THEN "running" ELSE "loading_source",
                 outcome |-> "none", leased |-> LeaseLen, bound |-> bound]
    /\ attempts = [a \in Artifacts |-> "none"]
    /\ payload = "kept"
    /\ claim = [pc |-> "idle", t |-> 0, active |-> NoRow, observed |-> FALSE, locked |-> FALSE,
                retired |-> {}, outcome |-> "none", acquired |-> FALSE]
    /\ main = Idle
    /\ beat = [pc |-> "idle", t |-> 0]
    /\ prune = [pc |-> "idle", t |-> 0, retired |-> {}]

Tick ==
    /\ clock < MaxTime
    /\ clock' = clock + 1
    /\ UNCHANGED <<rows, claim, main, beat, prune>>

-----------------------------------------------------------------------------
(* Row locks *)

SourceShared == main.pc = "locked" /\ main.rpc \in {"bind", "start"}
SourceExclusive == claim.locked \/ prune.pc \in {"attempts", "run"}
SourceFree == ~SourceShared /\ ~SourceExclusive

RunFree == ~(main.pc = "locked" /\ main.rpc = "finish_run")

\* Attempts that another transaction has updated and not committed.
ByClaim == IF claim.pc = "done" THEN {} ELSE claim.retired
Locked(as) == as \intersect (ByClaim \union prune.retired) # {}

Live(t) == run.status # "terminal" /\ run.leased > t
Expired(t) == run.status # "terminal" /\ run.leased <= t

Running == {a \in Artifacts : attempts[a] = "running"}
TimedOut(as) == [a \in Artifacts |-> IF a \in as THEN "timed_out" ELSE attempts[a]]
Ended(outcome) == [run EXCEPT !.status = "terminal", !.outcome = outcome, !.leased = 0]

\* The outcome that finish_run and claim compute from the latest attempts.
Aggregate(latest) ==
    LET done == {a \in Artifacts : latest[a] \in Certified}
    IN  IF done = Artifacts
        THEN IF \E a \in done : latest[a] = "written" THEN "succeeded" ELSE "no_change"
        ELSE IF done # {} THEN "partial"
        ELSE IF \E a \in Artifacts : latest[a] = "timed_out" THEN "timed_out"
        ELSE "failed"

\* claim calls a run without attempts timed_out.
RecoveredOutcome(latest) ==
    IF \A a \in Artifacts : latest[a] = "none" THEN "timed_out" ELSE Aggregate(latest)

-----------------------------------------------------------------------------
(* The claim.  Its lines in 026 are named by the control points. *)

ClaimGoes(row) ==
    /\ claim' = row
    /\ UNCHANGED <<clock, main, beat, prune>>

\* now() is the start of the transaction: it may still wait for the advisory
\* lock.
ClaimBegin ==
    /\ claim.pc = "idle"
    /\ ClaimGoes([claim EXCEPT !.pc = "look", !.t = clock])
    /\ UNCHANGED rows

\* A look at the active run: if there is none the claim goes on to its own run.
Look(row) == [claim EXCEPT !.active = row, !.pc = IF row.status = "terminal" THEN "take" ELSE "top"]

ClaimLook ==
    /\ claim.pc = "look"
    /\ ClaimGoes(Look(run))
    /\ UNCHANGED rows

\* The transaction is over; what it wrote is committed.
Done(acquired) ==
    [claim EXCEPT !.pc = "done", !.acquired = acquired, !.outcome = "none", !.active = NoRow,
                  !.observed = FALSE, !.locked = FALSE]

\* The transaction commits and reports that the claim was not acquired.
ClaimRefused ==
    /\ attempts' = TimedOut(claim.retired)
    /\ ClaimGoes(Done(FALSE))
    /\ UNCHANGED <<run, payload>>

\* Mutant: the source is not locked.
ClaimTopUnlocked ==
    /\ claim.pc = "top"
    /\ \/ claim.active.leased > claim.t /\ ClaimRefused
       \/ /\ claim.active.leased <= claim.t
          /\ ClaimGoes([claim EXCEPT !.pc = "reread", !.observed = claim.active.bound])
          /\ UNCHANGED rows

\* Mutant: a live lease makes the claim look again.
ClaimTopWaits ==
    /\ claim.pc = "top"
    /\ claim.active.bound => claim.locked \/ SourceFree
    /\ ClaimGoes(IF claim.active.leased > claim.t THEN [claim EXCEPT !.pc = "look"]
                 ELSE [claim EXCEPT !.pc = "reread", !.observed = claim.active.bound,
                                    !.locked = @ \/ claim.active.bound])
    /\ UNCHANGED rows

\* The head of the loop: a live lease refuses the claim, and a bound source is
\* locked before attempts and run.
ClaimTop ==
    /\ claim.pc = "top"
    /\ \/ claim.active.leased > claim.t /\ ClaimRefused
       \/ /\ claim.active.leased <= claim.t
          /\ claim.active.bound => claim.locked \/ SourceFree
          /\ ClaimGoes([claim EXCEPT !.pc = "reread", !.observed = claim.active.bound,
                                     !.locked = @ \/ claim.active.bound])
          /\ UNCHANGED rows

ClaimReread ==
    /\ claim.pc = "reread"
    /\ IF run.status # "terminal" /\ run.bound = claim.observed
       THEN IF run.leased > claim.t THEN ClaimRefused
            ELSE ClaimGoes([claim EXCEPT !.active = run, !.pc = "attempts"]) /\ UNCHANGED rows
       ELSE ClaimGoes(Look(run)) /\ UNCHANGED rows

ClaimRetireAttempts ==
    /\ claim.pc = "attempts"
    /\ Running \intersect prune.retired = {}
    /\ ClaimGoes([claim EXCEPT !.pc = "count", !.retired = @ \union Running])
    /\ UNCHANGED rows

ClaimCount ==
    /\ claim.pc = "count"
    /\ ClaimGoes([claim EXCEPT !.pc = "run", !.outcome = RecoveredOutcome(TimedOut(claim.retired))])
    /\ UNCHANGED rows

\* Mutant: the update of the run relies on the lease read before.
RetiresAsRead == run.status # "terminal" /\ run.bound = claim.observed

\* The update of the run: still bound as observed, and still expired.
Retires == Expired(claim.t) /\ run.bound = claim.observed

\* The update matched the run, or the loop goes round with the run as it is.
ClaimRetireRun ==
    /\ claim.pc = "run"
    /\ RunFree
    /\ IF Retires
       THEN /\ run' = Ended(claim.outcome)
            /\ attempts' = TimedOut(claim.retired)
            /\ ClaimGoes(Done(TRUE))
            /\ UNCHANGED payload
       ELSE ClaimGoes(Look(run)) /\ UNCHANGED rows

\* Somebody else ended the run: the claim takes its own.
ClaimTake ==
    /\ claim.pc = "take"
    /\ attempts' = TimedOut(claim.retired)
    /\ ClaimGoes(Done(TRUE))
    /\ UNCHANGED <<run, payload>>

ClaimStep ==
    \/ ClaimLook \/ ClaimTop \/ ClaimReread \/ ClaimRetireAttempts
    \/ ClaimCount \/ ClaimRetireRun \/ ClaimTake

-----------------------------------------------------------------------------
(* The owner's RPCs, one at a time *)

MainGoes(pc) ==
    /\ main' = IF pc = "idle" THEN Idle ELSE [main EXCEPT !.pc = pc]
    /\ UNCHANGED <<clock, claim, beat, prune>>

Begin ==
    /\ main.pc = "idle" /\ run.status # "terminal"
    /\ \E rpc \in Rpc, a \in Artifacts :
          main' = [pc |-> "begun", t |-> clock, rpc |-> rpc, artifact |-> a]
    /\ UNCHANGED <<clock, rows, claim, beat, prune>>

\* bind and start share the source while it can be replayed.
LockSource ==
    /\ main.pc = "begun" /\ main.rpc \in {"bind", "start"}
    /\ ~SourceExclusive
    /\ MainGoes(IF payload = "kept" THEN "locked" ELSE "idle")
    /\ UNCHANGED rows

\* finish_run locks the run while its lease lives.
LockRun ==
    /\ main.pc = "begun" /\ main.rpc = "finish_run"
    /\ MainGoes(IF Live(main.t) THEN "locked" ELSE "idle")
    /\ UNCHANGED rows

Bind ==
    /\ main.pc = "locked" /\ main.rpc = "bind"
    /\ run' = IF Live(main.t) /\ run.status = "loading_source"
              THEN [run EXCEPT !.bound = TRUE, !.status = "running"] ELSE run
    /\ MainGoes("idle")
    /\ UNCHANGED <<attempts, payload>>

\* The insert waits for whoever updated a running attempt of the artifact.
Start ==
    /\ main.pc = "locked" /\ main.rpc = "start"
    /\ ~Locked({main.artifact})
    /\ attempts' = IF /\ Live(main.t) /\ run.status = "running"
                      /\ attempts[main.artifact] \notin Certified \union {"running"}
                   THEN [attempts EXCEPT ![main.artifact] = "running"] ELSE attempts
    /\ MainGoes("idle")
    /\ UNCHANGED <<run, payload>>

FinishAttempt ==
    /\ main.pc = "begun" /\ main.rpc = "finish_attempt"
    /\ ~Locked({main.artifact})
    /\ IF Live(main.t) /\ run.status = "running" /\ main.artifact \in Running
       THEN \E outcome \in {"failed", "no_change", "written"} :
               attempts' = [attempts EXCEPT ![main.artifact] = outcome]
       ELSE UNCHANGED attempts
    /\ MainGoes("idle")
    /\ UNCHANGED <<run, payload>>

TimeoutAttempts ==
    /\ main.pc = "begun" /\ main.rpc = "timeout_attempts"
    /\ ~Locked(Running)
    /\ attempts' = IF Live(main.t) /\ run.status = "running" THEN TimedOut(Running) ELSE attempts
    /\ MainGoes("idle")
    /\ UNCHANGED <<run, payload>>

\* finish_run raises if an attempt is running, and takes the outcome that the
\* attempts show.
FinishRun ==
    /\ main.pc = "locked" /\ main.rpc = "finish_run"
    /\ run' = IF Running = {} THEN Ended(Aggregate(attempts)) ELSE run
    /\ MainGoes("idle")
    /\ UNCHANGED <<attempts, payload>>

MainStep == LockSource \/ LockRun \/ Bind \/ Start \/ FinishAttempt \/ TimeoutAttempts \/ FinishRun

BeatBegin ==
    /\ beat.pc = "idle" /\ run.status # "terminal"
    /\ beat' = [pc |-> "begun", t |-> clock]
    /\ UNCHANGED <<clock, rows, claim, main, prune>>

\* Mutant: the heartbeat adds to the lease it finds.
RenewedFromEnd == run.leased + LeaseLen

Renewed == beat.t + LeaseLen

\* heartbeat_recruiting_ops_hydration_run: one statement.
Heartbeat ==
    /\ beat.pc = "begun"
    /\ RunFree
    /\ run' = IF Live(beat.t) THEN [run EXCEPT !.leased = Renewed] ELSE run
    /\ beat' = [pc |-> "idle", t |-> 0]
    /\ UNCHANGED <<clock, attempts, payload, claim, main, prune>>

-----------------------------------------------------------------------------
(* The retention job, for this source *)

PruneGoes(row) ==
    /\ prune' = row
    /\ UNCHANGED <<clock, claim, main, beat>>

PruneDone == [pc |-> "done", t |-> 0, retired |-> {}]

PruneBegin ==
    /\ prune.pc = "idle"
    /\ PruneGoes([prune EXCEPT !.pc = "begun", !.t = clock])
    /\ UNCHANGED rows

\* A source that a live run needs, or that is locked, is skipped.
PruneLock ==
    /\ prune.pc = "begun"
    /\ PruneGoes(IF SourceFree /\ ~(run.bound /\ Live(prune.t))
                 THEN [prune EXCEPT !.pc = "attempts"] ELSE PruneDone)
    /\ UNCHANGED rows

PruneAttempts ==
    /\ prune.pc = "attempts"
    /\ LET expired == IF run.bound /\ Expired(prune.t) THEN Running ELSE {}
       IN  /\ expired \intersect ByClaim = {}
           /\ PruneGoes([prune EXCEPT !.pc = "run", !.retired = expired])
    /\ UNCHANGED rows

\* Mutant: the payload goes once the expired runs were ended.
DiscardsAlways(row) == TRUE

\* The payload goes unless a run that is not over needs it.
Discards(row) == row.bound => row.status = "terminal"

PruneRun ==
    /\ prune.pc = "run"
    /\ RunFree
    /\ LET row == IF run.bound /\ Expired(prune.t) THEN Ended("timed_out") ELSE run
       IN  /\ run' = row
           /\ payload' = IF Discards(row) THEN "pruned" ELSE payload
    /\ attempts' = TimedOut(prune.retired)
    /\ PruneGoes(PruneDone)

PruneStep == PruneLock \/ PruneAttempts \/ PruneRun

-----------------------------------------------------------------------------

Next ==
    \/ Tick
    \/ ClaimBegin \/ ClaimStep
    \/ Begin \/ MainStep
    \/ BeatBegin \/ Heartbeat
    \/ PruneBegin \/ PruneStep

Spec == Init /\ [][Next]_vars

\* A statement that can go on does; those that wait for a row are served in turn.
FairSpec ==
    /\ Spec
    /\ SF_vars(ClaimStep) /\ SF_vars(MainStep) /\ SF_vars(Heartbeat) /\ SF_vars(PruneStep)

-----------------------------------------------------------------------------
(* Properties *)

\* A run that is over has no running attempt, and its outcome is what its
\* attempts show, or timed_out: whichever of claim, finish_run and retention
\* ended it, and whatever was committed between their statements.
EndsWhole ==
    run.status = "terminal" =>
        Running = {} /\ run.outcome \in {Aggregate(attempts), "timed_out"}

\* The claim ends no run whose lease was renewed beyond its now(), also when the
\* heartbeat commits between two of its statements.
RenewedRunKept ==
    [][claim'.acquired /\ Live(claim.t) => run'.status # "terminal"]_vars

\* Retention discards no source that a run which is not over is bound to,
\* although it looks at the runs, and waits, before it does.
SourceKept == run.bound /\ run.status # "terminal" => payload = "kept"

\* No cycle of row locks, and no endless round of the loop: a claim under way
\* ends.
ClaimEnds == claim.pc = "look" ~> claim.pc = "done"

\* 026: "lets one claim retire an expired different-dedupe run atomically".
RetiredAtomically == claim.pc = "done" /\ claim.retired # {} => run.status = "terminal"

=============================================================================
