----------------------------- MODULE HydrationRun -----------------------------
(***************************************************************************)
(* Tasks of staging-hydration-orchestrator.ts on the hydration store.  A    *)
(* task is one call of runStagingHydrationOrchestration; it goes from await *)
(* to await, and between two of them any other task, a heartbeat, a crash   *)
(* or a late request may act.                                               *)
(*                                                                          *)
(* An RPC is answered, or it fails with an error at the caller: the         *)
(* request was lost, the response was lost after the commit, or the request *)
(* is still in `net' and commits later.  An exception of the main try block *)
(* goes to failRun, here the same steps with `failing' set.                 *)
(***************************************************************************)
EXTENDS HydrationRpc, FiniteSets

CONSTANTS
    Tasks,          \* invocations of the orchestrator
    KeyOf,          \* the dedupe key of each task
    OwnerOf,        \* its owner token: one per Cloud Run execution and task index
    SourceOf,       \* sourceExecutionId of a run (its own id)
    Elt,            \* the artifact that is a Google Doc
    NoAttempt,      \* pendingTerminalAttempt = null
    MaxTime,        \* bound of the clock
    MaxFaults       \* bound on the failed calls

ASSUME HydrationRunAssumption ==
    /\ KeyOf \in [Tasks -> Runs]
    /\ OwnerOf \in [Tasks -> Owners]
    /\ SourceOf \in [Runs -> SourceIds]
    /\ Elt \in Artifacts
    /\ MaxTime \in Nat
    /\ MaxFaults \in Nat

VARIABLES
    now, db,
    counted,        \* attempts on the document stored with a positive mutation_call_count
    unknown,        \* attempts on the document that ended with mutation_call_count null
    writes,         \* attempts whose mutation a document accepted
    net,            \* requests that were sent and not committed yet
    task,           \* the local state of every task
    faults

store == <<db, counted, unknown, writes>>
vars == <<now, db, counted, unknown, writes, net, task, faults>>

PC == {"claim", "renew", "reclaim", "acquire", "adopt", "build", "complete", "bind_built",
       "bind_adopted", "fail_source", "replay", "timeout", "list", "loop", "execute",
       "persist", "reread", "persist_again", "reread_again", "seal", "done", "dead"}

Over == {"done", "dead"}

\* The mutationCallCount of an attempt: 0, positive, or null.
Count == {"zero", "positive", "null"}

\* attempt: the artifact and number of the attempt in progress, its local
\* outcome ("running" until there is one) and the mutations it counted.
Attempt == [artifact : Artifacts, n : Nat, outcome : AttemptStatus, count : Count]

ASSUME NoAttemptAssumption == NoAttempt \notin Attempt

TaskRow == [ pc      : PC,
             cut     : Cuts \union {NoCut},
             known   : [Artifacts -> Seq(AttemptStatus)],
             todo    : SUBSET Artifacts,
             attempt : Attempt \union {NoAttempt},
             failing : BOOLEAN,
             lost    : BOOLEAN,
             status  : RunOutcome \union {"none", "overlap", "threw"} ]

Key(p) == KeyOf[p]
Me(p) == OwnerOf[p]
Wanted(p) == Requested[KeyOf[p]]

\* The key of attempt number n of run k on artifact a.
Row(k, a, n) == <<k, a, n>>

-----------------------------------------------------------------------------
(* Requests *)

Op == {"claim", "renew", "acquire", "complete", "fail_source", "bind", "timeout",
       "start", "finish_attempt", "finish_run", "mutate"}

RequestRow == [ op      : Op,
                run     : Runs,
                owner   : Owners,
                cut     : Cuts \union {NoCut},
                attempt : Attempt \union {NoAttempt},
                outcome : RunOutcome \union {"none"} ]

\* A request carries what its task knows; which of it the call passes on is
\* seen in Commit.
Request(p, op) == [op |-> op, run |-> Key(p), owner |-> Me(p), cut |-> task[p].cut,
                   attempt |-> task[p].attempt, outcome |-> "none"]

\* What a request does when the database, or the document, executes it.
Commit(r, t) ==
    /\ db' = CASE r.op = "claim"          -> AfterClaim(db, r.run, r.owner, t)
               [] r.op = "renew"          -> AfterRunHeartbeat(db, r.run, r.owner, t)
               [] r.op = "acquire"        -> [db EXCEPT !.source = AfterAcquire(@, SourceOf[r.run], r.owner, t)]
               [] r.op = "complete"       -> [db EXCEPT !.source = AfterComplete(@, SourceOf[r.run], r.owner, r.cut, t)]
               [] r.op = "fail_source"    -> [db EXCEPT !.source = AfterFail(@, SourceOf[r.run], r.owner, t)]
               [] r.op = "bind"           -> AfterBind(db, r.run, r.owner, SourceOf[r.run], r.cut, t)
               [] r.op = "timeout"        -> AfterTimeoutAttempts(db, r.run, r.owner, t)
               [] r.op = "start"          -> IF r.cut = db.run[r.run].cut
                                             THEN AfterStart(db, r.run, r.attempt.artifact, r.attempt.n, r.owner, t)
                                             ELSE db
               [] r.op = "finish_attempt" -> AfterFinishAttempt(db, r.run, r.attempt.artifact, r.attempt.n,
                                                        r.attempt.outcome, r.owner, t)
               [] r.op = "finish_run"     -> AfterFinishRun(db, r.run, r.owner, r.outcome, t)
               [] r.op = "mutate"         -> db
    /\ LET row == Row(r.run, r.attempt.artifact, r.attempt.n)
           Stores(count) == /\ r.op = "finish_attempt"
                            /\ r.attempt.count = count
                            /\ FinishesAttempt(db, r.run, r.attempt.artifact, r.attempt.n, r.owner, t)
       IN  /\ counted' = IF Stores("positive") THEN counted \union {row} ELSE counted
           /\ unknown' = IF Stores("null") THEN unknown \union {row} ELSE unknown
    /\ writes' = IF r.op = "mutate"
                 THEN writes \union {Row(r.run, r.attempt.artifact, r.attempt.n)}
                 ELSE writes

\* Task p makes the call r: it goes on in state ok when it is answered, and in
\* state err when the call throws.
Call(p, r, ok, err) ==
    /\ \/ /\ Commit(r, now)
          /\ task' = [task EXCEPT ![p] = ok]
          /\ UNCHANGED <<net, faults>>
       \/ /\ faults < MaxFaults
          /\ faults' = faults + 1
          /\ task' = [task EXCEPT ![p] = err]
          /\ \/ Commit(r, now) /\ UNCHANGED net
             \/ UNCHANGED <<store, net>>
             \/ net' = net \union {r} /\ UNCHANGED store
    /\ UNCHANGED now

\* A read, or a step without a call.
Goes(p, row) ==
    /\ task' = [task EXCEPT ![p] = row]
    /\ UNCHANGED <<now, store, net, faults>>

ReadFails(p, err) ==
    /\ faults < MaxFaults
    /\ faults' = faults + 1
    /\ task' = [task EXCEPT ![p] = err]
    /\ UNCHANGED <<now, store, net>>

At(p, pc) == task[p].pc = pc
To(row, pc) == [row EXCEPT !.pc = pc]

\* The local state of a task that has not started, or is over.
Idle == [ pc |-> "claim", cut |-> NoCut, known |-> [a \in Artifacts |-> <<>>], todo |-> {},
          attempt |-> NoAttempt, failing |-> FALSE, lost |-> FALSE, status |-> "none" ]

Done(status) == [Idle EXCEPT !.pc = "done", !.status = status]

\* failRun: the pending attempt first, if there is one.
FailRun(row) ==
    [row EXCEPT !.failing = TRUE, !.lost = FALSE, !.todo = {}, !.known = Idle.known,
                !.pc = IF row.attempt # NoAttempt THEN "persist" ELSE "timeout"]

\* An exception: out of the try block to failRun, out of failRun to the caller
\* as `failed'.  An attempt without a local outcome is not handed to failRun.
Throws(row) ==
    IF row.failing THEN Done("failed")
    ELSE FailRun([row EXCEPT !.attempt =
                    IF row.attempt # NoAttempt /\ row.attempt.outcome = "running"
                    THEN NoAttempt ELSE row.attempt])

-----------------------------------------------------------------------------
(* Claim and first renewal *)

\* A Cloud Run execution retries a task only after the previous try exited.
PreviousTryOver(p) ==
    \A q \in Tasks \ {p} : Me(q) = Me(p) => task[q].pc \in {"claim"} \union Over

Claim(p) ==
    /\ At(p, "claim")
    /\ PreviousTryOver(p)
    /\ LET after == AfterClaim(db, Key(p), Me(p), now).run[Key(p)]
           won   == ClaimAcquired(db, Key(p), Me(p), now)
           row   == [task[p] EXCEPT !.cut = after.cut]
       IN  \E next \in IF won THEN {To(row, "renew"), FailRun(row)}
                       ELSE {Done(IF after.status = "terminal" THEN after.outcome
                                           ELSE "overlap")} :
              Call(p, Request(p, "claim"), next, Done("threw"))

\* The claimed run goes on from the cut it is bound to, or loads one.
AfterRenewal(row) == To(row, IF row.cut = NoCut THEN "acquire" ELSE "replay")

Renew(p) ==
    /\ At(p, "renew")
    /\ Call(p, Request(p, "renew"),
            IF HoldsRun(db, Key(p), Me(p), now) THEN AfterRenewal(task[p]) ELSE FailRun(task[p]),
            To(task[p], "reclaim"))

\* The pre-heartbeat lease: the answer is not looked at.
Reclaim(p) ==
    /\ At(p, "reclaim")
    /\ Call(p, Request(p, "claim"), AfterRenewal(task[p]), Done("threw"))

-----------------------------------------------------------------------------
(* createAndBindSource and replayBoundSource *)

AcquireSource(p) ==
    /\ At(p, "acquire")
    /\ Call(p, Request(p, "acquire"),
            To(task[p], IF Acquires(db.source, SourceOf[Key(p)], Me(p), now) THEN "build" ELSE "adopt"),
            Throws(task[p]))

\* An overlap is resolved by a cut that was completed under the run's id.
Adopt(p) ==
    /\ At(p, "adopt")
    /\ LET source == db.source[SourceOf[Key(p)]]
       IN  \/ Goes(p, IF source.status = "completed" /\ source.payload = "kept"
                      THEN [task[p] EXCEPT !.pc = "bind_adopted", !.cut = source.cut]
                      ELSE Throws(task[p]))
           \/ ReadFails(p, Throws(task[p]))

\* buildSourceCut reads Greenhouse: it may build any cut, or throw.
Build(p) ==
    /\ At(p, "build")
    /\ \/ \E c \in Cuts : Goes(p, [task[p] EXCEPT !.pc = "complete", !.cut = c])
       \/ ReadFails(p, To(task[p], "fail_source"))

CompleteSource(p) ==
    /\ At(p, "complete")
    /\ Call(p, Request(p, "complete"),
            To(task[p], IF Completes(db.source, SourceOf[Key(p)], Me(p), task[p].cut, now)
                        THEN "bind_built" ELSE "fail_source"),
            To(task[p], "fail_source"))

Bind(p) ==
    /\ task[p].pc \in {"bind_built", "bind_adopted"}
    /\ LET error == IF At(p, "bind_built") THEN To(task[p], "fail_source") ELSE Throws(task[p])
       IN  Call(p, Request(p, "bind"),
                IF Binds(db, Key(p), Me(p), SourceOf[Key(p)], task[p].cut, now)
                THEN To(task[p], "timeout") ELSE error,
                error)

FailSource(p) ==
    /\ At(p, "fail_source")
    /\ Call(p, Request(p, "fail_source"), Throws(task[p]), Throws(task[p]))

Replay(p) ==
    /\ At(p, "replay")
    /\ \/ Goes(p, IF Replayable(db.source, SourceOf[Key(p)], task[p].cut)
                  THEN To(task[p], "timeout") ELSE Throws(task[p]))
       \/ ReadFails(p, Throws(task[p]))

-----------------------------------------------------------------------------
(* prepareHydrationResume, and the same two calls of failRun *)

TimeoutAttempts(p) ==
    /\ At(p, "timeout")
    /\ Call(p, Request(p, "timeout"), To(task[p], "list"), Throws(task[p]))

\* Mutant: an attempt that ended without a count is retried.
NotRetryableIfCounted(k, logs) ==
    IF \E n \in DOMAIN logs[Elt] : Row(k, Elt, n) \in counted THEN {Elt} ELSE {}

\* Mutant: only the last attempt is looked at, not what it counted.
NotRetryableIfUnsettled(k, logs) ==
    IF Latest(logs[Elt]) \in {"running", "timed_out"} THEN {Elt} ELSE {}

\* The document is not touched again once a mutation was counted, or while its
\* last attempt may have made one that nobody counted.
NotRetryable(k, logs) ==
    IF \/ \E n \in DOMAIN logs[Elt] : Row(k, Elt, n) \in counted
       \/ Latest(logs[Elt]) \in {"running", "timed_out"}
    THEN {Elt} ELSE {}

ListAttempts(p) ==
    /\ At(p, "list")
    /\ LET logs == db.attempts[Key(p)]
           certified == {a \in Wanted(p) : Latest(logs[a]) \in CertifiedOutcome}
       IN  \/ Goes(p, IF task[p].failing
                      THEN [task[p] EXCEPT !.pc = "seal", !.known = logs]
                      ELSE [task[p] EXCEPT !.pc = "loop", !.known = logs,
                              !.todo = (Wanted(p) \ certified) \ NotRetryable(Key(p), logs)])
           \/ ReadFails(p, Throws(task[p]))

-----------------------------------------------------------------------------
(* The loop over the artifacts *)

StartAttempt(p, a) ==
    /\ At(p, "loop")
    /\ a \in task[p].todo
    /\ ~task[p].lost
    /\ LET n == Len(task[p].known[a]) + 1
           x == [artifact |-> a, n |-> n, outcome |-> "running", count |-> "zero"]
       IN  Call(p, [Request(p, "start") EXCEPT !.attempt = x],
                IF task[p].cut = db.run[Key(p)].cut /\ Starts(db, Key(p), a, n, Me(p), now)
                THEN [task[p] EXCEPT !.pc = "execute", !.attempt = x]
                ELSE Throws(task[p]),
                Throws(task[p]))

\* The run's own lease is known to be lost: halt before the next attempt.
HaltLost(p) ==
    /\ At(p, "loop")
    /\ task[p].todo # {}
    /\ task[p].lost
    /\ Goes(p, Throws(task[p]))

\* The local attempt is over.  Only the count of the document's is looked at.
LocalEnd(row, outcome, count) ==
    [row EXCEPT !.pc = "persist", !.attempt.outcome = outcome,
                !.attempt.count = IF row.attempt.artifact = Elt THEN count ELSE "zero"]

\* Mutant: a mutation call that threw is taken for no mutation.
BrokenUncounted(row) == {LocalEnd(row, "failed", count) : count \in {"zero", "null"}}

\* An attempt that failed after its batch went out.  The error of the write
\* carries the count; of any other exception, and of one thrown on the way
\* back to executeArtifact, nothing is counted and null is stored.
Broken(row) == {LocalEnd(row, "failed", count) : count \in {"positive", "null"}}

\* executeArtifact always returns a terminal attempt.  Without a mutation it
\* ends as no_change or failed.  After one it ends as written, when the answer
\* or the reads that settle a lost one certify it, or it is broken.
Execute(p) ==
    /\ At(p, "execute")
    /\ \/ Goes(p, LocalEnd(task[p], "no_change", "zero"))
       \/ \E count \in {"zero", "null"} : Goes(p, LocalEnd(task[p], "failed", count))
       \/ \E ok \in Broken(task[p]) \union {LocalEnd(task[p], "written", "positive")},
             err \in Broken(task[p]) : Call(p, Request(p, "mutate"), ok, err)

\* persistOrReconcileTerminalAttempt returned.
Persisted(row) ==
    LET a == row.attempt.artifact
    IN  IF row.failing THEN [row EXCEPT !.pc = "timeout", !.attempt = NoAttempt]
        ELSE [row EXCEPT !.pc = "loop", !.attempt = NoAttempt, !.todo = @ \ {a},
                         !.known[a] = Append(@, row.attempt.outcome)]

Finishes(p) ==
    FinishesAttempt(db, Key(p), task[p].attempt.artifact, task[p].attempt.n, Me(p), now)

Persist(p) ==
    /\ At(p, "persist")
    /\ Call(p, Request(p, "finish_attempt"),
            IF Finishes(p) THEN Persisted(task[p]) ELSE To(task[p], "reread"),
            To(task[p], "reread"))

\* The stored row of the attempt in progress.
Stored(p) == db.attempts[Key(p)][task[p].attempt.artifact][task[p].attempt.n]

StoredMatches(p) ==
    LET x == task[p].attempt
    IN  /\ Stored(p) = x.outcome
        /\ x.count = "positive" <=> Row(Key(p), x.artifact, x.n) \in counted
        /\ x.count = "null" <=> Row(Key(p), x.artifact, x.n) \in unknown

Reread(p) ==
    /\ At(p, "reread")
    /\ \/ Goes(p, IF StoredMatches(p) THEN Persisted(task[p])
                  ELSE IF Stored(p) = "running" THEN To(task[p], "persist_again")
                  ELSE Throws(task[p]))
       \/ ReadFails(p, Throws(task[p]))

\* Mutant: a refused completion is retried until it is stored.
PersistAgainForever(p) ==
    /\ At(p, "persist_again")
    /\ Call(p, Request(p, "finish_attempt"),
            IF Finishes(p) THEN Persisted(task[p]) ELSE To(task[p], "reread"),
            Throws(task[p]))

PersistAgain(p) ==
    /\ At(p, "persist_again")
    /\ Call(p, Request(p, "finish_attempt"),
            IF Finishes(p) THEN Persisted(task[p]) ELSE To(task[p], "reread_again"),
            Throws(task[p]))

RereadAgain(p) ==
    /\ At(p, "reread_again")
    /\ \/ Goes(p, IF StoredMatches(p) THEN Persisted(task[p]) ELSE Throws(task[p]))
       \/ ReadFails(p, Throws(task[p]))

-----------------------------------------------------------------------------
(* finishRun *)

EndLoop(p) ==
    /\ At(p, "loop")
    /\ task[p].todo = {}
    /\ Goes(p, To(task[p], "seal"))

\* Mutant: the answer of finish_run is not looked at.
AfterSealUnchecked(p, outcome) == Done(outcome)

\* A refused finish is an exception.
AfterSeal(p, outcome) ==
    IF FinishesRun(db, Key(p), Me(p), outcome, now) THEN Done(outcome) ELSE Throws(task[p])

Seal(p) ==
    /\ At(p, "seal")
    /\ LET outcome == Aggregate(task[p].known, Wanted(p))
       IN  Call(p, [Request(p, "finish_run") EXCEPT !.outcome = outcome],
                AfterSeal(p, outcome), Throws(task[p]))

-----------------------------------------------------------------------------
(* The environment *)

Tick ==
    /\ now < MaxTime
    /\ now' = now + 1
    /\ UNCHANGED <<store, net, task, faults>>

\* A heartbeat tick of a registered run lease.  A renewal that throws changes
\* nothing; one that returns false is remembered and not repeated.
Heartbeat(p) ==
    /\ task[p].pc \notin {"claim", "renew", "reclaim", "seal"} \union Over
    /\ ~task[p].failing
    /\ ~task[p].lost
    /\ LET held == HoldsRun(db, Key(p), Me(p), now)
       IN  /\ db' = AfterRunHeartbeat(db, Key(p), Me(p), now)
           /\ task' = [task EXCEPT ![p].lost = ~held]
    /\ UNCHANGED <<now, counted, unknown, writes, net, faults>>

HeartbeatSource(p) ==
    /\ task[p].pc \in {"build", "complete", "bind_built", "fail_source"}
    /\ HoldsSource(db.source, SourceOf[Key(p)], Me(p), now)
    /\ db' = [db EXCEPT !.source = AfterSourceHeartbeat(@, SourceOf[Key(p)], Me(p), now)]
    /\ UNCHANGED <<now, counted, unknown, writes, net, task, faults>>

Crash(p) ==
    /\ task[p].pc \notin {"claim"} \union Over
    /\ task' = [task EXCEPT ![p] = To(Idle, "dead")]
    /\ UNCHANGED <<now, store, net, faults>>

\* A delayed request commits.
Late ==
    /\ \E r \in net : Commit(r, now) /\ net' = net \ {r}
    /\ UNCHANGED <<now, task, faults>>

-----------------------------------------------------------------------------

Init ==
    /\ now = 0
    /\ db = EmptyDatabase
    /\ counted = {}
    /\ unknown = {}
    /\ writes = {}
    /\ net = {}
    /\ task = [p \in Tasks |-> Idle]
    /\ faults = 0

\* The next step of a task that runs.
Step(p) ==
    \/ Claim(p) \/ Renew(p) \/ Reclaim(p)
    \/ AcquireSource(p) \/ Adopt(p) \/ Build(p) \/ CompleteSource(p) \/ Bind(p)
    \/ FailSource(p) \/ Replay(p)
    \/ TimeoutAttempts(p) \/ ListAttempts(p)
    \/ (\E a \in Artifacts : StartAttempt(p, a)) \/ HaltLost(p) \/ Execute(p)
    \/ Persist(p) \/ Reread(p) \/ PersistAgain(p) \/ RereadAgain(p)
    \/ EndLoop(p) \/ Seal(p)

Next ==
    \/ Tick
    \/ Late
    \/ \E p \in Tasks : Step(p) \/ Heartbeat(p) \/ HeartbeatSource(p) \/ Crash(p)

\* A task that has not crashed goes on.
Fairness == \A p \in Tasks : WF_vars(Step(p))

Spec == Init /\ [][Next]_vars

FairSpec == Spec /\ Fairness

-----------------------------------------------------------------------------
(* Properties *)

TypeOK ==
    /\ now \in 0..MaxTime
    /\ db \in Database
    /\ counted \union unknown \union writes \subseteq Runs \X Artifacts \X Nat
    /\ net \subseteq RequestRow
    /\ task \in [Tasks -> TaskRow]
    /\ faults \in 0..MaxFaults

Pending == {Row(r.run, r.attempt.artifact, r.attempt.n) : r \in {q \in net : q.op = "mutate"}}

\* The mutations of the document a run made, or may still make.
EltMutations(k) == {w \in writes \union Pending : w[1] = k /\ w[2] = Elt}

\* The test "never retries ELT when an older attempt crossed the mutation
\* boundary" of prepareHydrationResume: at most one mutation of the document per
\* run.  An attempt that ended with its count null breaks it.
EltMutatedOnce == \A k \in Runs : Cardinality(EltMutations(k)) <= 1

\* What the fence of prepareHydrationResume does keep: whatever crashes,
\* takeovers and lost or late calls the tasks of a run meet, a mutation of the
\* document follows another one only if that one's attempt was stored with its
\* count null.
EltMutatedAgainOnlyIfUnknown ==
    \A k \in Runs : \A v, w \in EltMutations(k) : v[3] < w[3] => v \in unknown

\* No mutation of the document is forgotten: it was recorded as an attempt
\* before it was sent, and that attempt is unsettled (running or timed_out,
\* which fences the document), or was stored with its count, or failed with
\* the count stored as null.  None is ever stored as zero, nor certified by an
\* attempt that does not count it.
EltMutationAccounted ==
    \A k \in Runs : \A w \in EltMutations(k) :
        LET log == db.attempts[k][Elt]
        IN  /\ w[3] \in DOMAIN log
            /\ \/ log[w[3]] \in {"running", "timed_out"}
               \/ w \in counted
               \/ log[w[3]] = "failed" /\ w \in unknown

\* Once the attempt on the document is certified, the document is what the
\* attempt says: changed by exactly that attempt or not changed at all, with
\* no request on its way that would still change it, the attempts whose count
\* is null aside.
CertifiedEltSettled ==
    \A k \in Runs :
        LET log == db.attempts[k][Elt]
        IN  Latest(log) \in CertifiedOutcome =>
                EltMutations(k) \ unknown =
                    IF Latest(log) = "written" THEN {Row(k, Elt, Len(log))} \intersect writes
                    ELSE {}

\* A task that reports a success to its caller has sealed it, or found it
\* sealed: no takeover, lost lease or lost response lets a run that is open, or
\* that ended otherwise, be reported as done.
ReportTruthful ==
    \A p \in Tasks :
        task[p].status \in {"succeeded", "no_change"} =>
            /\ db.run[Key(p)].status = "terminal"
            /\ db.run[Key(p)].outcome = task[p].status

\* A task ends: it never waits for another owner, and reconciling an attempt
\* whose completion was lost or refused does not go on for ever.
Termination == \A p \in Tasks : <>(task[p].pc \in Over)

=============================================================================
