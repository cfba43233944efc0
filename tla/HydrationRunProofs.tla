-------------------------- MODULE HydrationRunProofs --------------------------
(***************************************************************************)
(* For every set of runs, artifacts, tasks and owners, every clock and     *)
(* every number of failed calls: a run mutates the document again only     *)
(* behind attempts that were stored without their count, no mutation is    *)
(* forgotten otherwise, a certified attempt says what became of the        *)
(* document, and a task reports only a success that is sealed.             *)
(*                                                                         *)
(* What makes it true is the fence in start and prepareHydrationResume:    *)
(* attempt n on the document starts only when every attempt before it is   *)
(* over without a counted mutation (Clean), and such attempts stay so.     *)
(* The attempts whose count was stored as null aside, only the last one    *)
(* can then have mutated anything (LogInv).  The                           *)
(* rest of the invariant says that what a task or a request in the network *)
(* knows of an attempt stays true until it is used (TaskInv, RequestInv).  *)
(***************************************************************************)
EXTENDS HydrationRun, HydrationTheorems, FiniteSetTheorems

-----------------------------------------------------------------------------
(* The invariant *)

\* The log of the document.
Log(k) == db.attempts[k][Elt]

\* Nobody can say whether such an attempt mutated the document.
Unsettled == {"running", "timed_out"}

\* What mutated a document, or may still.
Sent == writes \union Pending

\* The same without the attempts that were stored with their count null.
Mutated == Sent \ unknown

\* Every attempt before number n is over, without a counted mutation.
Clean(k, n) ==
    \A m \in 1..(n - 1) : /\ m \in 1..Len(Log(k))
                          /\ Log(k)[m] \notin Unsettled
                          /\ Row(k, Elt, m) \notin counted

\* What the store says of attempt n of run k on the document.
EntryInv(k, n) ==
    /\ Log(k)[n] \in Unsettled \union {"no_change"} => Row(k, Elt, n) \notin counted
    /\ Row(k, Elt, n) \in unknown => Log(k)[n] = "failed"
    /\ Log(k)[n] = "written" => Row(k, Elt, n) \in writes
    /\ Log(k)[n] \notin Unsettled /\ Row(k, Elt, n) \notin counted => Row(k, Elt, n) \notin Mutated

LogInv(k) ==
    /\ Clean(k, Len(Log(k)))
    /\ \A n \in 1..Len(Log(k)) : EntryInv(k, n)
    /\ \A w \in Sent \union counted \union unknown : w[1] = k /\ w[2] = Elt => w[3] \in 1..Len(Log(k))

\* What is to be stored of attempt x is true.
Told(k, x) ==
    /\ x.outcome \in {"failed"} \union CertifiedOutcome
    /\ x.outcome = "written" => x.count = "positive" /\ Row(k, Elt, x.n) \in writes
    /\ x.outcome = "no_change" => x.count = "zero"
    /\ x.count = "zero" => Row(k, Elt, x.n) \notin Mutated
    /\ x.count \in Count

\* The states in which a task has an attempt.
Attempting == {"execute", "persist", "reread", "persist_again", "reread_again"}

OnElt(row) == row.pc \in Attempting /\ row.attempt.artifact = Elt

\* The attempt in progress: not mutated and not settled before it is executed,
\* and truly told after.
AttemptInv(k, row) ==
    /\ row.attempt.n \in 1..Len(Log(k))
    /\ row.pc = "execute" => /\ Log(k)[row.attempt.n] \in Unsettled
                             /\ Row(k, Elt, row.attempt.n) \notin Mutated
    /\ row.pc # "execute" => Told(k, row.attempt)

\* A row of a task whose document is still to be done.
RowInv(k, row) ==
    /\ Elt \in row.todo => Clean(k, Len(row.known[Elt]) + 1)
    /\ OnElt(row) => AttemptInv(k, row)

Executing(k, n) ==
    \E p \in Tasks : /\ task[p].pc = "execute" /\ task[p].attempt.artifact = Elt
                     /\ Key(p) = k /\ task[p].attempt.n = n

\* No attempt is in progress twice, or while its end is on the way.
Lone(r) ==
    r.op = "finish_attempt" /\ r.attempt.artifact = Elt => ~Executing(r.run, r.attempt.n)

Exclusive ==
    /\ \A p, q \in Tasks :
          OnElt(task[p]) /\ OnElt(task[q]) /\ Key(p) = Key(q) /\ task[p].attempt.n = task[q].attempt.n
              => p = q
    /\ \A r \in net : Lone(r)

\* What a delayed request was sent upon.
RequestInv(r) ==
    r.op \in {"start", "finish_attempt"} /\ r.attempt.artifact = Elt =>
        /\ r.op = "start" => Clean(r.run, r.attempt.n)
        /\ r.op = "finish_attempt" => r.attempt.n \in 1..Len(Log(r.run)) /\ Told(r.run, r.attempt)

\* A task or a request that speaks of an attempt has one.
RowType(row) ==
    /\ row \in TaskRow
    /\ row.attempt # NoAttempt <=> row.pc \in Attempting
    /\ row.pc = "execute" => row.attempt.outcome = "running"
    /\ row.pc \in Attempting \ {"execute"} => row.attempt.outcome # "running"
    /\ row.failing => row.todo = {}

RequestType(r) ==
    /\ r \in RequestRow
    /\ r.op \in {"start", "finish_attempt", "mutate"} => r.attempt # NoAttempt
    /\ r.op = "finish_attempt" => r.attempt.outcome # "running"
    /\ r.op = "finish_run" => r.outcome # "none"

TypeInv ==
    /\ TypeOK
    /\ DbInv(db)
    /\ \A p \in Tasks : RowType(task[p])
    /\ \A r \in net : RequestType(r)

DocInv ==
    /\ \A k \in Runs : LogInv(k)
    /\ \A p \in Tasks : RowInv(Key(p), task[p])
    /\ \A r \in net : RequestInv(r)
    /\ Exclusive

-----------------------------------------------------------------------------
(* What a request does to the store *)

LEMMA RowParts ==
    ASSUME NEW k, NEW a, NEW n
    PROVE  /\ Row(k, a, n)[1] = k /\ Row(k, a, n)[2] = a /\ Row(k, a, n)[3] = n
           /\ \A j, b, m : Row(k, a, n) = Row(j, b, m) <=> k = j /\ a = b /\ n = m
BY DEF Row

LEMMA SourceCommit ==
    ASSUME NEW src \in SourceTable, DbInv(db),
           \A s \in SourceIds : db.source[s].status = "completed" => src[s] = db.source[s],
           db' = [db EXCEPT !.source = src]
    PROVE  /\ DbInv(db')
           /\ Respects(db, db', now)
           /\ db'.attempts = db.attempts
<1>1. db'.run = db.run /\ db'.attempts = db.attempts
  BY DEF DbInv, Database
<1> QED BY <1>1, SourceStepInv, StutterStep

\* An attempt has its parts.
LEMMA AttemptParts ==
    ASSUME NEW x \in Attempt \union {NoAttempt}, x # NoAttempt
    PROVE  /\ x \in Attempt
           /\ x.artifact \in Artifacts /\ x.n \in Nat
           /\ x.outcome \in AttemptStatus /\ x.count \in Count
BY DEF Attempt

\* A request keeps the invariant of the store, and disturbs no run.
LEMMA CommitStep ==
    ASSUME DbInv(db), now \in Nat, NEW r, RequestType(r), Commit(r, now)
    PROVE  DbInv(db') /\ Respects(db, db', now)
<1>0. /\ r.op \in Op /\ r.run \in Runs /\ r.owner \in Owners
      /\ r.cut \in Cuts \union {NoCut} /\ r.outcome \in RunOutcome \union {"none"}
      /\ r.attempt \in Attempt \union {NoAttempt}
      /\ SourceOf[r.run] \in SourceIds
  BY HydrationRunAssumption DEF RequestType, RequestRow
<1>1. db \in Database /\ db.source \in SourceTable
  BY DEF DbInv, Database
<1>2. ASSUME UNCHANGED db PROVE DbInv(db') /\ Respects(db, db', now)
  BY <1>2, StutterStep
<1>3. CASE r.op = "claim"
  BY <1>0, <1>3, ClaimInv, ClaimStep DEF Commit
<1>4. CASE r.op = "renew"
  <2>1. db' = AfterRunHeartbeat(db, r.run, r.owner, now)
    BY <1>4 DEF Commit
  <2>2. CASE HoldsRun(db, r.run, r.owner, now)
    BY <1>0, <1>1, <2>1, <2>2, RunHeartbeatInv, RunHeartbeatStep
  <2> QED BY <1>2, <2>1, <2>2 DEF AfterRunHeartbeat
<1>5. CASE r.op = "acquire"
  <2>1. db' = [db EXCEPT !.source = AfterAcquire(db.source, SourceOf[r.run], r.owner, now)]
    BY <1>5 DEF Commit
  <2> QED BY <1>0, <1>1, <2>1, AcquireType, CompletedRowStays, SourceCommit
<1>6. CASE r.op = "complete"
  <2>1. db' = [db EXCEPT !.source = AfterComplete(db.source, SourceOf[r.run], r.owner, r.cut, now)]
    BY <1>6 DEF Commit
  <2>2. AfterComplete(db.source, SourceOf[r.run], r.owner, r.cut, now) \in SourceTable
    BY <1>0, <1>1, CompleteType
  <2>3. \A s \in SourceIds : db.source[s].status = "completed" =>
            AfterComplete(db.source, SourceOf[r.run], r.owner, r.cut, now)[s] = db.source[s]
    BY <1>0, <1>1, CompletedRowStays
  <2> QED BY <2>1, <2>2, <2>3, SourceCommit
<1>7. CASE r.op = "fail_source"
  <2>1. db' = [db EXCEPT !.source = AfterFail(db.source, SourceOf[r.run], r.owner, now)]
    BY <1>7 DEF Commit
  <2> QED BY <1>0, <1>1, <2>1, FailType, CompletedRowStays, SourceCommit
<1>8. CASE r.op = "bind"
  <2>1. db' = AfterBind(db, r.run, r.owner, SourceOf[r.run], r.cut, now)
    BY <1>8 DEF Commit
  <2>2. CASE Binds(db, r.run, r.owner, SourceOf[r.run], r.cut, now)
    BY <1>0, <2>1, <2>2, BindInv, BindStep
  <2> QED BY <1>2, <2>1, <2>2 DEF AfterBind
<1>9. CASE r.op = "timeout"
  BY <1>0, <1>1, <1>9, TimeoutAttemptsInv, TimeoutAttemptsStep DEF Commit
<1>10. CASE r.op = "start"
  <2>0. r.attempt.artifact \in Artifacts /\ r.attempt.n \in Nat
    BY <1>0, <1>10, AttemptParts DEF RequestType
  <2>1. db' = IF r.cut = db.run[r.run].cut
              THEN AfterStart(db, r.run, r.attempt.artifact, r.attempt.n, r.owner, now) ELSE db
    BY <1>10 DEF Commit
  <2>2. CASE r.cut = db.run[r.run].cut /\ Starts(db, r.run, r.attempt.artifact, r.attempt.n, r.owner, now)
    BY <1>0, <1>1, <2>0, <2>1, <2>2, StartInv, StartStep
  <2> QED BY <1>2, <2>1, <2>2 DEF AfterStart
<1>11. CASE r.op = "finish_attempt"
  <2>0. /\ r.attempt.artifact \in Artifacts /\ r.attempt.n \in Nat
        /\ r.attempt.outcome \in AttemptStatus \ {"running"}
    BY <1>0, <1>11, AttemptParts DEF RequestType
  <2>1. db' = AfterFinishAttempt(db, r.run, r.attempt.artifact, r.attempt.n,
                                 r.attempt.outcome, r.owner, now)
    BY <1>11 DEF Commit
  <2>2. CASE FinishesAttempt(db, r.run, r.attempt.artifact, r.attempt.n, r.owner, now)
    <3>1. DbInv(db')
      BY <1>0, <2>0, <2>1, FinishAttemptInv
    <3>2. Respects(db, db', now)
      BY <1>0, <1>1, <2>0, <2>1, <2>2, FinishAttemptStep
    <3> QED BY <3>1, <3>2
  <2> QED BY <1>2, <2>1, <2>2 DEF AfterFinishAttempt
<1>12. CASE r.op = "finish_run"
  <2>0. r.outcome \in RunOutcome
    BY <1>0, <1>12 DEF RequestType
  <2>1. db' = AfterFinishRun(db, r.run, r.owner, r.outcome, now)
    BY <1>12 DEF Commit
  <2>2. CASE FinishesRun(db, r.run, r.owner, r.outcome, now)
    BY <1>0, <1>1, <2>0, <2>1, <2>2, FinishRunInv, FinishRunStep
  <2> QED BY <1>2, <2>1, <2>2 DEF AfterFinishRun
<1>13. CASE r.op = "mutate"
  BY <1>2, <1>13 DEF Commit
<1> QED BY <1>0, <1>3, <1>4, <1>5, <1>6, <1>7, <1>8, <1>9, <1>10, <1>11, <1>12, <1>13 DEF Op


\* What may happen to the log of the document of run k, and to what is counted
\* of it: running attempts time out, an attempt starts, or one finishes.
Ages(k) ==
    /\ Log(k)' \in {Log(k), TimedOut(Log(k))}
    /\ \A n : /\ Row(k, Elt, n) \in counted' <=> Row(k, Elt, n) \in counted
              /\ Row(k, Elt, n) \in unknown' <=> Row(k, Elt, n) \in unknown

Begins(k, n) ==
    /\ n = Len(Log(k)) + 1
    /\ \A m \in 1..Len(Log(k)) : Log(k)[m] \notin CertifiedOutcome \union {"running"}
    /\ Log(k)' = Append(Log(k), "running")
    /\ UNCHANGED <<counted, unknown>>

Concludes(k, x) ==
    /\ x.n \in 1..Len(Log(k))
    /\ Log(k)[x.n] = "running"
    /\ Log(k)' = [Log(k) EXCEPT ![x.n] = x.outcome]
    /\ counted' = IF x.count = "positive" THEN counted \union {Row(k, Elt, x.n)} ELSE counted
    /\ unknown' = IF x.count = "null" THEN unknown \union {Row(k, Elt, x.n)} ELSE unknown

LEMMA LogType ==
    ASSUME NEW d \in Database, NEW k \in Runs, NEW a \in Artifacts
    PROVE  /\ d.attempts[k][a] \in Seq(AttemptStatus)
           /\ Len(d.attempts[k][a]) \in Nat
           /\ DOMAIN d.attempts[k][a] = 1..Len(d.attempts[k][a])
           /\ \A n \in 1..Len(d.attempts[k][a]) : d.attempts[k][a][n] \in AttemptStatus
<1>1. d.attempts[k][a] \in Seq(AttemptStatus)
  BY DEF Database
<1> QED BY <1>1, LenProperties, ElementOfSeq

\* Claim times out the running attempts of the run it retires.
LEMMA ClaimLogs ==
    ASSUME NEW d \in Database, NEW k \in Runs, NEW o \in Owners, NEW t \in Nat,
           NEW j \in Runs, NEW a \in Artifacts
    PROVE  AfterClaim(d, k, o, t).attempts[j][a] \in {d.attempts[j][a], TimedOut(d.attempts[j][a])}
<1> DEFINE e == AfterRetire(d, k)
<1>1. e.attempts[j][a] \in {d.attempts[j][a], TimedOut(d.attempts[j][a])}
  <2>1. ASSUME NEW r \in Runs
        PROVE  Retired(d, r).attempts = [d.attempts EXCEPT ![r] = Settled(d, r)]
    BY DEF Retired, WithRun, Database
  <2>2. ASSUME NEW r \in Runs
        PROVE  Retired(d, r).attempts[j][a] \in {d.attempts[j][a], TimedOut(d.attempts[j][a])}
    <3>1. CASE r = j
      <4>1. Settled(d, j)[a] = TimedOut(d.attempts[j][a])
        BY DEF Settled
      <4> QED BY <2>1, <3>1, <4>1 DEF Database
    <3>2. CASE r # j
      BY <2>1, <3>2 DEF Database
    <3> QED BY <3>1, <3>2
  <2> QED BY <2>2 DEF AfterRetire, OtherActive
<1>2. e \in Database
  BY AfterRetireType
<1>3. ASSUME NEW row PROVE WithRun(e, k, row).attempts = e.attempts
  BY <1>2 DEF WithRun, Database
<1> QED BY <1>1, <1>3 DEF AfterClaim

LEMMA CommitLogs ==
    ASSUME DbInv(db), now \in Nat, NEW r, RequestType(r), Commit(r, now), NEW k \in Runs
    PROVE  \/ Ages(k)
           \/ /\ r.op = "start" /\ r.run = k /\ r.attempt.artifact = Elt
              /\ Begins(k, r.attempt.n)
           \/ /\ r.op = "finish_attempt" /\ r.run = k /\ r.attempt.artifact = Elt
              /\ Concludes(k, r.attempt)
<1>0. /\ r.op \in Op /\ r.run \in Runs /\ r.owner \in Owners
      /\ r.cut \in Cuts \union {NoCut} /\ r.outcome \in RunOutcome \union {"none"}
      /\ r.attempt \in Attempt \union {NoAttempt}
      /\ SourceOf[r.run] \in SourceIds
      /\ Elt \in Artifacts
  BY HydrationRunAssumption DEF RequestType, RequestRow
<1>1. db \in Database
  BY DEF DbInv
<1>2. r.op # "finish_attempt" => UNCHANGED <<counted, unknown>>
  BY DEF Commit
<1>3. ASSUME db'.attempts = db.attempts, UNCHANGED <<counted, unknown>> PROVE Ages(k)
  BY <1>3 DEF Ages, Log
<1>4. CASE r.op = "claim"
  BY <1>0, <1>1, <1>2, <1>4, ClaimLogs DEF Commit, Ages, Log
<1>5. CASE r.op \in {"renew", "acquire", "complete", "fail_source", "bind", "finish_run", "mutate"}
  <2>1. db'.attempts = db.attempts
    BY <1>0, <1>1, <1>5 DEF Commit, AfterRunHeartbeat, AfterBind, AfterFinishRun, WithRun, Database
  <2> QED BY <1>2, <1>3, <1>5, <2>1
<1>6. CASE r.op = "timeout"
  <2>1. Log(k)' \in {Log(k), TimedOut(Log(k))}
    BY <1>0, <1>1, <1>6 DEF Commit, AfterTimeoutAttempts, Settled, Log, Database
  <2> QED BY <1>2, <1>6, <2>1 DEF Ages
<1>7. CASE r.op = "start"
  <2>0. r.attempt.artifact \in Artifacts /\ r.attempt.n \in Nat
    BY <1>0, <1>7, AttemptParts DEF RequestType
  <2>1. db' = IF r.cut = db.run[r.run].cut
              THEN AfterStart(db, r.run, r.attempt.artifact, r.attempt.n, r.owner, now) ELSE db
    BY <1>7 DEF Commit
  <2>2. CASE r.cut = db.run[r.run].cut /\ Starts(db, r.run, r.attempt.artifact, r.attempt.n, r.owner, now)
    <3>1. db'.attempts = [db.attempts EXCEPT ![r.run][r.attempt.artifact] = Append(@, "running")]
      BY <1>1, <2>1, <2>2 DEF AfterStart, Database
    <3>2. CASE r.run = k /\ r.attempt.artifact = Elt
      <4>1. /\ r.attempt.n = Len(Log(k)) + 1
            /\ \A m \in 1..Len(Log(k)) : Log(k)[m] \notin CertifiedOutcome \union {"running"}
        BY <1>0, <1>1, <2>2, <3>2, LogType DEF Starts, Log
      <4>2. Log(k)' = Append(Log(k), "running")
        BY <1>0, <1>1, <3>1, <3>2 DEF Log, Database
      <4> QED BY <1>2, <1>7, <3>2, <4>1, <4>2 DEF Begins
    <3>3. CASE ~(r.run = k /\ r.attempt.artifact = Elt)
      <4>1. Log(k)' = Log(k)
        BY <1>0, <1>1, <2>0, <3>1, <3>3 DEF Log, Database
      <4> QED BY <1>2, <1>7, <4>1 DEF Ages
    <3> QED BY <3>2, <3>3
  <2> QED BY <1>2, <1>3, <1>7, <2>1, <2>2 DEF AfterStart
<1>8. CASE r.op = "finish_attempt"
  <2>0. r.attempt.artifact \in Artifacts /\ r.attempt.n \in Nat
    BY <1>0, <1>8, AttemptParts DEF RequestType
  <2> DEFINE fin == FinishesAttempt(db, r.run, r.attempt.artifact, r.attempt.n, r.owner, now)
  <2>1. /\ db' = AfterFinishAttempt(db, r.run, r.attempt.artifact, r.attempt.n,
                                    r.attempt.outcome, r.owner, now)
        /\ counted' = IF r.attempt.count = "positive" /\ fin
                      THEN counted \union {Row(r.run, r.attempt.artifact, r.attempt.n)}
                      ELSE counted
        /\ unknown' = IF r.attempt.count = "null" /\ fin
                      THEN unknown \union {Row(r.run, r.attempt.artifact, r.attempt.n)}
                      ELSE unknown
    BY <1>8 DEF Commit
  <2>2. CASE fin
    <3>1. db'.attempts = [db.attempts EXCEPT ![r.run][r.attempt.artifact][r.attempt.n] = r.attempt.outcome]
      BY <1>1, <2>1, <2>2 DEF AfterFinishAttempt, Database
    <3>2. CASE r.run = k /\ r.attempt.artifact = Elt
      <4>1. r.attempt.n \in 1..Len(Log(k)) /\ Log(k)[r.attempt.n] = "running"
        BY <1>0, <1>1, <2>2, <3>2, LogType DEF FinishesAttempt, Log
      <4>2. Log(k)' = [Log(k) EXCEPT ![r.attempt.n] = r.attempt.outcome]
        BY <1>0, <1>1, <3>1, <3>2 DEF Log, Database
      <4>3. /\ counted' = IF r.attempt.count = "positive" THEN counted \union {Row(k, Elt, r.attempt.n)} ELSE counted
            /\ unknown' = IF r.attempt.count = "null" THEN unknown \union {Row(k, Elt, r.attempt.n)} ELSE unknown
        BY <2>1, <2>2, <3>2
      <4> QED BY <1>8, <3>2, <4>1, <4>2, <4>3 DEF Concludes
    <3>3. CASE ~(r.run = k /\ r.attempt.artifact = Elt)
      <4>1. Log(k)' = Log(k)
        BY <1>0, <1>1, <2>0, <3>1, <3>3 DEF Log, Database
      <4>2. \A n : Row(k, Elt, n) # Row(r.run, r.attempt.artifact, r.attempt.n)
        BY <3>3, RowParts
      <4> QED BY <2>1, <4>1, <4>2 DEF Ages
    <3> QED BY <3>2, <3>3
  <2>3. CASE ~fin
    BY <1>3, <2>1, <2>3 DEF AfterFinishAttempt
  <2> QED BY <2>2, <2>3
<1> QED BY <1>0, <1>4, <1>5, <1>6, <1>7, <1>8 DEF Op

\* The entries of the log after such a step.
LEMMA LogEntries ==
    ASSUME NEW k, Log(k) \in Seq(AttemptStatus)
    PROVE  /\ Ages(k) =>
                  /\ Len(Log(k)') = Len(Log(k))
                  /\ \A m \in 1..Len(Log(k)) :
                         \/ Log(k)'[m] = Log(k)[m]
                         \/ Log(k)[m] = "running" /\ Log(k)'[m] = "timed_out"
           /\ \A n : Begins(k, n) =>
                  /\ Len(Log(k)') = n
                  /\ \A m \in 1..Len(Log(k)) : Log(k)'[m] = Log(k)[m]
                  /\ Log(k)'[n] = "running"
           /\ \A x : Concludes(k, x) =>
                  /\ Len(Log(k)') = Len(Log(k))
                  /\ \A m \in 1..Len(Log(k)) :
                         Log(k)'[m] = IF m = x.n THEN x.outcome ELSE Log(k)[m]
<1>1. Len(Log(k)) \in Nat /\ DOMAIN Log(k) = 1..Len(Log(k))
  BY LenProperties
<1>2. Ages(k) => /\ Len(Log(k)') = Len(Log(k))
                 /\ \A m \in 1..Len(Log(k)) :
                        \/ Log(k)'[m] = Log(k)[m]
                        \/ Log(k)[m] = "running" /\ Log(k)'[m] = "timed_out"
  BY <1>1, TimedOutLog DEF Ages
<1>3. ASSUME NEW n, Begins(k, n)
      PROVE  /\ Len(Log(k)') = n
             /\ \A m \in 1..Len(Log(k)) : Log(k)'[m] = Log(k)[m]
             /\ Log(k)'[n] = "running"
  <2>1. "running" \in AttemptStatus
    BY DEF AttemptStatus
  <2> QED BY <1>1, <1>3, <2>1, AppendProperties DEF Begins
<1>4. ASSUME NEW x, Concludes(k, x)
      PROVE  /\ Len(Log(k)') = Len(Log(k))
             /\ \A m \in 1..Len(Log(k)) :
                    Log(k)'[m] = IF m = x.n THEN x.outcome ELSE Log(k)[m]
  BY <1>1, <1>4 DEF Concludes
<1> QED BY <1>2, <1>3, <1>4

\* The changes of a log that a request r of the invariant makes.
Moves(k) ==
    \/ Ages(k)
    \/ \E n \in Nat : Begins(k, n) /\ Clean(k, n)
    \/ \E x \in Attempt : Concludes(k, x) /\ Told(k, x)

\* Attempts that are over stay as they are.
LEMMA CleanKept ==
    ASSUME NEW k, Log(k) \in Seq(AttemptStatus), Moves(k), NEW n \in Nat, Clean(k, n)
    PROVE  Clean(k, n)'
<1>0. Len(Log(k)) \in Nat
  BY LenProperties
<1> SUFFICES ASSUME NEW m \in 1..(n - 1)
             PROVE  /\ m \in 1..Len(Log(k)')
                    /\ Log(k)'[m] \notin Unsettled
                    /\ Row(k, Elt, m) \notin counted'
  BY DEF Clean
<1>1. /\ m \in 1..Len(Log(k))
      /\ Log(k)[m] \notin Unsettled
      /\ Row(k, Elt, m) \notin counted
  BY DEF Clean
<1>2. CASE Ages(k)
  BY <1>1, <1>2, LogEntries DEF Ages, Unsettled
<1>3. ASSUME NEW i \in Nat, Begins(k, i) PROVE m \in 1..Len(Log(k)') /\ Log(k)'[m] \notin Unsettled /\ Row(k, Elt, m) \notin counted'
  BY <1>0, <1>1, <1>3, LogEntries DEF Begins
<1>4. ASSUME NEW x \in Attempt, Concludes(k, x)
      PROVE  m \in 1..Len(Log(k)') /\ Log(k)'[m] \notin Unsettled /\ Row(k, Elt, m) \notin counted'
  <2>1. m # x.n
    BY <1>1, <1>4 DEF Concludes, Unsettled
  <2>2. Row(k, Elt, m) # Row(k, Elt, x.n)
    BY <2>1, RowParts
  <2> QED BY <1>1, <1>4, <2>1, <2>2, LogEntries DEF Concludes
<1> QED BY <1>2, <1>3, <1>4 DEF Moves

\* No mutation appears and no write is forgotten.
NoneNew ==
    /\ Sent' \subseteq Sent
    /\ writes \subseteq writes'
    /\ unknown \subseteq unknown'

LEMMA LogKept ==
    ASSUME NEW k, Log(k) \in Seq(AttemptStatus), Moves(k), NoneNew, LogInv(k),
           counted' \union unknown' \subseteq Runs \X Artifacts \X Nat
    PROVE  LogInv(k)'
<1>0. /\ Len(Log(k)) \in Nat
      /\ Clean(k, Len(Log(k)))
      /\ \A n \in 1..Len(Log(k)) : EntryInv(k, n)
      /\ \A w \in Sent \union counted \union unknown : w[1] = k /\ w[2] = Elt => w[3] \in 1..Len(Log(k))
      /\ Sent' \subseteq Sent /\ Mutated' \subseteq Mutated /\ writes \subseteq writes'
  BY LenProperties DEF LogInv, NoneNew, Mutated
<1>a. ASSUME NEW w \in counted' \union unknown', w[1] = k, w[2] = Elt PROVE w = Row(k, Elt, w[3])
  BY <1>a DEF Row
<1>1. CASE Ages(k)
  <2>1. Clean(k, Len(Log(k)))'
    BY <1>0, <1>1, CleanKept, LogEntries
  <2>2. ASSUME NEW n \in 1..Len(Log(k)) PROVE EntryInv(k, n)'
    BY <1>0, <1>1, <2>2, LogEntries DEF EntryInv, Unsettled, Ages
  <2>3. ASSUME NEW w \in (Sent \union counted \union unknown)', w[1] = k, w[2] = Elt PROVE w[3] \in 1..Len(Log(k))
    BY <1>0, <1>1, <1>a, <2>3, RowParts DEF Ages
  <2> QED BY <1>0, <1>1, <2>1, <2>2, <2>3, LogEntries DEF LogInv
<1>2. ASSUME NEW n \in Nat, Begins(k, n), Clean(k, n) PROVE LogInv(k)'
  <2>0. n = Len(Log(k)) + 1 /\ UNCHANGED <<counted, unknown>>
    BY <1>2 DEF Begins
  <2>1. Clean(k, Len(Log(k)))'
    BY <1>0, <1>2, CleanKept, LogEntries
  <2>2. ASSUME NEW m \in 1..n PROVE EntryInv(k, m)'
    <3>1. CASE m = n
      <4>1. Row(k, Elt, n) \notin counted \union unknown
        BY <1>0, <2>0, RowParts
      <4> QED BY <1>2, <2>0, <3>1, <4>1, LogEntries DEF EntryInv, Unsettled
    <3>2. CASE m # n
      <4>1. m \in 1..Len(Log(k))
        BY <1>0, <2>0, <3>2
      <4>2. Log(k)'[m] = Log(k)[m]
        BY <1>2, <4>1, LogEntries
      <4> QED BY <1>0, <2>0, <4>1, <4>2 DEF EntryInv
    <3> QED BY <3>1, <3>2
  <2>3. ASSUME NEW w \in (Sent \union counted \union unknown)', w[1] = k, w[2] = Elt PROVE w[3] \in 1..n
    BY <1>0, <2>0, <2>3
  <2>4. Len(Log(k)') = n
    BY <1>2, LogEntries
  <2> QED BY <2>1, <2>2, <2>3, <2>4 DEF LogInv
<1>3. ASSUME NEW x \in Attempt, Concludes(k, x), Told(k, x) PROVE LogInv(k)'
  <2>0. /\ x.n \in 1..Len(Log(k)) /\ Log(k)[x.n] = "running"
        /\ counted' = IF x.count = "positive" THEN counted \union {Row(k, Elt, x.n)} ELSE counted
        /\ unknown' = IF x.count = "null" THEN unknown \union {Row(k, Elt, x.n)} ELSE unknown
        /\ Row(k, Elt, x.n) \notin counted \union unknown
    BY <1>0, <1>3 DEF Concludes, EntryInv, Unsettled
  <2>1. Clean(k, Len(Log(k)))'
    BY <1>0, <1>3, CleanKept, LogEntries
  <2>2. ASSUME NEW m \in 1..Len(Log(k)) PROVE EntryInv(k, m)'
    <3>1. CASE m = x.n
      <4>1. Log(k)'[m] = x.outcome
        BY <1>3, <2>0, <3>1, LogEntries
      <4>2. Row(k, Elt, x.n) \in unknown' => Row(k, Elt, x.n) \notin Mutated'
        BY DEF Mutated
      <4> QED BY <1>0, <1>3, <2>0, <3>1, <4>1, <4>2
              DEF EntryInv, Told, Unsettled, CertifiedOutcome, Count
    <3>2. CASE m # x.n
      <4>1. Log(k)'[m] = Log(k)[m]
        BY <1>3, <3>2, LogEntries
      <4>2. /\ Row(k, Elt, m) \in counted' <=> Row(k, Elt, m) \in counted
            /\ Row(k, Elt, m) \in unknown' <=> Row(k, Elt, m) \in unknown
        BY <2>0, <3>2, RowParts
      <4> QED BY <1>0, <4>1, <4>2 DEF EntryInv
    <3> QED BY <3>1, <3>2
  <2>3. ASSUME NEW w \in (Sent \union counted \union unknown)', w[1] = k, w[2] = Elt PROVE w[3] \in 1..Len(Log(k))
    BY <1>0, <2>0, <2>3, RowParts
  <2> QED BY <1>3, <2>1, <2>2, <2>3, LogEntries DEF LogInv
<1> QED BY <1>1, <1>2, <1>3 DEF Moves

-----------------------------------------------------------------------------
(* What tasks and requests know stays true when a request commits *)

LEMMA ToldKept ==
    ASSUME NEW k, NEW x, NoneNew, Told(k, x)
    PROVE  Told(k, x)'
BY DEF NoneNew, Told, Mutated

LEMMA LengthKept ==
    ASSUME NEW k, Log(k) \in Seq(AttemptStatus), Moves(k)
    PROVE  Len(Log(k)) \in Nat /\ Len(Log(k)') \in Nat /\ Len(Log(k)) <= Len(Log(k)')
BY LenProperties, LogEntries DEF Moves, Begins

LEMMA RowKept ==
    ASSUME NEW k, Log(k) \in Seq(AttemptStatus), Moves(k), NoneNew,
           NEW row \in TaskRow, RowInv(k, row),
           OnElt(row) /\ row.pc = "execute" => Log(k)'[row.attempt.n] \in Unsettled
    PROVE  RowInv(k, row)'
<1>1. Elt \in row.todo => Clean(k, Len(row.known[Elt]) + 1)'
  <2>1. row.known[Elt] \in Seq(AttemptStatus)
    BY HydrationRunAssumption DEF TaskRow
  <2>2. Len(row.known[Elt]) + 1 \in Nat
    BY <2>1, LenProperties
  <2> QED BY <2>2, CleanKept DEF RowInv
<1>2. OnElt(row) => AttemptInv(k, row)'
  <2> SUFFICES ASSUME OnElt(row) PROVE AttemptInv(k, row)'
    OBVIOUS
  <2>1. AttemptInv(k, row)
    BY DEF RowInv
  <2>2. row.attempt.n \in 1..Len(Log(k)')
    BY <2>1, LengthKept DEF AttemptInv
  <2>3. row.pc # "execute" => Told(k, row.attempt)'
    BY <2>1, ToldKept DEF AttemptInv
  <2> QED BY <2>1, <2>2, <2>3 DEF AttemptInv, NoneNew, Mutated
<1> QED BY <1>1, <1>2 DEF RowInv, OnElt

LEMMA RequestKept ==
    ASSUME NEW r, RequestType(r), Log(r.run) \in Seq(AttemptStatus), Moves(r.run), NoneNew,
           RequestInv(r)
    PROVE  RequestInv(r)'
<1> SUFFICES ASSUME r.op \in {"start", "finish_attempt"}, r.attempt.artifact = Elt
             PROVE  /\ r.op = "start" => Clean(r.run, r.attempt.n)'
                    /\ r.op = "finish_attempt" => /\ r.attempt.n \in 1..Len(Log(r.run)')
                                                  /\ Told(r.run, r.attempt)'
  BY DEF RequestInv
<1>1. r.attempt.n \in Nat
  BY AttemptParts DEF RequestType, RequestRow
<1>2. r.op = "start" => Clean(r.run, r.attempt.n)'
  BY <1>1, CleanKept DEF RequestInv
<1>3. r.op = "finish_attempt" => /\ r.attempt.n \in 1..Len(Log(r.run)')
                                 /\ Told(r.run, r.attempt)'
  BY LengthKept, ToldKept DEF RequestInv
<1> QED BY <1>2, <1>3

\* The attempt of row is the one of task p, or one that has not started.
Continues(p, row) ==
    OnElt(row) =>
        \/ /\ OnElt(task[p])
           /\ row.attempt.n = task[p].attempt.n
           /\ row.pc = "execute" => task[p].pc = "execute"
        \/ row.attempt.n \notin 1..Len(Log(Key(p)))

KeyFacts == \A p \in Tasks : Key(p) \in Runs /\ Me(p) \in Owners

LEMMA KeyType == KeyFacts
BY HydrationRunAssumption DEF Key, Me, KeyFacts

LEMMA CommitKept ==
    ASSUME TypeInv, DocInv, NEW r, RequestType(r), RequestInv(r), Lone(r), Commit(r, now), NoneNew,
           counted' \union unknown' \subseteq Runs \X Artifacts \X Nat
    PROVE  /\ \A k \in Runs : LogInv(k)'
           /\ \A q : RequestType(q) /\ RequestInv(q) => RequestInv(q)'
           /\ \A p \in Tasks : \A row \in TaskRow :
                  RowInv(Key(p), row) /\ Continues(p, row) => RowInv(Key(p), row)'
<1>0. /\ DbInv(db) /\ db \in Database /\ now \in Nat
      /\ Elt \in Artifacts
  BY HydrationRunAssumption DEF TypeInv, TypeOK
<1>1. ASSUME NEW k \in Runs
      PROVE  /\ Log(k) \in Seq(AttemptStatus)
             /\ Moves(k)
             /\ \A n \in 1..Len(Log(k)) :
                    Executing(k, n) /\ Log(k)[n] \in Unsettled => Log(k)'[n] \in Unsettled
  <2>1. Log(k) \in Seq(AttemptStatus)
    BY <1>0 DEF Log, Database
  <2>2. r.op \in {"start", "finish_attempt"} => r.attempt \in Attempt /\ r.attempt.n \in Nat
    BY AttemptParts DEF RequestType, RequestRow
  <2>3. Moves(k)
    BY <1>0, <2>2, CommitLogs DEF RequestInv, Moves
  <2>4. ASSUME NEW n \in 1..Len(Log(k)), Executing(k, n), Log(k)[n] \in Unsettled
        PROVE  Log(k)'[n] \in Unsettled
    <3>1. CASE Ages(k)
      BY <2>1, <2>4, <3>1, LogEntries DEF Unsettled
    <3>2. CASE \E i : Begins(k, i)
      BY <2>1, <2>4, <3>2, LogEntries
    <3>3. CASE /\ r.op = "finish_attempt" /\ r.run = k /\ r.attempt.artifact = Elt
               /\ Concludes(k, r.attempt)
      BY <2>1, <2>4, <3>3, LogEntries DEF Lone
    <3> QED BY <1>0, <3>1, <3>2, <3>3, CommitLogs
  <2> QED BY <2>1, <2>3, <2>4
<1>2. ASSUME NEW k \in Runs PROVE LogInv(k)'
  BY <1>1, LogKept DEF DocInv
<1>3. ASSUME NEW q, RequestType(q), RequestInv(q) PROVE RequestInv(q)'
  <2>1. q.run \in Runs
    BY <1>3 DEF RequestType, RequestRow
  <2> QED BY <1>1, <1>3, <2>1, RequestKept
<1>4. ASSUME NEW p \in Tasks, NEW row \in TaskRow, RowInv(Key(p), row), Continues(p, row)
      PROVE  RowInv(Key(p), row)'
  <2>1. Key(p) \in Runs
    BY KeyType DEF KeyFacts
  <2>2. ASSUME OnElt(row), row.pc = "execute"
        PROVE  Log(Key(p))'[row.attempt.n] \in Unsettled
    <3>1. row.attempt.n \in 1..Len(Log(Key(p))) /\ Log(Key(p))[row.attempt.n] \in Unsettled
      BY <1>4, <2>2 DEF RowInv, AttemptInv
    <3>2. Executing(Key(p), row.attempt.n)
      BY <1>4, <2>2, <3>1 DEF Continues, Executing, OnElt
    <3> QED BY <1>1, <2>1, <3>1, <3>2
  <2> QED BY <1>1, <1>4, <2>1, <2>2, RowKept
<1> QED BY <1>2, <1>3, <1>4

LEMMA CommitTypes ==
    ASSUME TypeInv, NEW r, RequestType(r), Commit(r, now)
    PROVE  /\ counted' \union unknown' \union writes' \subseteq Runs \X Artifacts \X Nat
           /\ writes \subseteq writes'
           /\ unknown \subseteq unknown'
           /\ r.op # "mutate" => writes' = writes
<1>1. r.op \in {"finish_attempt", "mutate"} =>
          Row(r.run, r.attempt.artifact, r.attempt.n) \in Runs \X Artifacts \X Nat
  <2>1. r.op \in {"finish_attempt", "mutate"} => r.attempt.artifact \in Artifacts /\ r.attempt.n \in Nat
    BY AttemptParts DEF RequestType, RequestRow
  <2> QED BY <2>1 DEF RequestType, RequestRow, Row
<1>2. counted \union unknown \union writes \subseteq Runs \X Artifacts \X Nat
  BY DEF TypeInv, TypeOK
<1>3. /\ counted' \in {counted, counted \union {Row(r.run, r.attempt.artifact, r.attempt.n)}}
      /\ unknown' \in {unknown, unknown \union {Row(r.run, r.attempt.artifact, r.attempt.n)}}
  BY DEF Commit
<1>4. r.op # "finish_attempt" => UNCHANGED <<counted, unknown>>
  BY DEF Commit
<1>5. writes' = IF r.op = "mutate" THEN writes \union {Row(r.run, r.attempt.artifact, r.attempt.n)}
                ELSE writes
  BY DEF Commit
<1> QED BY <1>1, <1>2, <1>3, <1>4, <1>5

LEMMA ExclusiveKept ==
    ASSUME DocInv, NEW p \in Tasks, NEW row, Continues(p, row), NEW r, RequestInv(r), Lone(r),
           task \in [Tasks -> TaskRow], task' = [task EXCEPT ![p] = row], net' \subseteq net \union {r}
    PROVE  Exclusive'
<1>0. /\ task'[p] = row
      /\ \A q \in Tasks \ {p} : task'[q] = task[q]
  OBVIOUS
<1>1. ASSUME NEW q \in Tasks \ {p}, OnElt(task[q]), OnElt(row), Key(q) = Key(p),
             task[q].attempt.n = row.attempt.n
      PROVE  FALSE
  <2>1. task[q].attempt.n \in 1..Len(Log(Key(p)))
    BY <1>1 DEF DocInv, RowInv, AttemptInv
  <2> QED BY <1>1, <2>1 DEF Continues, DocInv, Exclusive
<1>2. ASSUME NEW s \in net \union {r} PROVE Lone(s)'
  <2>0. Lone(s) /\ RequestInv(s)
    BY <1>2 DEF DocInv, Exclusive
  <2> SUFFICES ASSUME s.op = "finish_attempt", s.attempt.artifact = Elt,
                      Executing(s.run, s.attempt.n)'
               PROVE  FALSE
    BY DEF Lone
  <2>1. s.attempt.n \in 1..Len(Log(s.run)) /\ ~Executing(s.run, s.attempt.n)
    BY <2>0 DEF Lone, RequestInv
  <2>2. PICK q \in Tasks : /\ task'[q].pc = "execute" /\ task'[q].attempt.artifact = Elt
                           /\ Key(q) = s.run /\ task'[q].attempt.n = s.attempt.n
    BY DEF Executing
  <2>3. q = p
    BY <1>0, <2>1, <2>2 DEF Executing
  <2>4. OnElt(row) /\ row.pc = "execute" /\ row.attempt.n = s.attempt.n /\ Key(p) = s.run
    BY <1>0, <2>2, <2>3 DEF OnElt, Attempting
  <2> QED BY <2>1, <2>4 DEF Continues, Executing, OnElt
<1>3. \A i, j \in Tasks :
          OnElt(task'[i]) /\ OnElt(task'[j]) /\ Key(i) = Key(j) /\ task'[i].attempt.n = task'[j].attempt.n
              => i = j
  BY <1>0, <1>1 DEF DocInv, Exclusive
<1> QED BY <1>2, <1>3 DEF Exclusive, OnElt

-----------------------------------------------------------------------------
(* The steps of a task *)

\* The success a row reports is the one that is stored.
Reported(p, row) ==
    row.status \in {"succeeded", "no_change"} =>
        /\ db.run[Key(p)].status = "terminal"
        /\ db.run[Key(p)].outcome = row.status

IInv ==
    /\ TypeInv
    /\ DocInv
    /\ \A p \in Tasks : Reported(p, task[p])

\* A row task p may go on with.
Fits(p, row) ==
    /\ RowType(row)
    /\ RowInv(Key(p), row)
    /\ Continues(p, row)
    /\ Reported(p, row)

LEMMA ReportKept ==
    ASSUME Respects(db, db', now), NEW p \in Tasks, NEW row, Reported(p, row)
    PROVE  Reported(p, row)'
BY KeyType DEF Reported, Respects, KeepsSuccess, Sealed, KeyFacts

\* A step of task p that makes no call, or whose call did nothing yet.
LEMMA GoesKept ==
    ASSUME IInv, NEW p \in Tasks, NEW row, Fits(p, row), NEW r, RequestType(r), RequestInv(r), Lone(r),
           r.op # "mutate",
           task' = [task EXCEPT ![p] = row], UNCHANGED <<now, db, counted, unknown, writes>>,
           net' \in {net, net \union {r}}, faults' \in 0..MaxFaults
    PROVE  IInv'
<1>0. task \in [Tasks -> TaskRow] /\ row \in TaskRow
  BY DEF IInv, TypeInv, TypeOK, Fits, RowType
<1>1. /\ task'[p] = row /\ task' \in [Tasks -> TaskRow]
      /\ \A q \in Tasks \ {p} : task'[q] = task[q]
  BY <1>0
<1>2. TypeInv'
  BY <1>1 DEF IInv, TypeInv, TypeOK, Fits, RequestType
<1>3. Pending' = Pending
  BY DEF Pending
<1>4. \A k, x : Told(k, x) => Told(k, x)'
  BY <1>3 DEF Told, Mutated, Sent
<1>5. \A k, n : Clean(k, n) => Clean(k, n)'
  BY DEF Clean, Log
<1>6. \A k \in Runs : LogInv(k)'
  BY <1>3, <1>5 DEF IInv, DocInv, LogInv, EntryInv, Mutated, Sent, Log
<1>7. \A k, q : RowInv(k, q) => RowInv(k, q)'
  BY <1>3, <1>4, <1>5 DEF RowInv, AttemptInv, Mutated, Sent, Log, OnElt
<1>8. \A q : RequestInv(q) => RequestInv(q)'
  BY <1>4, <1>5 DEF RequestInv, Log
<1>9. Exclusive'
  BY <1>0, ExclusiveKept DEF IInv, Fits
<1>10. DocInv'
  BY <1>1, <1>6, <1>7, <1>8, <1>9 DEF IInv, DocInv, Fits
<1> QED BY <1>1, <1>2, <1>10 DEF IInv, Reported, Fits

\* A step of task p whose call was executed.
LEMMA AnsweredKept ==
    ASSUME IInv, NEW p \in Tasks, NEW row, NEW r, RequestType(r), RequestInv(r), Lone(r),
           r.op # "mutate", Commit(r, now), UNCHANGED <<now, net>>,
           RowType(row), Continues(p, row), RowInv(Key(p), row)', Reported(p, row)',
           task' = [task EXCEPT ![p] = row], faults' \in 0..MaxFaults
    PROVE  IInv'
<1>0. /\ task \in [Tasks -> TaskRow] /\ row \in TaskRow /\ now \in Nat
      /\ TypeInv /\ DocInv /\ DbInv(db)
  BY DEF IInv, TypeInv, TypeOK, RowType
<1>1. /\ task'[p] = row /\ task' \in [Tasks -> TaskRow]
      /\ \A q \in Tasks \ {p} : task'[q] = task[q]
  BY <1>0
<1>2. DbInv(db') /\ Respects(db, db', now)
  BY <1>0, CommitStep
<1>3. /\ counted' \union unknown' \union writes' \subseteq Runs \X Artifacts \X Nat
      /\ writes' = writes /\ unknown \subseteq unknown'
  BY <1>0, CommitTypes
<1>4. TypeInv'
  BY <1>1, <1>2, <1>3 DEF IInv, TypeInv, TypeOK, DbInv
<1>5. NoneNew
  BY <1>3 DEF NoneNew, Sent, Pending
<1>6. /\ \A k \in Runs : LogInv(k)'
      /\ \A q : RequestType(q) /\ RequestInv(q) => RequestInv(q)'
      /\ \A i \in Tasks : \A q \in TaskRow : RowInv(Key(i), q) /\ Continues(i, q) => RowInv(Key(i), q)'
  BY <1>0, <1>3, <1>5, CommitKept
<1>7. Exclusive'
  BY <1>0, ExclusiveKept
<1>8. \A i \in Tasks : RowInv(Key(i), task[i])'
  <2>1. ASSUME NEW i \in Tasks \ {p} PROVE RowInv(Key(i), task[i])'
    <3> DEFINE q == task[i]
    <3>1. RowInv(Key(i), q) /\ Continues(i, q) /\ q \in TaskRow
      BY <1>0 DEF DocInv, Continues
    <3>2. task'[i] = q
      BY <1>1
    <3> HIDE DEF q
    <3> QED BY <1>1, <1>6, <3>1, <3>2
  <2> QED BY <1>1, <2>1
<1>9. DocInv'
  BY <1>0, <1>6, <1>7, <1>8 DEF DocInv, TypeInv
<1>10. \A i \in Tasks : Reported(i, task[i])'
  BY <1>1, <1>2, ReportKept DEF IInv
<1> QED BY <1>4, <1>9, <1>10 DEF IInv

\* A request without an attempt, and one to finish the attempt of the task.
LEMMA Asks ==
    ASSUME IInv, NEW p \in Tasks, NEW op \in Op \ {"start", "finish_attempt", "finish_run", "mutate"}
    PROVE  /\ RequestType(Request(p, op)) /\ RequestInv(Request(p, op)) /\ Lone(Request(p, op))
           /\ Request(p, op).op # "mutate"
<1>1. task[p] \in TaskRow
  BY DEF IInv, TypeInv, RowType
<1>2. task[p].cut \in Cuts \union {NoCut} /\ task[p].attempt \in Attempt \union {NoAttempt}
  BY <1>1 DEF TaskRow
<1> QED BY <1>2, KeyType DEF RequestType, RequestRow, RequestInv, Lone, Request, KeyFacts

LEMMA StepsKept ==
    ASSUME IInv, NEW p \in Tasks, NEW row, Fits(p, row), Goes(p, row) \/ ReadFails(p, row)
    PROVE  IInv'
<1>1. faults' \in 0..MaxFaults
  BY HydrationRunAssumption DEF Goes, ReadFails, store, IInv, TypeInv, TypeOK
<1>2. "timeout" \in Op \ {"start", "finish_attempt", "finish_run", "mutate"}
  BY DEF Op
<1> QED BY <1>1, <1>2, Asks, GoesKept DEF Goes, ReadFails, store

LEMMA CallKept ==
    ASSUME IInv, NEW p \in Tasks, NEW r, RequestType(r), RequestInv(r), Lone(r), r.op # "mutate",
           NEW ok, NEW err, Call(p, r, ok, err), Fits(p, err),
           Commit(r, now) /\ UNCHANGED net =>
               RowType(ok) /\ Continues(p, ok) /\ RowInv(Key(p), ok)' /\ Reported(p, ok)'
    PROVE  IInv'
<1>0. /\ task \in [Tasks -> TaskRow] /\ now \in Nat /\ faults \in 0..MaxFaults
      /\ TypeInv /\ DocInv /\ DbInv(db) /\ MaxFaults \in Nat /\ net \subseteq RequestRow
  BY HydrationRunAssumption DEF IInv, TypeInv, TypeOK
<1>1. faults' \in 0..MaxFaults /\ now' = now
  BY <1>0 DEF Call
<1>2. ASSUME Commit(r, now), UNCHANGED net, task' = [task EXCEPT ![p] = ok] PROVE IInv'
  BY <1>1, <1>2, AnsweredKept
<1>3. ASSUME Commit(r, now), UNCHANGED net, task' = [task EXCEPT ![p] = err] PROVE IInv'
  <2>1. Respects(db, db', now) /\ counted' \union unknown' \subseteq Runs \X Artifacts \X Nat /\ writes' = writes /\ unknown \subseteq unknown'
    BY <1>0, <1>3, CommitStep, CommitTypes
  <2>2. NoneNew
    BY <1>3, <2>1 DEF NoneNew, Sent, Pending
  <2>3. RowInv(Key(p), err)' /\ Reported(p, err)'
    BY <1>0, <1>3, <2>1, <2>2, CommitKept, ReportKept DEF Fits, RowType
  <2> QED BY <1>1, <1>3, <2>3, AnsweredKept DEF Fits
<1>4. ASSUME UNCHANGED store, net' \in {net, net \union {r}}, task' = [task EXCEPT ![p] = err] PROVE IInv'
  BY <1>1, <1>4, GoesKept DEF store
<1> QED BY <1>2, <1>3, <1>4 DEF Call

LEMMA FitCallKept ==
    ASSUME IInv, NEW p \in Tasks, NEW r, RequestType(r), RequestInv(r), Lone(r), r.op # "mutate",
           NEW ok, NEW err, Call(p, r, ok, err), Fits(p, err), Fits(p, ok)
    PROVE  IInv'
<1>1. ASSUME Commit(r, now), UNCHANGED net PROVE RowInv(Key(p), ok)' /\ Reported(p, ok)'
  <2>0. now \in Nat /\ TypeInv /\ DocInv /\ DbInv(db)
    BY DEF IInv, TypeInv, TypeOK
  <2>1. Respects(db, db', now) /\ counted' \union unknown' \subseteq Runs \X Artifacts \X Nat /\ writes' = writes /\ unknown \subseteq unknown'
    BY <2>0, <1>1, CommitStep, CommitTypes
  <2>2. NoneNew
    BY <1>1, <2>1 DEF NoneNew, Sent, Pending
  <2> QED BY <1>1, <2>0, <2>1, <2>2, CommitKept, ReportKept DEF Fits, RowType
<1> QED BY <1>1, CallKept DEF Fits

\* Row end is row with its attempt over.
EndsLocally(row, end, outcome) ==
    /\ RowType(end)
    /\ end.pc = "persist"
    /\ end.attempt.artifact = row.attempt.artifact
    /\ end.attempt.n = row.attempt.n
    /\ end.attempt.outcome = outcome
    /\ end.todo = row.todo /\ end.known = row.known /\ end.status = row.status

EndedWith(row, outcome, count) ==
    [row EXCEPT !.pc = "persist", !.attempt.outcome = outcome, !.attempt.count = count]

LEMMA LocalEndParts ==
    ASSUME NEW row, RowType(row), row.pc = "execute",
           NEW outcome \in {"failed"} \union CertifiedOutcome, NEW m \in Count,
           NEW end, end = EndedWith(row, outcome, m)
    PROVE  EndsLocally(row, end, outcome) /\ end.attempt.count = m
<1> DEFINE x == [row.attempt EXCEPT !.outcome = outcome, !.count = m]
           e == [row EXCEPT !.pc = "persist", !.attempt = x]
<1>1. row \in TaskRow /\ row.attempt \in Attempt
  <2>1. row \in TaskRow /\ row.attempt # NoAttempt
    BY DEF RowType, Attempting
  <2> QED BY <2>1 DEF TaskRow
<1>2. /\ x \in Attempt /\ x.count = m
      /\ x.artifact = row.attempt.artifact /\ x.n = row.attempt.n /\ x.outcome = outcome
  BY <1>1 DEF Attempt, AttemptStatus
<1>3. end = e
  BY <1>1 DEF TaskRow, Attempt, EndedWith
<1> HIDE DEF x
<1>4. /\ e \in TaskRow /\ e.pc = "persist" /\ e.attempt = x
      /\ e.todo = row.todo /\ e.known = row.known /\ e.status = row.status
      /\ e.failing = row.failing
  BY <1>1, <1>2 DEF TaskRow, PC
<1>5. x # NoAttempt /\ outcome # "running"
  BY <1>2, NoAttemptAssumption DEF CertifiedOutcome
<1> QED BY <1>2, <1>3, <1>4, <1>5 DEF RowType, Attempting, EndsLocally

LEMMA LocalEnds ==
    ASSUME NEW row, RowType(row), row.pc = "execute",
           NEW outcome \in {"failed"} \union CertifiedOutcome, NEW count \in Count,
           NEW end, end = LocalEnd(row, outcome, count)
    PROVE  /\ EndsLocally(row, end, outcome)
           /\ end.attempt.count = IF row.attempt.artifact = Elt THEN count ELSE "zero"
<1>1. PICK m \in Count : m = IF row.attempt.artifact = Elt THEN count ELSE "zero"
  BY DEF Count
<1>2. end = EndedWith(row, outcome, m)
  BY <1>1 DEF LocalEnd, EndedWith
<1>3. EndsLocally(row, end, outcome) /\ end.attempt.count = m
  BY <1>2, LocalEndParts
<1> QED BY <1>1, <1>3

\* The mutation of task p is made, or on its way, or lost.
LEMMA MutationKept ==
    ASSUME IInv, NEW p \in Tasks, task[p].pc = "execute", NEW row,
           NEW outcome \in {"failed", "written"}, EndsLocally(task[p], row, outcome),
           task[p].attempt.artifact = Elt =>
               \/ row.attempt.count = "positive"
               \/ outcome = "failed" /\ row.attempt.count = "null",
           task' = [task EXCEPT ![p] = row], UNCHANGED <<now, db, counted, unknown>>,
           net' \in {net, net \union {Request(p, "mutate")}}, faults' \in 0..MaxFaults,
           NEW w, w = Row(Key(p), task[p].attempt.artifact, task[p].attempt.n),
           writes \subseteq writes', writes' \subseteq writes \union {w},
           Sent' \subseteq Sent \union {w},
           outcome = "written" => w \in writes'
    PROVE  IInv'
<1> DEFINE x == task[p].attempt
           k == Key(p)
<1>0. /\ task \in [Tasks -> TaskRow] /\ net \subseteq RequestRow /\ now \in Nat
      /\ RowType(task[p]) /\ x \in Attempt /\ x # NoAttempt
      /\ x.artifact \in Artifacts /\ x.n \in Nat /\ k \in Runs
  <2>1. task[p] \in TaskRow /\ task[p].attempt # NoAttempt /\ RowType(task[p])
    BY DEF IInv, TypeInv, RowType, Attempting
  <2>2. x \in Attempt
    BY <2>1 DEF TaskRow
  <2> QED BY <2>1, <2>2, KeyType DEF IInv, TypeInv, TypeOK, Attempt, KeyFacts
<1>1. /\ RowType(row) /\ row.pc = "persist"
      /\ row.attempt.artifact = x.artifact /\ row.attempt.n = x.n /\ row.attempt.outcome = outcome
      /\ x.artifact = Elt => \/ row.attempt.count = "positive"
                             \/ outcome = "failed" /\ row.attempt.count = "null"
      /\ row.todo = task[p].todo /\ row.known = task[p].known /\ row.status = task[p].status
  BY DEF EndsLocally
<1>2. /\ task'[p] = row /\ task' \in [Tasks -> TaskRow]
      /\ \A q \in Tasks \ {p} : task'[q] = task[q]
  BY <1>0, <1>1 DEF RowType
<1>3. RequestType(Request(p, "mutate")) /\ RequestInv(Request(p, "mutate")) /\ Lone(Request(p, "mutate"))
  <2>1. task[p].cut \in Cuts \union {NoCut}
    BY <1>0 DEF RowType, TaskRow
  <2> QED BY <1>0, <2>1, KeyType DEF RequestType, RequestRow, RequestInv, Lone, Request, KeyFacts, Op
<1>4. TypeInv'
  <2>1. w \in Runs \X Artifacts \X Nat
    BY <1>0 DEF Row
  <2> QED BY <1>1, <1>2, <1>3, <2>1 DEF IInv, TypeInv, TypeOK, RequestType
<1>5. ASSUME NEW j \in Runs, NEW n PROVE Row(j, Elt, n) = w <=> (j = k /\ x.artifact = Elt /\ n = x.n)
  BY RowParts
<1>6. x.artifact = Elt => /\ x.n \in 1..Len(Log(k)) /\ Log(k)[x.n] \in Unsettled
                          /\ AttemptInv(k, task[p]) /\ OnElt(task[p])
  BY DEF IInv, DocInv, RowInv, AttemptInv, OnElt, Attempting
<1>7. ASSUME NEW j, NEW n PROVE Clean(j, n)' <=> Clean(j, n)
  BY DEF Clean, Log
<1>b. Mutated' \subseteq Mutated \union {w}
  BY DEF Mutated
<1>8. ASSUME NEW j \in Runs PROVE LogInv(j)'
  <2>1. LogInv(j)
    BY DEF IInv, DocInv
  <2>2. ASSUME NEW n \in 1..Len(Log(j)) PROVE EntryInv(j, n)'
    BY <1>5, <1>6, <1>b, <2>1, <2>2 DEF LogInv, EntryInv, Log
  <2>3. ASSUME NEW v \in (Sent \union counted \union unknown)', v[1] = j, v[2] = Elt PROVE v[3] \in 1..Len(Log(j))
    BY <1>6, <2>1, <2>3, RowParts DEF LogInv
  <2> QED BY <1>7, <2>1, <2>2, <2>3 DEF LogInv, Log
<1>9. ASSUME NEW q \in Tasks \ {p} PROVE RowInv(Key(q), task[q])'
  <2>1. RowInv(Key(q), task[q]) /\ Key(q) \in Runs
    BY KeyType DEF IInv, DocInv, KeyFacts
  <2>2. ASSUME OnElt(task[q]) PROVE Row(Key(q), Elt, task[q].attempt.n) # w
    BY <1>5, <1>6, <2>1, <2>2 DEF IInv, DocInv, Exclusive
  <2>3. ASSUME OnElt(task[q]) PROVE AttemptInv(Key(q), task[q])'
    BY <1>2, <1>b, <2>1, <2>2, <2>3 DEF RowInv, AttemptInv, Told, Log
  <2> QED BY <1>2, <1>7, <2>1, <2>3 DEF RowInv, OnElt
<1>10. RowInv(k, row)'
  <2>1. RowInv(k, task[p])
    BY DEF IInv, DocInv
  <2>2. OnElt(row) => AttemptInv(k, row)'
    BY <1>0, <1>1, <1>5, <1>6 DEF AttemptInv, Told, Log, OnElt, CertifiedOutcome, Count
  <2> QED BY <1>1, <1>7, <2>1, <2>2 DEF RowInv, OnElt
<1>11. ASSUME NEW r \in net PROVE RequestInv(r)'
  <2>1. RequestInv(r) /\ Lone(r) /\ r.run \in Runs
    BY DEF IInv, DocInv, Exclusive, TypeInv, RequestType, RequestRow
  <2>2. ASSUME r.op = "finish_attempt", r.attempt.artifact = Elt PROVE Row(r.run, Elt, r.attempt.n) # w
    BY <1>5, <2>1, <2>2 DEF Lone, Executing
  <2> QED BY <1>7, <1>b, <2>1, <2>2 DEF RequestInv, Told, Log
<1>12. ASSUME NEW r, r = Request(p, "mutate") PROVE RequestInv(r)'
  BY <1>12 DEF RequestInv, Request
<1>13. Exclusive'
  <2>1. Continues(p, row)
    <3>1. row.pc # "execute" /\ task[p].pc \in Attempting
      BY <1>1 DEF Attempting
    <3> QED BY <1>1, <3>1 DEF Continues, OnElt
  <2> QED BY <1>0, <1>3, <2>1, ExclusiveKept DEF IInv
<1>14. DocInv'
  <2>1. ASSUME NEW q \in Tasks PROVE RowInv(Key(q), task[q])'
    BY <1>2, <1>9, <1>10
  <2>2. ASSUME NEW r \in net' PROVE RequestInv(r)'
    BY <1>11, <1>12
  <2> QED BY <1>8, <1>13, <2>1, <2>2 DEF DocInv
<1>15. ASSUME NEW q \in Tasks PROVE Reported(q, task[q])'
  <2>1. task'[q].status = task[q].status
    BY <1>1, <1>2
  <2> QED BY <2>1 DEF IInv, Reported
<1> QED BY <1>4, <1>14, <1>15 DEF IInv

-----------------------------------------------------------------------------
(* The rows a task goes on with *)

LEMMA TaskFacts ==
    ASSUME IInv, NEW p \in Tasks
    PROVE  /\ RowType(task[p]) /\ RowInv(Key(p), task[p]) /\ Reported(p, task[p])
           /\ task[p] \in TaskRow
           /\ task[p].pc \notin Attempting <=> task[p].attempt = NoAttempt
BY DEF IInv, TypeInv, DocInv, RowType

\* A row without an attempt, with no more to do than before, which reports nothing new.
LEMMA PlainFits ==
    ASSUME NEW p \in Tasks, NEW row \in TaskRow, row.pc \notin Attempting, row.attempt = NoAttempt,
           Elt \in row.todo => Clean(Key(p), Len(row.known[Elt]) + 1),
           row.failing => row.todo = {}, Reported(p, row)
    PROVE  Fits(p, row)
BY DEF Fits, RowType, RowInv, OnElt, Continues, Attempting

LEMMA IdleType ==
    /\ Idle \in TaskRow
    /\ Idle.pc = "claim" /\ Idle.attempt = NoAttempt /\ Idle.todo = {} /\ Idle.status = "none"
    /\ Idle.known \in [Artifacts -> Seq(AttemptStatus)]
<1>1. [a \in Artifacts |-> <<>>] \in [Artifacts -> Seq(AttemptStatus)]
  OBVIOUS
<1> QED BY <1>1 DEF Idle, TaskRow, PC

LEMMA DoneParts ==
    ASSUME NEW status \in RunOutcome \union {"none", "overlap", "threw"}
    PROVE  /\ Done(status) \in TaskRow
           /\ Done(status).pc = "done" /\ Done(status).attempt = NoAttempt
           /\ Done(status).todo = {} /\ Done(status).status = status
BY IdleType DEF Done, TaskRow, PC

\* A task that reports no success fits any state.
LEMMA DoneFits ==
    ASSUME NEW p \in Tasks,
           NEW status \in (RunOutcome \union {"none", "overlap", "threw"}) \ {"succeeded", "no_change"}
    PROVE  Fits(p, Done(status))
BY DoneParts, PlainFits DEF Reported, Attempting

\* The next state of a task between two attempts.
LEMMA ToFits ==
    ASSUME IInv, NEW p \in Tasks, task[p].attempt = NoAttempt, NEW pc \in PC \ Attempting,
           NEW cut \in Cuts \union {NoCut},
           NEW row \in {To(task[p], pc), [task[p] EXCEPT !.pc = pc, !.cut = cut],
                        To([task[p] EXCEPT !.cut = cut], pc)}
    PROVE  Fits(p, row)
<1>1. task[p] \in TaskRow /\ RowInv(Key(p), task[p]) /\ Reported(p, task[p])
  BY TaskFacts
<1>2. /\ row \in TaskRow /\ row.pc = pc /\ row.attempt = NoAttempt /\ row.todo = task[p].todo
      /\ row.known = task[p].known /\ row.status = task[p].status /\ row.failing = task[p].failing
  BY <1>1 DEF To, TaskRow
<1>3. task[p].failing => task[p].todo = {}
  BY TaskFacts DEF RowType
<1> QED BY <1>1, <1>2, <1>3, PlainFits DEF RowInv, Reported

\* The next state of a task whose attempt is over but not stored.
LEMMA AttemptFits ==
    ASSUME IInv, NEW p \in Tasks, task[p].pc \in Attempting \ {"execute"},
           NEW row \in TaskRow, row.pc \in Attempting \ {"execute"}, row.attempt = task[p].attempt,
           row.status = task[p].status,
           \/ row.todo = {}
           \/ row.todo = task[p].todo /\ row.known = task[p].known /\ row.failing = task[p].failing
    PROVE  Fits(p, row)
<1>1. RowType(task[p]) /\ RowInv(Key(p), task[p]) /\ Reported(p, task[p])
  BY TaskFacts
<1>2. RowType(row)
  BY <1>1 DEF RowType
<1>3. RowInv(Key(p), row)
  <2>1. OnElt(row) => AttemptInv(Key(p), row)
    BY <1>1 DEF RowInv, OnElt, AttemptInv
  <2> QED BY <1>1, <2>1 DEF RowInv
<1>4. Continues(p, row)
  BY DEF Continues, OnElt
<1> QED BY <1>1, <1>2, <1>3, <1>4 DEF Fits, Reported

\* failRun, with the attempt that is over or without one.
LEMMA FailFits ==
    ASSUME IInv, NEW p \in Tasks, task[p].pc # "execute", NEW row \in TaskRow,
           row.attempt = task[p].attempt, row.status = task[p].status
    PROVE  Fits(p, FailRun(row))
<1> SUFFICES ASSUME NEW end, end = FailRun(row) PROVE Fits(p, end)
  OBVIOUS
<1>0. {"persist", "timeout"} \subseteq PC
  BY DEF PC
<1>1. /\ end \in TaskRow /\ end.todo = {} /\ end.attempt = task[p].attempt
      /\ end.pc = IF task[p].attempt # NoAttempt THEN "persist" ELSE "timeout"
      /\ end.status = task[p].status
  <2> DEFINE pc == IF task[p].attempt # NoAttempt THEN "persist" ELSE "timeout"
  <2>1. pc \in PC
    BY <1>0
  <2>2. end = [row EXCEPT !.failing = TRUE, !.lost = FALSE, !.todo = {}, !.known = Idle.known, !.pc = pc]
    BY DEF FailRun
  <2> HIDE DEF pc
  <2>3. /\ end \in TaskRow /\ end.todo = {} /\ end.attempt = row.attempt
        /\ end.pc = pc /\ end.status = row.status
    BY <2>1, <2>2, IdleType DEF TaskRow
  <2> QED BY <2>3 DEF pc
<1>2. CASE task[p].attempt = NoAttempt
  BY <1>1, <1>2, TaskFacts, PlainFits DEF Attempting, Reported
<1>3. CASE task[p].attempt # NoAttempt
  <2>1. task[p].pc \in Attempting \ {"execute"} /\ end.pc \in Attempting \ {"execute"}
    BY <1>1, <1>3, TaskFacts DEF Attempting
  <2> QED BY <1>1, <2>1, AttemptFits
<1> QED BY <1>2, <1>3

LEMMA ThrowsFits ==
    ASSUME IInv, NEW p \in Tasks, task[p].pc # "execute"
    PROVE  Fits(p, Throws(task[p]))
<1>1. CASE task[p].failing
  <2>1. "failed" \in (RunOutcome \union {"none", "overlap", "threw"}) \ {"succeeded", "no_change"}
    BY DEF RunOutcome
  <2> QED BY <1>1, <2>1, DoneFits DEF Throws
<1>2. CASE ~task[p].failing
  <2>1. task[p] \in TaskRow /\ ~(task[p].attempt # NoAttempt /\ task[p].attempt.outcome = "running")
    BY TaskFacts DEF RowType
  <2>2. [task[p] EXCEPT !.attempt = task[p].attempt] = task[p]
    BY <2>1 DEF TaskRow
  <2>3. Throws(task[p]) = FailRun(task[p])
    BY <1>2, <2>1, <2>2 DEF Throws
  <2> QED BY <2>1, <2>3, FailFits
<1> QED BY <1>1, <1>2

\* A task without an attempt that goes on, fails or is done.
LEMMA FreeFits ==
    ASSUME IInv, NEW p \in Tasks, task[p].pc \notin Attempting
    PROVE  /\ \A pc \in PC \ Attempting : Fits(p, To(task[p], pc))
           /\ \A pc \in PC \ Attempting : \A c \in Cuts \union {NoCut} :
                  Fits(p, [task[p] EXCEPT !.pc = pc, !.cut = c])
           /\ Fits(p, Throws(task[p])) /\ Fits(p, FailRun(task[p]))
           /\ Fits(p, Done("threw")) /\ Fits(p, Done("overlap"))
<1>0. task[p].attempt = NoAttempt /\ task[p] \in TaskRow /\ task[p].pc # "execute"
  BY TaskFacts DEF Attempting
<1>1. ASSUME NEW pc \in PC \ Attempting PROVE Fits(p, To(task[p], pc))
  <2>1. task[p].cut \in Cuts \union {NoCut}
    BY <1>0 DEF TaskRow
  <2> QED BY <1>0, <2>1, ToFits
<1>2. ASSUME NEW pc \in PC \ Attempting, NEW c \in Cuts \union {NoCut}
      PROVE  Fits(p, [task[p] EXCEPT !.pc = pc, !.cut = c])
  BY <1>0, ToFits
<1>3. Fits(p, Throws(task[p])) /\ Fits(p, FailRun(task[p]))
  BY <1>0, ThrowsFits, FailFits
<1>4. Fits(p, Done("threw")) /\ Fits(p, Done("overlap"))
  BY DoneFits DEF RunOutcome
<1> QED BY <1>1, <1>2, <1>3, <1>4

-----------------------------------------------------------------------------
(* The steps before the loop *)

FreeOps == Op \ {"start", "finish_attempt", "finish_run", "mutate"}

LEMMA AskKept ==
    ASSUME IInv, NEW p \in Tasks, NEW op \in FreeOps,
           NEW ok, NEW err, Call(p, Request(p, op), ok, err), Fits(p, err), Fits(p, ok)
    PROVE  IInv'
<1> DEFINE r == Request(p, op)
<1>1. RequestType(r) /\ RequestInv(r) /\ Lone(r) /\ r.op # "mutate" /\ Call(p, r, ok, err)
  BY Asks DEF FreeOps
<1> HIDE DEF r
<1> QED BY <1>1, FitCallKept

LEMMA AfterRenewalFits ==
    ASSUME IInv, NEW p \in Tasks, task[p].pc \notin Attempting
    PROVE  Fits(p, AfterRenewal(task[p]))
<1>1. {"acquire", "replay"} \subseteq PC \ Attempting
  BY DEF PC, Attempting
<1> QED BY <1>1, FreeFits DEF AfterRenewal

LEMMA RenewKept ==
    ASSUME IInv, NEW p \in Tasks, Renew(p) \/ Reclaim(p)
    PROVE  IInv'
<1>0. task[p].pc \notin Attempting
  BY DEF Renew, Reclaim, At, Attempting
<1>1. "reclaim" \in PC \ Attempting /\ {"renew", "claim"} \subseteq FreeOps
  BY DEF PC, Attempting, FreeOps, Op
<1>2. /\ Fits(p, AfterRenewal(task[p])) /\ Fits(p, FailRun(task[p]))
      /\ Fits(p, To(task[p], "reclaim")) /\ Fits(p, Done("threw"))
  BY <1>0, <1>1, FreeFits, AfterRenewalFits
<1>3. CASE Renew(p)
  <2> DEFINE ok == IF HoldsRun(db, Key(p), Me(p), now) THEN AfterRenewal(task[p]) ELSE FailRun(task[p])
  <2>1. Fits(p, ok)
    BY <1>2
  <2>2. Call(p, Request(p, "renew"), ok, To(task[p], "reclaim"))
    BY <1>3 DEF Renew
  <2> HIDE DEF ok
  <2> QED BY <1>1, <1>2, <2>1, <2>2, AskKept
<1>4. CASE Reclaim(p)
  <2>2. Call(p, Request(p, "claim"), AfterRenewal(task[p]), Done("threw"))
    BY <1>4 DEF Reclaim
  <2> QED BY <1>1, <1>2, <2>2, AskKept
<1> QED BY <1>3, <1>4

LEMMA SourceKept ==
    ASSUME IInv, NEW p \in Tasks,
           \/ AcquireSource(p) \/ CompleteSource(p) \/ Bind(p) \/ FailSource(p)
    PROVE  IInv'
<1>0. task[p].pc \notin Attempting
  BY DEF AcquireSource, CompleteSource, Bind, FailSource, At, Attempting
<1>1. /\ {"build", "adopt", "bind_built", "fail_source", "timeout"} \subseteq PC \ Attempting
      /\ {"acquire", "complete", "bind", "fail_source"} \subseteq FreeOps
  BY DEF PC, Attempting, FreeOps, Op
<1>2. Fits(p, Throws(task[p])) /\ Fits(p, To(task[p], "fail_source")) /\ Fits(p, To(task[p], "timeout"))
  BY <1>0, <1>1, FreeFits
<1>3. CASE AcquireSource(p)
  <2> DEFINE pc == IF Acquires(db.source, SourceOf[Key(p)], Me(p), now) THEN "build" ELSE "adopt"
  <2>1. Fits(p, To(task[p], pc))
    BY <1>0, <1>1, FreeFits
  <2>2. Call(p, Request(p, "acquire"), To(task[p], pc), Throws(task[p]))
    BY <1>3 DEF AcquireSource
  <2> HIDE DEF pc
  <2> QED BY <1>1, <1>2, <2>1, <2>2, AskKept
<1>4. CASE CompleteSource(p)
  <2> DEFINE pc == IF Completes(db.source, SourceOf[Key(p)], Me(p), task[p].cut, now)
                   THEN "bind_built" ELSE "fail_source"
  <2>1. Fits(p, To(task[p], pc))
    BY <1>0, <1>1, FreeFits
  <2>2. Call(p, Request(p, "complete"), To(task[p], pc), To(task[p], "fail_source"))
    BY <1>4 DEF CompleteSource
  <2> HIDE DEF pc
  <2> QED BY <1>1, <1>2, <2>1, <2>2, AskKept
<1>5. CASE Bind(p)
  <2> DEFINE error == IF At(p, "bind_built") THEN To(task[p], "fail_source") ELSE Throws(task[p])
             ok == IF Binds(db, Key(p), Me(p), SourceOf[Key(p)], task[p].cut, now)
                   THEN To(task[p], "timeout") ELSE error
  <2>1. Fits(p, error) /\ Fits(p, ok)
    BY <1>2
  <2>2. Call(p, Request(p, "bind"), ok, error)
    BY <1>5 DEF Bind
  <2> HIDE DEF ok, error
  <2> QED BY <1>1, <2>1, <2>2, AskKept
<1>6. CASE FailSource(p)
  <2>1. Call(p, Request(p, "fail_source"), Throws(task[p]), Throws(task[p]))
    BY <1>6 DEF FailSource
  <2> QED BY <1>1, <1>2, <2>1, AskKept
<1> QED BY <1>3, <1>4, <1>5, <1>6

LEMMA CutKept ==
    ASSUME IInv, NEW p \in Tasks, Adopt(p) \/ Build(p) \/ Replay(p)
    PROVE  IInv'
<1>0. task[p].pc \notin Attempting
  BY DEF Adopt, Build, Replay, At, Attempting
<1>1. {"bind_adopted", "complete", "fail_source", "timeout"} \subseteq PC \ Attempting
  BY DEF PC, Attempting
<1>2. Fits(p, Throws(task[p])) /\ Fits(p, To(task[p], "fail_source")) /\ Fits(p, To(task[p], "timeout"))
  BY <1>0, <1>1, FreeFits
<1>3. CASE Adopt(p)
  <2> DEFINE c == db.source[SourceOf[Key(p)]].cut
             adopted == [task[p] EXCEPT !.pc = "bind_adopted", !.cut = c]
  <2>1. c \in Cuts \union {NoCut}
    BY KeyType, HydrationRunAssumption
       DEF IInv, TypeInv, TypeOK, Database, SourceTable, SourceRow, KeyFacts
  <2>2. Fits(p, adopted)
    BY <1>0, <1>1, <2>1, FreeFits
  <2>3. \/ Goes(p, adopted) \/ Goes(p, Throws(task[p])) \/ ReadFails(p, Throws(task[p]))
    BY <1>3 DEF Adopt
  <2> HIDE DEF adopted
  <2> QED BY <1>2, <2>2, <2>3, StepsKept
<1>4. CASE Build(p)
  <2>1. CASE \E c \in Cuts : Goes(p, [task[p] EXCEPT !.pc = "complete", !.cut = c])
    <3>1. PICK c \in Cuts : Goes(p, [task[p] EXCEPT !.pc = "complete", !.cut = c])
      BY <2>1
    <3>2. Fits(p, [task[p] EXCEPT !.pc = "complete", !.cut = c])
      BY <1>0, <1>1, FreeFits
    <3> QED BY <3>1, <3>2, StepsKept
  <2>2. CASE ReadFails(p, To(task[p], "fail_source"))
    BY <1>2, <2>2, StepsKept
  <2> QED BY <1>4, <2>1, <2>2 DEF Build
<1>5. CASE Replay(p)
  <2>1. \/ Goes(p, To(task[p], "timeout")) \/ Goes(p, Throws(task[p])) \/ ReadFails(p, Throws(task[p]))
    BY <1>5 DEF Replay
  <2> QED BY <1>2, <2>1, StepsKept
<1> QED BY <1>3, <1>4, <1>5

LEMMA TimeoutKept ==
    ASSUME IInv, NEW p \in Tasks, TimeoutAttempts(p)
    PROVE  IInv'
<1>0. task[p].pc \notin Attempting
  BY DEF TimeoutAttempts, At, Attempting
<1>1. "list" \in PC \ Attempting /\ "timeout" \in FreeOps
  BY DEF PC, Attempting, FreeOps, Op
<1>2. Fits(p, Throws(task[p])) /\ Fits(p, To(task[p], "list"))
  BY <1>0, <1>1, FreeFits
<1>3. Call(p, Request(p, "timeout"), To(task[p], "list"), Throws(task[p]))
  BY DEF TimeoutAttempts
<1> QED BY <1>1, <1>2, <1>3, AskKept

\* A refused claim reports the success that is stored.
LEMMA ClaimKept ==
    ASSUME IInv, NEW p \in Tasks, Claim(p)
    PROVE  IInv'
<1> DEFINE d == AfterClaim(db, Key(p), Me(p), now)
           after == d.run[Key(p)]
           row == [task[p] EXCEPT !.cut = after.cut]
           status == IF after.status = "terminal" THEN after.outcome ELSE "overlap"
           r == Request(p, "claim")
<1>0. /\ Key(p) \in Runs /\ Me(p) \in Owners /\ now \in Nat /\ DbInv(db) /\ db \in Database
      /\ task[p].pc \notin Attempting /\ task[p].attempt = NoAttempt /\ task[p].pc # "execute"
      /\ task[p] \in TaskRow
  BY KeyType, TaskFacts DEF KeyFacts, IInv, TypeInv, TypeOK, DbInv, Claim, At, Attempting
<1>1. after.cut \in Cuts \union {NoCut} /\ after.outcome \in RunOutcome \union {"none"}
  <2>1. d \in Database
    BY <1>0, ClaimType
  <2> HIDE DEF d
  <2> QED BY <1>0, <2>1 DEF Database, RunRow
<1>2. "claim" \in FreeOps /\ "renew" \in PC \ Attempting
  BY DEF FreeOps, Op, PC, Attempting
<1>3. Fits(p, Done("threw"))
  BY <1>0, FreeFits
<1>4. PICK next \in IF ClaimAcquired(db, Key(p), Me(p), now) THEN {To(row, "renew"), FailRun(row)}
                    ELSE {Done(status)} :
          Call(p, r, next, Done("threw"))
  BY DEF Claim
<1> HIDE DEF after
<1>5. CASE next \in {To(row, "renew"), FailRun(row)}
  <2>1. Fits(p, To(row, "renew"))
    BY <1>0, <1>1, <1>2, ToFits
  <2>2. /\ row \in TaskRow /\ row.attempt = task[p].attempt /\ row.status = task[p].status
    BY <1>0, <1>1 DEF TaskRow
  <2> HIDE DEF row
  <2>3. Fits(p, FailRun(row))
    BY <1>0, <2>2, FailFits
  <2> QED BY <1>2, <1>3, <1>4, <1>5, <2>1, <2>3, AskKept
<1>6. CASE next = Done(status)
  <2>1. status \in RunOutcome \union {"none", "overlap", "threw"}
    BY <1>1
  <2>2. ASSUME Commit(r, now) PROVE Reported(p, next)'
    <3>1. r.op = "claim" /\ r.run = Key(p) /\ r.owner = Me(p)
      BY DEF Request
    <3>2. db' = d
      BY <2>2, <3>1 DEF Commit
    <3>3. next.status = status
      BY <1>6, <2>1, DoneParts
    <3> HIDE DEF d
    <3> QED BY <3>2, <3>3 DEF Reported, after
  <2> HIDE DEF status
  <2>3. /\ next \in TaskRow /\ next.pc \notin Attempting /\ next.attempt = NoAttempt /\ next.todo = {}
    BY <1>6, <2>1, DoneParts DEF Attempting
  <2>4. RowType(next) /\ Continues(p, next) /\ RowInv(Key(p), next)'
    BY <2>3 DEF RowType, Continues, RowInv, OnElt, Attempting
  <2>5. RequestType(r) /\ RequestInv(r) /\ Lone(r) /\ r.op # "mutate"
    BY <1>2, Asks DEF FreeOps
  <2> HIDE DEF r
  <2> QED BY <1>3, <1>4, <2>2, <2>4, <2>5, CallKept
<1> QED BY <1>4, <1>5, <1>6

-----------------------------------------------------------------------------
(* The steps of the loop *)

\* What prepareHydrationResume leaves to do has been settled.
LEMMA RetryableClean ==
    ASSUME NEW k \in Runs, LogInv(k), db \in Database, Elt \notin NotRetryable(k, db.attempts[k])
    PROVE  Clean(k, Len(Log(k)) + 1)
<1>1. Len(Log(k)) \in Nat /\ DOMAIN Log(k) = 1..Len(Log(k)) /\ db.attempts[k][Elt] = Log(k)
  BY LogType, HydrationRunAssumption DEF Log
<1>2. /\ \A n \in 1..Len(Log(k)) : Row(k, Elt, n) \notin counted
      /\ Latest(Log(k)) \notin Unsettled
  BY <1>1 DEF NotRetryable, Unsettled
<1>3. Len(Log(k)) > 0 => Log(k)[Len(Log(k))] \notin Unsettled
  BY <1>1, <1>2 DEF Latest
<1>4. \A m \in 1..(Len(Log(k)) - 1) : Log(k)[m] \notin Unsettled
  BY DEF LogInv, Clean
<1>5. PICK len \in Nat : len = Len(Log(k))
  BY <1>1
<1>6. ASSUME NEW m \in 1..((len + 1) - 1)
      PROVE  m \in 1..len /\ Log(k)[m] \notin Unsettled /\ Row(k, Elt, m) \notin counted
  <2>1. m \in 1..len /\ (m = len \/ m \in 1..(len - 1)) /\ len > 0
    BY <1>6
  <2> QED BY <1>2, <1>3, <1>4, <1>5, <2>1
<1> QED BY <1>5, <1>6 DEF Clean

LEMMA ListKept ==
    ASSUME IInv, NEW p \in Tasks, ListAttempts(p)
    PROVE  IInv'
<1> DEFINE logs == db.attempts[Key(p)]
           certified == {a \in Wanted(p) : Latest(logs[a]) \in CertifiedOutcome}
           left == (Wanted(p) \ certified) \ NotRetryable(Key(p), logs)
           sealing == [task[p] EXCEPT !.pc = "seal", !.known = logs]
           looping == [task[p] EXCEPT !.pc = "loop", !.known = logs, !.todo = left]
<1>0. /\ Key(p) \in Runs /\ db \in Database /\ task[p].pc \notin Attempting /\ task[p].attempt = NoAttempt
      /\ task[p] \in TaskRow /\ LogInv(Key(p)) /\ Reported(p, task[p])
      /\ task[p].failing => task[p].todo = {}
  BY KeyType, TaskFacts
     DEF KeyFacts, IInv, TypeInv, TypeOK, DocInv, RowType, ListAttempts, At, Attempting
<1>1. logs \in [Artifacts -> Seq(AttemptStatus)] /\ left \subseteq Artifacts
  BY <1>0, HydrationRpcAssumption DEF Database, Wanted, Key
<1>2. {"seal", "loop"} \subseteq PC \ Attempting
  BY DEF PC, Attempting
<1>3. Elt \in left => Clean(Key(p), Len(logs[Elt]) + 1)
  BY <1>0, RetryableClean DEF Log
<1>4. \/ task[p].failing /\ Goes(p, sealing)
      \/ ~task[p].failing /\ Goes(p, looping)
      \/ ReadFails(p, Throws(task[p]))
  BY DEF ListAttempts
<1> HIDE DEF left, logs
<1>5. task[p].failing => Fits(p, sealing)
  <2>1. /\ sealing \in TaskRow /\ sealing.pc = "seal" /\ sealing.attempt = NoAttempt
        /\ sealing.todo = task[p].todo /\ sealing.status = task[p].status
    BY <1>0, <1>1, <1>2 DEF TaskRow
  <2> HIDE DEF sealing
  <2> QED BY <1>0, <1>2, <2>1, PlainFits DEF Reported
<1>6. ~task[p].failing => Fits(p, looping)
  <2>1. /\ looping \in TaskRow /\ looping.pc = "loop" /\ looping.attempt = NoAttempt
        /\ looping.todo = left /\ looping.known = logs /\ looping.status = task[p].status
        /\ looping.failing = task[p].failing
    BY <1>0, <1>1, <1>2 DEF TaskRow
  <2> HIDE DEF looping
  <2> QED BY <1>0, <1>2, <1>3, <2>1, PlainFits DEF Reported
<1>7. Fits(p, Throws(task[p]))
  BY <1>0, FreeFits
<1> HIDE DEF sealing, looping
<1> QED BY <1>4, <1>5, <1>6, <1>7, StepsKept

LEMMA LoopKept ==
    ASSUME IInv, NEW p \in Tasks, HaltLost(p) \/ EndLoop(p)
    PROVE  IInv'
<1>1. task[p].pc \notin Attempting /\ "seal" \in PC \ Attempting
  BY DEF HaltLost, EndLoop, At, PC, Attempting
<1>2. Fits(p, Throws(task[p])) /\ Fits(p, To(task[p], "seal"))
  BY <1>1, FreeFits
<1>3. Goes(p, Throws(task[p])) \/ Goes(p, To(task[p], "seal"))
  BY DEF HaltLost, EndLoop
<1> QED BY <1>2, <1>3, StepsKept

\* A start that was accepted: the attempt is the newest of its log.
LEMMA StartedLog ==
    ASSUME IInv, NEW k \in Runs, NEW n \in Nat, NEW o, Starts(db, k, Elt, n, o, now),
           db' = AfterStart(db, k, Elt, n, o, now), UNCHANGED <<writes, unknown, net>>
    PROVE  /\ n \in 1..Len(Log(k)') /\ n \notin 1..Len(Log(k))
           /\ Log(k)'[n] = "running"
           /\ Row(k, Elt, n) \notin Mutated'
<1>0. db \in Database /\ Elt \in Artifacts /\ LogInv(k)
  BY HydrationRunAssumption DEF IInv, TypeInv, TypeOK, DocInv
<1>1. Log(k) \in Seq(AttemptStatus) /\ Len(Log(k)) \in Nat /\ n = Len(Log(k)) + 1
  BY <1>0, LogType DEF Log, Starts
<1>2. Log(k)' = Append(Log(k), "running")
  BY <1>0 DEF AfterStart, Log, Database
<1>3. Len(Log(k)') = n /\ Log(k)'[n] = "running"
  <2>1. "running" \in AttemptStatus
    BY DEF AttemptStatus
  <2> QED BY <1>1, <1>2, <2>1, AppendProperties
<1>4. Mutated' = Mutated
  BY DEF Mutated, Sent, Pending
<1>5. Row(k, Elt, n) \notin Mutated
  BY <1>0, <1>1, RowParts DEF LogInv, Mutated
<1> QED BY <1>1, <1>3, <1>4, <1>5

LEMMA StartKept ==
    ASSUME IInv, NEW p \in Tasks, NEW a \in Artifacts, StartAttempt(p, a)
    PROVE  IInv'
<1> DEFINE n == Len(task[p].known[a]) + 1
           x == [artifact |-> a, n |-> n, outcome |-> "running", count |-> "zero"]
           r == [Request(p, "start") EXCEPT !.attempt = x]
           begun == [task[p] EXCEPT !.pc = "execute", !.attempt = x]
           accepted == task[p].cut = db.run[Key(p)].cut /\ Starts(db, Key(p), a, n, Me(p), now)
<1>9. PICK ok : ok = IF accepted THEN begun ELSE Throws(task[p])
  OBVIOUS
<1>0. /\ Key(p) \in Runs /\ Me(p) \in Owners /\ now \in Nat /\ TypeInv /\ DocInv /\ db \in Database
      /\ task[p].pc = "loop" /\ task[p].pc \notin Attempting /\ task[p].attempt = NoAttempt
      /\ task[p] \in TaskRow /\ RowType(task[p]) /\ RowInv(Key(p), task[p]) /\ Reported(p, task[p])
      /\ a \in task[p].todo
  BY KeyType, TaskFacts DEF KeyFacts, IInv, TypeInv, TypeOK, StartAttempt, At, Attempting
<1>1. n \in Nat
  <2>1. task[p].known[a] \in Seq(AttemptStatus)
    BY <1>0 DEF TaskRow
  <2> QED BY <2>1, LenProperties
<1>2. /\ x \in Attempt /\ x # NoAttempt /\ x.artifact = a /\ x.n = n /\ x.outcome = "running"
  <2>1. x \in Attempt
    BY <1>1 DEF Attempt, AttemptStatus, Count
  <2> QED BY <2>1, NoAttemptAssumption
<1>3. Call(p, r, ok, Throws(task[p]))
  BY <1>9 DEF StartAttempt
<1>4. Fits(p, Throws(task[p]))
  BY <1>0, FreeFits
<1> HIDE DEF n, x
<1>5. /\ r.op = "start" /\ r.run = Key(p) /\ r.owner = Me(p) /\ r.cut = task[p].cut /\ r.attempt = x
      /\ r \in RequestRow
  <2>1. task[p].cut \in Cuts \union {NoCut} /\ "start" \in Op
    BY <1>0 DEF TaskRow, Op
  <2> QED BY <1>0, <1>2, <2>1 DEF Request, RequestRow
<1>6. a = Elt => Clean(Key(p), n)
  BY <1>0 DEF RowInv, n
<1> HIDE DEF r
<1>7. RequestType(r) /\ RequestInv(r) /\ Lone(r) /\ r.op # "mutate"
  BY <1>2, <1>5, <1>6 DEF RequestType, RequestInv, Lone
<1>8. ASSUME Commit(r, now), UNCHANGED net
      PROVE  RowType(ok) /\ Continues(p, ok) /\ RowInv(Key(p), ok)' /\ Reported(p, ok)'
  <2>1. Respects(db, db', now) /\ counted' \union unknown' \subseteq Runs \X Artifacts \X Nat /\ writes' = writes /\ unknown \subseteq unknown'
    BY <1>0, <1>5, <1>7, <1>8, CommitStep, CommitTypes DEF TypeInv
  <2>2. NoneNew
    BY <1>8, <2>1 DEF NoneNew, Sent, Pending
  <2>3. \A row \in TaskRow : RowInv(Key(p), row) /\ Continues(p, row) => RowInv(Key(p), row)'
    BY <1>0, <1>7, <1>8, <2>1, <2>2, CommitKept
  <2>4. CASE accepted
    <3>1. /\ begun \in TaskRow /\ begun.pc = "execute" /\ begun.attempt = x
          /\ begun.todo = task[p].todo /\ begun.known = task[p].known /\ begun.status = task[p].status
          /\ begun.failing = task[p].failing
      BY <1>0, <1>2 DEF TaskRow, PC
    <3>2. ok = begun
      BY <1>9, <2>4
    <3> HIDE DEF begun
    <3>3. RowType(ok)
      BY <1>0, <1>2, <3>1, <3>2 DEF RowType, Attempting
    <3>4. Reported(p, ok)'
      <4>1. Reported(p, ok)
        BY <1>0, <3>1, <3>2 DEF Reported
      <4> QED BY <2>1, <4>1, ReportKept
    <3>5. OnElt(ok) => /\ n \in 1..Len(Log(Key(p))') /\ n \notin 1..Len(Log(Key(p)))
                       /\ Log(Key(p))'[n] = "running" /\ Row(Key(p), Elt, n) \notin Mutated'
      <4> SUFFICES ASSUME OnElt(ok)
                   PROVE  /\ n \in 1..Len(Log(Key(p))') /\ n \notin 1..Len(Log(Key(p)))
                          /\ Log(Key(p))'[n] = "running" /\ Row(Key(p), Elt, n) \notin Mutated'
        OBVIOUS
      <4>1. a = Elt
        BY <1>2, <3>1, <3>2 DEF OnElt
      <4>2. db' = AfterStart(db, Key(p), Elt, n, Me(p), now) /\ unknown' = unknown
        BY <1>2, <1>5, <1>8, <2>4, <4>1 DEF Commit
      <4> QED BY <1>0, <1>1, <1>8, <2>1, <2>4, <4>1, <4>2, StartedLog
    <3>6. Continues(p, ok)
      BY <1>2, <3>1, <3>2, <3>5 DEF Continues
    <3>7. Elt \in ok.todo => Clean(Key(p), Len(ok.known[Elt]) + 1)'
      <4>1. PICK row : row = task[p]
        OBVIOUS
      <4>2. row \in TaskRow /\ RowInv(Key(p), row) /\ Continues(p, row)
        BY <1>0, <4>1 DEF Continues
      <4>3. RowInv(Key(p), row)'
        BY <2>3, <4>2
      <4> QED BY <3>1, <3>2, <4>1, <4>3 DEF RowInv
    <3>8. OnElt(ok) => AttemptInv(Key(p), ok)'
      BY <1>2, <3>1, <3>2, <3>5 DEF AttemptInv, Unsettled
    <3> QED BY <3>3, <3>4, <3>6, <3>7, <3>8 DEF RowInv, OnElt
  <2>5. CASE ~accepted
    <3>1. ok = Throws(task[p])
      BY <1>9, <2>5
    <3>2. Fits(p, ok) /\ ok \in TaskRow
      BY <1>4, <3>1 DEF Fits, RowType
    <3>3. RowInv(Key(p), ok)' /\ Reported(p, ok)'
      BY <2>1, <2>3, <3>2, ReportKept DEF Fits
    <3> QED BY <3>2, <3>3 DEF Fits
  <2> QED BY <2>4, <2>5
<1> QED BY <1>3, <1>4, <1>7, <1>8, CallKept

LEMMA ExecuteKept ==
    ASSUME IInv, NEW p \in Tasks, Execute(p)
    PROVE  IInv'
<1> DEFINE r == Request(p, "mutate")
           w == Row(Key(p), task[p].attempt.artifact, task[p].attempt.n)
<1>0. /\ task[p].pc = "execute" /\ RowType(task[p]) /\ RowInv(Key(p), task[p]) /\ Reported(p, task[p])
      /\ faults \in 0..MaxFaults /\ MaxFaults \in Nat
  BY TaskFacts, HydrationRunAssumption DEF Execute, At, IInv, TypeInv, TypeOK
<1>1. ASSUME NEW outcome \in {"no_change", "failed"}, NEW count \in {"zero", "null"},
             outcome = "no_change" => count = "zero", Goes(p, LocalEnd(task[p], outcome, count))
      PROVE  IInv'
  <2>0. outcome \in {"failed"} \union CertifiedOutcome /\ count \in Count
    BY DEF CertifiedOutcome, Count
  <2>1. PICK end : end = LocalEnd(task[p], outcome, count)
    OBVIOUS
  <2>2. /\ EndsLocally(task[p], end, outcome)
        /\ end.attempt.count = IF task[p].attempt.artifact = Elt THEN count ELSE "zero"
    BY <1>0, <2>0, <2>1, LocalEnds
  <2>3. OnElt(end) => OnElt(task[p]) /\ AttemptInv(Key(p), task[p]) /\ end.attempt.count = count
    BY <1>0, <2>2 DEF OnElt, EndsLocally, RowInv, Attempting
  <2>4. RowInv(Key(p), end)
    BY <1>0, <1>1, <2>0, <2>2, <2>3 DEF RowInv, AttemptInv, EndsLocally, Told
  <2>5. Fits(p, end)
    BY <1>0, <2>2, <2>3, <2>4 DEF Fits, Continues, Reported, EndsLocally
  <2> QED BY <1>1, <2>1, <2>5, StepsKept
<1> DEFINE EndsSettled(row, outcome) ==
               /\ EndsLocally(task[p], row, outcome)
               /\ task[p].attempt.artifact = Elt =>
                     \/ row.attempt.count = "positive"
                     \/ outcome = "failed" /\ row.attempt.count = "null"
<1>2. ASSUME NEW row \in Broken(task[p]) PROVE EndsSettled(row, "failed")
  <2>1. PICK count \in {"positive", "null"} : row = LocalEnd(task[p], "failed", count)
    BY <1>2 DEF Broken
  <2>2. count \in Count
    BY DEF Count
  <2> QED BY <1>0, <2>1, <2>2, LocalEnds
<1>3. ASSUME NEW row, row = LocalEnd(task[p], "written", "positive") PROVE EndsSettled(row, "written")
  <2>1. "positive" \in Count /\ "written" \in {"failed"} \union CertifiedOutcome
    BY DEF Count, CertifiedOutcome
  <2> QED BY <1>0, <1>3, <2>1, LocalEnds
<1>4. ASSUME NEW ok \in Broken(task[p]) \union {LocalEnd(task[p], "written", "positive")},
             NEW err \in Broken(task[p]), Call(p, r, ok, err)
      PROVE  IInv'
  <2>1. PICK outcome \in {"failed", "written"} : EndsSettled(ok, outcome)
    BY <1>2, <1>3
  <2>2. EndsSettled(err, "failed")
    BY <1>2
  <2> HIDE DEF EndsSettled
  <2>3. r.op = "mutate" /\ r.run = Key(p) /\ r.attempt = task[p].attempt
    BY DEF Request
  <2>5. faults' \in 0..MaxFaults /\ now' = now
    BY <1>0, <1>4 DEF Call
  <2>6. PICK v : v = w
    OBVIOUS
  <2>7. ASSUME Commit(r, now), UNCHANGED net
        PROVE  /\ UNCHANGED <<db, counted, unknown>> /\ writes' = writes \union {v}
               /\ Sent' \subseteq Sent \union {v}
    BY <2>3, <2>6, <2>7 DEF Commit, Sent, Pending
  <2>8. ASSUME net' = net \union {r} PROVE Pending' \subseteq Pending \union {v}
    BY <2>3, <2>6, <2>8 DEF Pending
  <2>9. CASE Commit(r, now) /\ UNCHANGED net /\ task' = [task EXCEPT ![p] = ok]
    BY <1>0, <2>1, <2>5, <2>6, <2>7, <2>9, MutationKept DEF EndsSettled
  <2>10. CASE Commit(r, now) /\ UNCHANGED net /\ task' = [task EXCEPT ![p] = err]
    BY <1>0, <2>2, <2>5, <2>6, <2>7, <2>10, MutationKept DEF EndsSettled
  <2>11. CASE UNCHANGED <<store, net>> /\ task' = [task EXCEPT ![p] = err]
    <3>1. Sent' = Sent /\ UNCHANGED <<db, counted, unknown, writes>>
      BY <2>11 DEF Sent, Pending, store
    <3> QED BY <1>0, <2>2, <2>5, <2>6, <2>11, <3>1, MutationKept DEF EndsSettled
  <2>12. CASE net' = net \union {r} /\ UNCHANGED store /\ task' = [task EXCEPT ![p] = err]
    <3>1. Sent' \subseteq Sent \union {v} /\ UNCHANGED <<db, counted, unknown, writes>>
      BY <2>8, <2>12 DEF Sent, store
    <3> QED BY <1>0, <2>2, <2>5, <2>6, <2>12, <3>1, MutationKept DEF EndsSettled
  <2> QED BY <1>4, <2>9, <2>10, <2>11, <2>12 DEF Call
<1>5. \/ Goes(p, LocalEnd(task[p], "no_change", "zero"))
      \/ \E count \in {"zero", "null"} : Goes(p, LocalEnd(task[p], "failed", count))
      \/ \E ok \in Broken(task[p]) \union {LocalEnd(task[p], "written", "positive")},
            err \in Broken(task[p]) : Call(p, r, ok, err)
  BY DEF Execute
<1> HIDE DEF r
<1> QED BY <1>1, <1>4, <1>5

-----------------------------------------------------------------------------
(* The steps that store an attempt *)

\* The request to finish the attempt of the task tells the truth of it.
LEMMA AsksFinish ==
    ASSUME IInv, NEW p \in Tasks, task[p].pc \in Attempting \ {"execute"}
    PROVE  LET r == Request(p, "finish_attempt")
           IN  RequestType(r) /\ RequestInv(r) /\ Lone(r) /\ r.op # "mutate"
<1> DEFINE r == Request(p, "finish_attempt")
<1>0. /\ RowType(task[p]) /\ task[p] \in TaskRow /\ RowInv(Key(p), task[p])
      /\ task[p].attempt # NoAttempt /\ task[p].attempt.outcome # "running"
  BY TaskFacts DEF RowType
<1>1. /\ r.op = "finish_attempt" /\ r.run = Key(p) /\ r.attempt = task[p].attempt /\ r \in RequestRow
  BY <1>0, KeyType DEF Request, RequestRow, KeyFacts, TaskRow, Op
<1> HIDE DEF r
<1>2. RequestType(r)
  BY <1>0, <1>1 DEF RequestType
<1>3. r.attempt.artifact = Elt => OnElt(task[p]) /\ AttemptInv(Key(p), task[p])
  BY <1>0, <1>1 DEF OnElt, RowInv
<1>4. RequestInv(r)
  BY <1>1, <1>3 DEF RequestInv, AttemptInv
<1>5. Lone(r)
  <2> SUFFICES ASSUME r.attempt.artifact = Elt, Executing(r.run, r.attempt.n) PROVE FALSE
    BY DEF Lone
  <2>1. PICK q \in Tasks : /\ task[q].pc = "execute" /\ task[q].attempt.artifact = Elt
                           /\ Key(q) = Key(p) /\ task[q].attempt.n = task[p].attempt.n
    BY <1>1 DEF Executing
  <2>2. OnElt(task[q]) /\ OnElt(task[p]) /\ q # p
    BY <1>3, <2>1 DEF OnElt, Attempting
  <2> QED BY <2>1, <2>2 DEF IInv, DocInv, Exclusive
<1> QED BY <1>1, <1>2, <1>4, <1>5 DEF r

\* The attempt is stored: failRun goes on, or the loop with one artifact less.
LEMMA PersistedFits ==
    ASSUME IInv, NEW p \in Tasks, task[p].pc \in Attempting \ {"execute"}
    PROVE  Fits(p, Persisted(task[p]))
<1> SUFFICES ASSUME NEW end, end = Persisted(task[p]) PROVE Fits(p, end)
  OBVIOUS
<1> DEFINE a == task[p].attempt.artifact
           outcome == task[p].attempt.outcome
           longer == Append(task[p].known[a], outcome)
           left == task[p].todo \ {a}
           known == [task[p].known EXCEPT ![a] = longer]
<1>0. /\ RowType(task[p]) /\ task[p] \in TaskRow /\ RowInv(Key(p), task[p]) /\ Reported(p, task[p])
      /\ task[p].attempt \in Attempt
  <2>1. RowType(task[p]) /\ task[p] \in TaskRow /\ RowInv(Key(p), task[p]) /\ Reported(p, task[p])
        /\ task[p].attempt # NoAttempt
    BY TaskFacts
  <2> QED BY <2>1 DEF TaskRow
<1>1. a \in Artifacts /\ outcome \in AttemptStatus
  BY <1>0 DEF Attempt
<1>2. {"loop", "timeout"} \subseteq PC \ Attempting
  BY DEF PC, Attempting
<1>3. CASE task[p].failing
  <2>1. end = [task[p] EXCEPT !.pc = "timeout", !.attempt = NoAttempt]
    BY <1>3 DEF Persisted
  <2>2. /\ end \in TaskRow /\ end.pc = "timeout" /\ end.attempt = NoAttempt
        /\ end.todo = task[p].todo /\ end.status = task[p].status /\ end.failing = task[p].failing
    BY <1>0, <1>2, <2>1 DEF TaskRow
  <2> QED BY <1>0, <1>2, <1>3, <2>2, PlainFits DEF RowType, Reported
<1>4. CASE ~task[p].failing
  <2>1. end = [task[p] EXCEPT !.pc = "loop", !.attempt = NoAttempt, !.todo = left, !.known = known]
    BY <1>0, <1>4 DEF Persisted, TaskRow
  <2>2. /\ known \in [Artifacts -> Seq(AttemptStatus)] /\ left \subseteq Artifacts
        /\ \A b \in Artifacts \ {a} : known[b] = task[p].known[b]
    BY <1>0, <1>1 DEF TaskRow
  <2> HIDE DEF known, left
  <2>3. /\ end \in TaskRow /\ end.pc = "loop" /\ end.attempt = NoAttempt
        /\ end.todo = left /\ end.status = task[p].status /\ end.failing = task[p].failing
        /\ end.known = known
    BY <1>0, <1>2, <2>1, <2>2 DEF TaskRow
  <2>4. Elt \in left => Elt \in task[p].todo /\ known[Elt] = task[p].known[Elt]
    BY <2>2 DEF left
  <2>5. Elt \in end.todo => Clean(Key(p), Len(end.known[Elt]) + 1)
    BY <1>0, <2>3, <2>4 DEF RowInv
  <2>6. Reported(p, end)
    BY <1>0, <2>3 DEF Reported
  <2> QED BY <1>2, <1>4, <2>3, <2>5, <2>6, PlainFits
<1> QED BY <1>3, <1>4

\* The attempt is not stored yet.
LEMMA PersistingFits ==
    ASSUME IInv, NEW p \in Tasks, task[p].pc \in Attempting \ {"execute"},
           NEW pc \in Attempting \ {"execute"}
    PROVE  Fits(p, To(task[p], pc))
<1>1. task[p] \in TaskRow /\ pc \in PC
  BY TaskFacts DEF PC, Attempting
<1>2. PICK row : row = To(task[p], pc)
  OBVIOUS
<1>3. /\ row \in TaskRow /\ row.pc = pc /\ row.attempt = task[p].attempt /\ row.status = task[p].status
      /\ row.todo = task[p].todo /\ row.known = task[p].known /\ row.failing = task[p].failing
  BY <1>1, <1>2 DEF To, TaskRow
<1> QED BY <1>2, <1>3, AttemptFits

LEMMA PersistKept ==
    ASSUME IInv, NEW p \in Tasks,
           Persist(p) \/ Reread(p) \/ PersistAgain(p) \/ RereadAgain(p)
    PROVE  IInv'
<1>0. task[p].pc \in Attempting \ {"execute"} /\ task[p].pc # "execute"
  BY DEF Persist, Reread, PersistAgain, RereadAgain, At, Attempting
<1>1. /\ Fits(p, Persisted(task[p])) /\ Fits(p, Throws(task[p]))
      /\ Fits(p, To(task[p], "reread")) /\ Fits(p, To(task[p], "persist_again"))
      /\ Fits(p, To(task[p], "reread_again"))
  <2>1. {"reread", "persist_again", "reread_again"} \subseteq Attempting \ {"execute"}
    BY DEF Attempting
  <2> QED BY <1>0, <2>1, PersistedFits, PersistingFits, ThrowsFits
<1>2. CASE Persist(p) \/ PersistAgain(p)
  <2> DEFINE r == Request(p, "finish_attempt")
  <2>1. PICK ok, err : Call(p, r, ok, err) /\ Fits(p, ok) /\ Fits(p, err)
    <3>1. CASE Persist(p)
      <4> DEFINE ok == IF Finishes(p) THEN Persisted(task[p]) ELSE To(task[p], "reread")
      <4>1. Call(p, r, ok, To(task[p], "reread"))
        BY <3>1 DEF Persist
      <4>2. Fits(p, ok)
        BY <1>1
      <4> HIDE DEF ok
      <4> QED BY <1>1, <4>1, <4>2
    <3>2. CASE PersistAgain(p)
      <4> DEFINE ok == IF Finishes(p) THEN Persisted(task[p]) ELSE To(task[p], "reread_again")
      <4>1. Call(p, r, ok, Throws(task[p]))
        BY <3>2 DEF PersistAgain
      <4>2. Fits(p, ok)
        BY <1>1
      <4> HIDE DEF ok
      <4> QED BY <1>1, <4>1, <4>2
    <3> QED BY <1>2, <3>1, <3>2
  <2>2. RequestType(r) /\ RequestInv(r) /\ Lone(r) /\ r.op # "mutate"
    BY <1>0, AsksFinish
  <2> HIDE DEF r
  <2> QED BY <2>1, <2>2, FitCallKept
<1>3. CASE Reread(p) \/ RereadAgain(p)
  <2>1. PICK row : Fits(p, row) /\ (Goes(p, row) \/ ReadFails(p, row))
    BY <1>1, <1>3 DEF Reread, RereadAgain
  <2> QED BY <2>1, StepsKept
<1> QED BY <1>2, <1>3

-----------------------------------------------------------------------------
(* The end of a run, and the environment *)

LEMMA SealKept ==
    ASSUME IInv, NEW p \in Tasks, Seal(p)
    PROVE  IInv'
<1> DEFINE r(outcome) == [Request(p, "finish_run") EXCEPT !.outcome = outcome]
<1>0. /\ Key(p) \in Runs /\ Me(p) \in Owners /\ now \in Nat /\ TypeInv /\ DocInv /\ DbInv(db)
      /\ db \in Database /\ task[p].pc \notin Attempting /\ task[p] \in TaskRow
      /\ task[p].attempt = NoAttempt
  BY KeyType, TaskFacts DEF KeyFacts, IInv, TypeInv, TypeOK, Seal, At, Attempting
<1>1. PICK outcome : /\ outcome = Aggregate(task[p].known, Wanted(p))
                     /\ Call(p, r(outcome), AfterSeal(p, outcome), Throws(task[p]))
  BY DEF Seal
<1>2. outcome \in RunOutcome /\ outcome # "none"
  <2>1. outcome \in RunOutcome
    BY <1>1, AggregateType
  <2> QED BY <2>1 DEF RunOutcome
<1>3. PICK req : req = r(outcome)
  OBVIOUS
<1>4. PICK ok : ok = AfterSeal(p, outcome)
  OBVIOUS
<1>5. /\ req.op = "finish_run" /\ req.run = Key(p) /\ req.owner = Me(p) /\ req.outcome = outcome
      /\ req \in RequestRow
  <2>1. task[p].cut \in Cuts \union {NoCut} /\ "finish_run" \in Op
    BY <1>0 DEF TaskRow, Op
  <2> QED BY <1>0, <1>2, <1>3, <2>1 DEF Request, RequestRow
<1>6. RequestType(req) /\ RequestInv(req) /\ Lone(req) /\ req.op # "mutate"
  BY <1>2, <1>5 DEF RequestType, RequestInv, Lone
<1>7. Fits(p, Throws(task[p]))
  BY <1>0, FreeFits
<1>8. ASSUME Commit(req, now), UNCHANGED net
      PROVE  RowType(ok) /\ Continues(p, ok) /\ RowInv(Key(p), ok)' /\ Reported(p, ok)'
  <2>1. CASE FinishesRun(db, Key(p), Me(p), outcome, now)
    <3>1. ok = Done(outcome)
      BY <1>4, <2>1 DEF AfterSeal
    <3>2. /\ ok \in TaskRow /\ ok.pc = "done" /\ ok.attempt = NoAttempt
          /\ ok.todo = {} /\ ok.status = outcome
      BY <1>2, <3>1, DoneParts
    <3>3. db' = AfterFinishRun(db, Key(p), Me(p), outcome, now)
      BY <1>5, <1>8 DEF Commit
    <3>4. db'.run[Key(p)].status = "terminal" /\ db'.run[Key(p)].outcome = outcome
      BY <1>0, <2>1, <3>3 DEF AfterFinishRun, WithRun, Ended, Database, RunRow
    <3> QED BY <3>2, <3>4 DEF RowType, Continues, RowInv, OnElt, Attempting, Reported
  <2>2. CASE ~FinishesRun(db, Key(p), Me(p), outcome, now)
    <3>1. Fits(p, ok)
      BY <1>4, <1>7, <2>2 DEF AfterSeal
    <3>2. Respects(db, db', now) /\ counted' \union unknown' \subseteq Runs \X Artifacts \X Nat /\ writes' = writes /\ unknown \subseteq unknown'
      BY <1>0, <1>5, <1>6, <1>8, CommitStep, CommitTypes
    <3>3. NoneNew
      BY <1>8, <3>2 DEF NoneNew, Sent, Pending
    <3> QED BY <1>0, <1>6, <1>8, <3>1, <3>2, <3>3, CommitKept, ReportKept DEF Fits, RowType
  <2> QED BY <2>1, <2>2
<1> HIDE DEF r
<1> QED BY <1>1, <1>3, <1>4, <1>6, <1>7, <1>8, CallKept

\* A task keeps what it does when its lease is found lost.
LEMMA HeartbeatKept ==
    ASSUME IInv, NEW p \in Tasks, Heartbeat(p)
    PROVE  IInv'
<1>0. /\ task \in [Tasks -> TaskRow] /\ RowType(task[p]) /\ RowInv(Key(p), task[p])
      /\ Reported(p, task[p]) /\ task[p] \in TaskRow
  BY TaskFacts DEF IInv, TypeInv, TypeOK
<1>1. PICK held \in BOOLEAN : /\ db' = AfterRunHeartbeat(db, Key(p), Me(p), now)
                              /\ task' = [task EXCEPT ![p].lost = ~held]
                              /\ UNCHANGED <<now, counted, unknown, writes, net, faults>>
  <2>1. HoldsRun(db, Key(p), Me(p), now) \in BOOLEAN
    BY DEF HoldsRun, Active
  <2> QED BY <2>1 DEF Heartbeat
<1>2. PICK lost \in BOOLEAN : lost = ~held
  OBVIOUS
<1>3. PICK row : row = [task[p] EXCEPT !.lost = lost]
  OBVIOUS
<1>4. task' = [task EXCEPT ![p] = row]
  BY <1>0, <1>1, <1>2, <1>3
<1>5. /\ row \in TaskRow /\ row.pc = task[p].pc /\ row.attempt = task[p].attempt
      /\ row.status = task[p].status /\ row.todo = task[p].todo /\ row.known = task[p].known
      /\ row.failing = task[p].failing
  BY <1>0, <1>3 DEF TaskRow
<1>6. Fits(p, row)
  <2>1. RowType(row) /\ Reported(p, row)
    BY <1>0, <1>5 DEF RowType, Reported
  <2>2. RowInv(Key(p), row) /\ Continues(p, row)
    BY <1>0, <1>5 DEF RowInv, OnElt, AttemptInv, Continues
  <2> QED BY <2>1, <2>2 DEF Fits
<1>7. Commit(Request(p, "renew"), now)
  BY <1>1 DEF Commit, Request
<1>8. Call(p, Request(p, "renew"), row, row)
  BY <1>1, <1>4, <1>7 DEF Call
<1>9. "renew" \in FreeOps
  BY DEF FreeOps, Op
<1> QED BY <1>6, <1>8, <1>9, AskKept

\* A step that touches neither an attempt nor a task.
LEMMA QuietKept ==
    ASSUME IInv, DbInv(db'), Respects(db, db', now), db'.attempts = db.attempts,
           UNCHANGED <<counted, unknown, writes, net, task, faults>>, now' \in 0..MaxTime
    PROVE  IInv'
<1>1. TypeInv'
  BY DEF IInv, TypeInv, TypeOK, DbInv
<1>2. Pending' = Pending
  BY DEF Pending
<1>3. \A k, x : Told(k, x) => Told(k, x)'
  BY <1>2 DEF Told, Mutated, Sent
<1>4. \A k, n : Clean(k, n) => Clean(k, n)'
  BY DEF Clean, Log
<1>5. \A k \in Runs : LogInv(k)'
  BY <1>2, <1>4 DEF IInv, DocInv, LogInv, EntryInv, Mutated, Sent, Log
<1>6. \A k, q : RowInv(k, q) => RowInv(k, q)'
  BY <1>2, <1>3, <1>4 DEF RowInv, AttemptInv, Mutated, Sent, Log, OnElt
<1>7. \A q : RequestInv(q) => RequestInv(q)'
  BY <1>3, <1>4 DEF RequestInv, Log
<1>8. Exclusive'
  BY DEF IInv, DocInv, Exclusive, Lone, Executing, OnElt
<1>9. DocInv'
  BY <1>5, <1>6, <1>7, <1>8 DEF IInv, DocInv
<1>10. \A p \in Tasks : Reported(p, task[p])'
  <2> SUFFICES ASSUME NEW p \in Tasks PROVE Reported(p, task[p])'
    OBVIOUS
  <2>1. PICK row : row = task[p]
    OBVIOUS
  <2> QED BY <2>1, ReportKept DEF IInv
<1> QED BY <1>1, <1>9, <1>10 DEF IInv

LEMMA HeartbeatSourceKept ==
    ASSUME IInv, NEW p \in Tasks, HeartbeatSource(p)
    PROVE  IInv'
<1>0. /\ SourceOf[Key(p)] \in SourceIds /\ Me(p) \in Owners /\ now \in Nat /\ DbInv(db)
      /\ db.source \in SourceTable /\ now \in 0..MaxTime
  BY KeyType, HydrationRunAssumption DEF KeyFacts, IInv, TypeInv, TypeOK, Database
<1> DEFINE src == AfterSourceHeartbeat(db.source, SourceOf[Key(p)], Me(p), now)
<1>1. src \in SourceTable
  BY <1>0, SourceHeartbeatType
<1>2. \A s \in SourceIds : db.source[s].status = "completed" => src[s] = db.source[s]
  BY <1>0 DEF AfterSourceHeartbeat, HoldsSource, SourceTable
<1>3. db' = [db EXCEPT !.source = src] /\ UNCHANGED <<now, counted, unknown, writes, net, task, faults>>
  BY DEF HeartbeatSource
<1> HIDE DEF src
<1>4. DbInv(db') /\ Respects(db, db', now) /\ db'.attempts = db.attempts
  BY <1>0, <1>1, <1>2, <1>3, SourceCommit
<1> QED BY <1>0, <1>3, <1>4, QuietKept

LEMMA TickKept ==
    ASSUME IInv, Tick \/ UNCHANGED vars
    PROVE  IInv'
<1>1. UNCHANGED <<db, counted, unknown, writes, net, task, faults>> /\ now' \in 0..MaxTime
  BY HydrationRunAssumption DEF Tick, vars, store, IInv, TypeInv, TypeOK
<1>2. DbInv(db') /\ Respects(db, db', now)
  BY <1>1, StutterStep DEF IInv, TypeInv
<1> QED BY <1>1, <1>2, QuietKept

LEMMA CrashKept ==
    ASSUME IInv, NEW p \in Tasks, Crash(p)
    PROVE  IInv'
<1>1. PICK row : row = To(Idle, "dead")
  OBVIOUS
<1>2. /\ row \in TaskRow /\ row.pc = "dead" /\ row.attempt = NoAttempt /\ row.todo = {}
      /\ row.status = "none"
  BY <1>1, IdleType DEF To, TaskRow, PC
<1>3. Fits(p, row)
  BY <1>2, PlainFits DEF Reported, Attempting
<1>4. Goes(p, row)
  BY <1>1 DEF Crash, Goes
<1> QED BY <1>3, <1>4, StepsKept

\* A delayed request tells what was true when it was sent, and still is.
LEMMA LateKept ==
    ASSUME IInv, Late
    PROVE  IInv'
<1>1. PICK r \in net : Commit(r, now) /\ net' = net \ {r} /\ UNCHANGED <<now, task, faults>>
  BY DEF Late
<1>0. /\ TypeInv /\ DocInv /\ DbInv(db) /\ now \in Nat
      /\ RequestType(r) /\ RequestInv(r) /\ Lone(r)
  BY DEF IInv, TypeInv, TypeOK, DocInv, Exclusive
<1>2. DbInv(db') /\ Respects(db, db', now)
  BY <1>0, <1>1, CommitStep
<1>3. counted' \union unknown' \union writes' \subseteq Runs \X Artifacts \X Nat /\ writes \subseteq writes'
      /\ unknown \subseteq unknown'
  BY <1>0, <1>1, CommitTypes
<1>4. NoneNew
  <2>1. Pending' \subseteq Pending
    BY <1>1 DEF Pending
  <2>2. writes' \subseteq writes \union Pending
    BY <1>1 DEF Commit, Pending
  <2> QED BY <1>3, <2>1, <2>2 DEF NoneNew, Sent
<1>5. TypeInv'
  BY <1>1, <1>2, <1>3 DEF IInv, TypeInv, TypeOK, DbInv
<1>6. /\ \A k \in Runs : LogInv(k)'
      /\ \A q : RequestType(q) /\ RequestInv(q) => RequestInv(q)'
      /\ \A i \in Tasks : \A q \in TaskRow : RowInv(Key(i), q) /\ Continues(i, q) => RowInv(Key(i), q)'
  BY <1>0, <1>1, <1>3, <1>4, CommitKept
<1>7. \A i \in Tasks : RowInv(Key(i), task[i])' /\ Reported(i, task[i])'
  <2> SUFFICES ASSUME NEW i \in Tasks PROVE RowInv(Key(i), task[i])' /\ Reported(i, task[i])'
    OBVIOUS
  <2>1. PICK row : row = task[i]
    OBVIOUS
  <2>2. row \in TaskRow /\ RowInv(Key(i), row) /\ Continues(i, row) /\ Reported(i, row)
    BY <2>1, TaskFacts DEF Continues
  <2> QED BY <1>1, <1>2, <1>6, <2>1, <2>2, ReportKept
<1>8. Exclusive'
  BY <1>1 DEF IInv, DocInv, Exclusive, Lone, Executing, OnElt
<1>9. DocInv'
  BY <1>0, <1>1, <1>6, <1>7, <1>8 DEF DocInv, TypeInv
<1> QED BY <1>5, <1>7, <1>9 DEF IInv

-----------------------------------------------------------------------------
(* The invariant holds *)

LEMMA InitInv == Init => IInv
<1> SUFFICES ASSUME Init PROVE IInv
  OBVIOUS
<1>0. /\ now = 0 /\ db = EmptyDatabase /\ counted = {} /\ unknown = {} /\ writes = {} /\ net = {}
      /\ task = [p \in Tasks |-> Idle] /\ faults = 0
      /\ MaxTime \in Nat /\ MaxFaults \in Nat /\ Elt \in Artifacts
  BY HydrationRunAssumption DEF Init
<1>1. \A p \in Tasks : task[p] = Idle
  BY <1>0
<1>2. RowType(Idle)
  BY IdleType DEF RowType, Attempting
<1>3. DbInv(db) /\ db \in Database
  BY <1>0, EmptyDatabaseInv, EmptyDatabaseType
<1>4. TypeInv
  BY <1>0, <1>1, <1>2, <1>3, IdleType DEF TypeInv, TypeOK
<1>5. ASSUME NEW k \in Runs PROVE LogInv(k)
  <2>1. Log(k) = <<>>
    BY <1>0, <1>5 DEF Log, EmptyDatabase
  <2>2. Len(Log(k)) = 0
    BY <2>1
  <2>3. Sent \union counted \union unknown = {}
    BY <1>0 DEF Sent, Pending
  <2> QED BY <2>2, <2>3 DEF LogInv, Clean
<1>6. \A p \in Tasks : RowInv(Key(p), task[p]) /\ Reported(p, task[p]) /\ ~OnElt(task[p])
  BY <1>1, IdleType DEF RowInv, OnElt, Attempting, Reported
<1>7. DocInv
  BY <1>0, <1>5, <1>6 DEF DocInv, Exclusive
<1> QED BY <1>4, <1>6, <1>7 DEF IInv

LEMMA StepInv == IInv /\ [Next]_vars => IInv'
<1> SUFFICES ASSUME IInv, [Next]_vars PROVE IInv'
  OBVIOUS
<1>1. CASE Tick \/ UNCHANGED vars
  BY <1>1, TickKept
<1>2. CASE Late
  BY <1>2, LateKept
<1>3. ASSUME NEW p \in Tasks, Step(p) PROVE IInv'
  <2>1. CASE Claim(p)
    BY <2>1, ClaimKept
  <2>2. CASE Renew(p) \/ Reclaim(p)
    BY <2>2, RenewKept
  <2>3. CASE AcquireSource(p) \/ CompleteSource(p) \/ Bind(p) \/ FailSource(p)
    BY <2>3, SourceKept
  <2>4. CASE Adopt(p) \/ Build(p) \/ Replay(p)
    BY <2>4, CutKept
  <2>5. CASE TimeoutAttempts(p)
    BY <2>5, TimeoutKept
  <2>6. CASE ListAttempts(p)
    BY <2>6, ListKept
  <2>7. CASE \E a \in Artifacts : StartAttempt(p, a)
    BY <2>7, StartKept
  <2>8. CASE HaltLost(p) \/ EndLoop(p)
    BY <2>8, LoopKept
  <2>9. CASE Execute(p)
    BY <2>9, ExecuteKept
  <2>10. CASE Persist(p) \/ Reread(p) \/ PersistAgain(p) \/ RereadAgain(p)
    BY <2>10, PersistKept
  <2>11. CASE Seal(p)
    BY <2>11, SealKept
  <2> QED BY <1>3, <2>1, <2>2, <2>3, <2>4, <2>5, <2>6, <2>7, <2>8, <2>9, <2>10, <2>11 DEF Step
<1>4. ASSUME NEW p \in Tasks, Heartbeat(p) \/ HeartbeatSource(p) \/ Crash(p) PROVE IInv'
  BY <1>4, HeartbeatKept, HeartbeatSourceKept, CrashKept
<1> QED BY <1>1, <1>2, <1>3, <1>4 DEF Next

\* The inductive invariant of the orchestrator's tasks on the store.
THEOREM InvHolds == Spec => []IInv
BY InitInv, StepInv, PTL DEF Spec

-----------------------------------------------------------------------------
(* What it implies *)

LEMMA MutationPlaced ==
    ASSUME IInv, NEW k \in Runs, NEW w \in EltMutations(k)
    PROVE  /\ w = Row(k, Elt, w[3]) /\ w[3] \in 1..Len(Log(k))
           /\ w \in unknown => Log(k)[w[3]] = "failed"
<1>0. LogInv(k)
  BY DEF IInv, DocInv
<1>1. w \in Sent /\ w[1] = k /\ w[2] = Elt
  BY DEF EltMutations, Sent
<1>2. w = Row(k, Elt, w[3])
  <2>1. CASE w \in writes
    BY <1>1, <2>1 DEF IInv, TypeInv, TypeOK, Row
  <2>2. CASE w \in Pending
    BY <1>1, <2>2 DEF Pending, Row
  <2> QED BY <1>1, <2>1, <2>2 DEF Sent
<1>3. w[3] \in 1..Len(Log(k))
  BY <1>0, <1>1 DEF LogInv
<1> QED BY <1>0, <1>2, <1>3 DEF LogInv, EntryInv

LEMMA OnlyLastMutated ==
    ASSUME IInv, NEW k \in Runs, NEW w \in EltMutations(k) \ unknown
    PROVE  /\ w[3] = Len(Log(k))
           /\ Log(k)[w[3]] \in Unsettled \/ w \in counted
<1>0. db \in Database /\ LogInv(k) /\ Elt \in Artifacts
  BY HydrationRunAssumption DEF IInv, TypeInv, TypeOK, DocInv
<1>1. Len(Log(k)) \in Nat
  BY <1>0, LogType DEF Log
<1>2. w \in Mutated
  BY DEF EltMutations, Mutated, Sent
<1>3. w = Row(k, Elt, w[3]) /\ w[3] \in 1..Len(Log(k))
  BY MutationPlaced
<1>5. Log(k)[w[3]] \in Unsettled \/ w \in counted
  BY <1>0, <1>2, <1>3 DEF LogInv, EntryInv
<1>6. ~ w[3] \in 1..(Len(Log(k)) - 1)
  BY <1>0, <1>3, <1>5 DEF LogInv, Clean
<1>7. w[3] = Len(Log(k))
  BY <1>1, <1>3, <1>6
<1> QED BY <1>5, <1>7

LEMMA InvMutatedAgain == IInv => EltMutatedAgainOnlyIfUnknown
<1> SUFFICES ASSUME IInv, NEW k \in Runs, NEW v \in EltMutations(k), NEW w \in EltMutations(k),
                    v[3] < w[3], v \notin unknown
             PROVE  FALSE
  BY DEF EltMutatedAgainOnlyIfUnknown
<1>1. v[3] = Len(Log(k))
  BY OnlyLastMutated
<1>2. w[3] \in 1..Len(Log(k))
  BY MutationPlaced
<1>3. Len(Log(k)) \in Nat
  BY LogType, HydrationRunAssumption DEF IInv, TypeInv, TypeOK, Log
<1> QED BY <1>1, <1>2, <1>3

LEMMA InvAccounted == IInv => EltMutationAccounted
<1> SUFFICES ASSUME IInv, NEW k \in Runs, NEW w \in EltMutations(k)
             PROVE  /\ w[3] \in DOMAIN Log(k)
                    /\ \/ Log(k)[w[3]] \in {"running", "timed_out"}
                       \/ w \in counted
                       \/ Log(k)[w[3]] = "failed" /\ w \in unknown
  BY DEF EltMutationAccounted, Log
<1>1. DOMAIN Log(k) = 1..Len(Log(k))
  BY LogType, HydrationRunAssumption DEF IInv, TypeInv, TypeOK, Log
<1> QED BY <1>1, MutationPlaced, OnlyLastMutated DEF Unsettled

LEMMA InvSettled == IInv => CertifiedEltSettled
<1> SUFFICES ASSUME IInv, NEW k \in Runs, Latest(Log(k)) \in CertifiedOutcome
             PROVE  EltMutations(k) \ unknown =
                        IF Latest(Log(k)) = "written"
                        THEN {Row(k, Elt, Len(Log(k)))} \intersect writes ELSE {}
  BY DEF CertifiedEltSettled, Log
<1> DEFINE last == Row(k, Elt, Len(Log(k)))
<1>0. Log(k) \in Seq(AttemptStatus) /\ Len(Log(k)) \in Nat /\ LogInv(k)
  BY LogType, HydrationRunAssumption DEF IInv, TypeInv, TypeOK, DocInv, Log
<1>1. Log(k) # <<>> /\ Latest(Log(k)) = Log(k)[Len(Log(k))]
  BY DEF Latest, CertifiedOutcome
<1>2. Len(Log(k)) \in 1..Len(Log(k))
  BY <1>0, <1>1, EmptySeq
<1>3. EntryInv(k, Len(Log(k)))
  BY <1>0, <1>2 DEF LogInv
<1>4. EltMutations(k) \ unknown \subseteq {last}
  BY MutationPlaced, OnlyLastMutated
<1>5. CASE Latest(Log(k)) = "written"
  <2>1. last \in writes /\ last \notin unknown
    BY <1>1, <1>3, <1>5 DEF EntryInv
  <2>2. last \in EltMutations(k)
    BY <2>1, RowParts DEF EltMutations
  <2> QED BY <1>4, <1>5, <2>1, <2>2
<1>6. CASE Latest(Log(k)) = "no_change"
  <2>1. last \notin Mutated
    BY <1>1, <1>3, <1>6 DEF EntryInv, Unsettled
  <2> QED BY <1>4, <1>6, <2>1 DEF EltMutations, Mutated, Sent
<1> QED BY <1>5, <1>6 DEF CertifiedOutcome

LEMMA InvReport == IInv => ReportTruthful
BY DEF IInv, Reported, ReportTruthful

\* The tables, the requests in the network and the local state of every task
\* of the orchestrator are always well formed.
THEOREM TypesHold == Spec => []TypeOK
<1>1. IInv => TypeOK
  BY DEF IInv, TypeInv
<1> QED BY <1>1, InvHolds, PTL

\* prepareHydrationResume with the rows of start and finish: whatever crashes,
\* takeovers and lost or late calls the tasks of a run meet, a mutation of the
\* document follows another one only if that one's attempt was stored as failed
\* with its count null.
THEOREM MutatedAgainOnlyIfUnknown == Spec => []EltMutatedAgainOnlyIfUnknown
BY InvHolds, InvMutatedAgain, PTL

\* executeArtifact and persistOrReconcileTerminalAttempt: a mutation was stored
\* as a started attempt first, and that attempt is unsettled, or counts it, or
\* failed with its count null; none is stored as zero or certified uncounted.
THEOREM MutationAccounted == Spec => []EltMutationAccounted
BY InvHolds, InvAccounted, PTL

\* What finish_run and claim take for certified work on the document is what
\* became of it, with no call left that would still change it but those of
\* attempts whose count was stored as null.
THEOREM CertifiedSettled == Spec => []CertifiedEltSettled
BY InvHolds, InvSettled, PTL

\* A task returns a success only when the run is sealed with it in the store.
THEOREM ReportsHold == Spec => []ReportTruthful
BY InvHolds, InvReport, PTL

==============================================================================
