-------------------------- MODULE HydrationTheorems --------------------------
(***************************************************************************)
(* What the RPCs of the source-execution table and of the hydration store  *)
(* preserve, for every database and every value of the constants: types    *)
(* first, then the inductive invariant DbInv.  The state machines that use *)
(* the RPCs (SourceExecution, HydrationStore, HydrationRun) cite these     *)
(* facts.                                                                  *)
(***************************************************************************)
EXTENDS HydrationRpc, SequenceTheorems, TLAPS

\* At most one row of a table is running.
AtMostOneRunning(src) ==
    \A a, b \in SourceIds :
        src[a].status = "running" /\ src[b].status = "running" => a = b

-----------------------------------------------------------------------------
(* Types: each RPC maps a well-typed table to a well-typed table. *)

LEMMA ReapedType ==
    ASSUME NEW src \in SourceTable, NEW t \in Nat
    PROVE  Reaped(src, t) \in SourceTable
BY DEF Reaped, SourceTable, SourceRow, SourceStatus

LEMMA AcquireType ==
    ASSUME NEW src \in SourceTable, NEW s \in SourceIds, NEW o \in Owners, NEW t \in Nat
    PROVE  AfterAcquire(src, s, o, t) \in SourceTable
<1>1. RunningRow(o, t + SourceLeaseLen) \in SourceRow
  BY SourceLeaseAssumption DEF RunningRow, SourceRow, SourceStatus, PayloadState
<1> QED BY <1>1, ReapedType DEF AfterAcquire, SourceTable

LEMMA CompleteType ==
    ASSUME NEW src \in SourceTable, NEW s \in SourceIds, NEW o \in Owners,
           NEW c \in Cuts \union {NoCut}, NEW t \in Nat
    PROVE  AfterComplete(src, s, o, c, t) \in SourceTable
BY DEF AfterComplete, SourceTable, SourceRow, SourceStatus, PayloadState

LEMMA FailType ==
    ASSUME NEW src \in SourceTable, NEW s \in SourceIds, NEW o \in Owners, NEW t \in Nat
    PROVE  AfterFail(src, s, o, t) \in SourceTable
BY DEF AfterFail, SourceTable, SourceRow, SourceStatus

LEMMA SourceHeartbeatType ==
    ASSUME NEW src \in SourceTable, NEW s \in SourceIds, NEW o \in Owners, NEW t \in Nat
    PROVE  AfterSourceHeartbeat(src, s, o, t) \in SourceTable
BY SourceLeaseAssumption DEF AfterSourceHeartbeat, SourceTable, SourceRow

-----------------------------------------------------------------------------
(* Mutual exclusion: only acquire starts a row, and it starts one only in  *)
(* a table where none is running after the reap.                           *)

LEMMA ReapedMutex ==
    ASSUME NEW src \in SourceTable, NEW t \in Nat, AtMostOneRunning(src)
    PROVE  AtMostOneRunning(Reaped(src, t))
BY DEF Reaped, AtMostOneRunning, SourceTable, SourceRow

LEMMA AcquireMutex ==
    ASSUME NEW src \in SourceTable, NEW s \in SourceIds, NEW o \in Owners,
           NEW t \in Nat, AtMostOneRunning(src)
    PROVE  AtMostOneRunning(AfterAcquire(src, s, o, t))
<1>1. /\ Reaped(src, t) \in SourceTable
      /\ AtMostOneRunning(Reaped(src, t))
  BY ReapedType, ReapedMutex
<1>2. CASE CanAcquire(Reaped(src, t), s) /\ ~HoldsSource(src, s, o, t)
  BY <1>1, <1>2 DEF AfterAcquire, CanAcquire, SourceMutexFree, RunningRow,
                    AtMostOneRunning, SourceTable
<1>3. CASE ~CanAcquire(Reaped(src, t), s) \/ HoldsSource(src, s, o, t)
  BY <1>1, <1>3 DEF AfterAcquire
<1> QED BY <1>2, <1>3

LEMMA CompleteMutex ==
    ASSUME NEW src \in SourceTable, NEW s \in SourceIds, NEW o \in Owners,
           NEW c \in Cuts, NEW t \in Nat, AtMostOneRunning(src)
    PROVE  AtMostOneRunning(AfterComplete(src, s, o, c, t))
BY DEF AfterComplete, AtMostOneRunning, SourceTable, SourceRow

LEMMA FailMutex ==
    ASSUME NEW src \in SourceTable, NEW s \in SourceIds, NEW o \in Owners,
           NEW t \in Nat, AtMostOneRunning(src)
    PROVE  AtMostOneRunning(AfterFail(src, s, o, t))
BY DEF AfterFail, AtMostOneRunning, SourceTable, SourceRow

LEMMA SourceHeartbeatMutex ==
    ASSUME NEW src \in SourceTable, NEW s \in SourceIds, NEW o \in Owners,
           NEW t \in Nat, AtMostOneRunning(src)
    PROVE  AtMostOneRunning(AfterSourceHeartbeat(src, s, o, t))
BY DEF AfterSourceHeartbeat, AtMostOneRunning, SourceTable, SourceRow

-----------------------------------------------------------------------------
(* A completed row is never rewritten by an RPC. *)

LEMMA CompletedRowStays ==
    ASSUME NEW src \in SourceTable, NEW r \in SourceIds, src[r].status = "completed",
           NEW s \in SourceIds, NEW o \in Owners, NEW t \in Nat
    PROVE  /\ Reaped(src, t)[r] = src[r]
           /\ AfterAcquire(src, s, o, t)[r] = src[r]
           /\ AfterFail(src, s, o, t)[r] = src[r]
           /\ AfterSourceHeartbeat(src, s, o, t)[r] = src[r]
           /\ \A c : AfterComplete(src, s, o, c, t)[r] = src[r]
<1> USE DEF SourceTable
<1>1. Reaped(src, t)[r] = src[r]
  BY DEF Reaped
<1>2. AfterAcquire(src, s, o, t)[r] = src[r]
  <2>1. CanAcquire(Reaped(src, t), s) => s # r
    BY <1>1 DEF CanAcquire
  <2>2. Reaped(src, t) \in SourceTable
    BY ReapedType
  <2> QED BY <1>1, <2>1, <2>2 DEF AfterAcquire
<1>3. AfterFail(src, s, o, t)[r] = src[r]
  BY DEF AfterFail
<1>4. AfterSourceHeartbeat(src, s, o, t)[r] = src[r]
  BY DEF AfterSourceHeartbeat, HoldsSource
<1>5. \A c : AfterComplete(src, s, o, c, t)[r] = src[r]
  BY DEF AfterComplete, HoldsSource
<1> QED BY <1>1, <1>2, <1>3, <1>4, <1>5

-----------------------------------------------------------------------------
(* Logs *)

LEMMA TimedOutLog ==
    ASSUME NEW log \in Seq(AttemptStatus)
    PROVE  /\ TimedOut(log) \in Seq(AttemptStatus)
           /\ Len(TimedOut(log)) = Len(log)
           /\ DOMAIN TimedOut(log) = DOMAIN log
           /\ \A n \in DOMAIN log : TimedOut(log)[n] =
                  IF log[n] = "running" THEN "timed_out" ELSE log[n]
<1>1. /\ Len(log) \in Nat
      /\ DOMAIN log = 1..Len(log)
      /\ \A n \in 1..Len(log) : log[n] \in AttemptStatus
  BY LenProperties, ElementOfSeq
<1>2. TimedOut(log) \in [1..Len(log) -> AttemptStatus]
  BY <1>1 DEF TimedOut, AttemptStatus, CertifiedOutcome
<1>3. TimedOut(log) \in Seq(AttemptStatus)
  BY <1>1, <1>2, SeqDef
<1>4. Len(TimedOut(log)) = Len(log)
  BY <1>1, <1>2, <1>3, LenProperties
<1>5. DOMAIN TimedOut(log) = DOMAIN log
  BY <1>1, <1>2
<1> QED BY <1>3, <1>4, <1>5 DEF TimedOut

LEMMA SettledType ==
    ASSUME NEW db \in Database, NEW k \in Runs
    PROVE  Settled(db, k) \in [Artifacts -> Seq(AttemptStatus)]
BY TimedOutLog DEF Settled, Database

LEMMA WithRunType ==
    ASSUME NEW db \in Database, NEW k \in Runs, NEW row \in RunRow
    PROVE  /\ WithRun(db, k, row) \in Database
           /\ WithRun(db, k, row).source = db.source
           /\ WithRun(db, k, row).attempts = db.attempts
           /\ WithRun(db, k, row).run[k] = row
           /\ \A r \in Runs \ {k} : WithRun(db, k, row).run[r] = db.run[r]
BY DEF WithRun, Database

\* New logs for one run.
LEMMA WithLogsType ==
    ASSUME NEW db \in Database, NEW k \in Runs,
           NEW logs \in [Artifacts -> Seq(AttemptStatus)]
    PROVE  /\ [db EXCEPT !.attempts[k] = logs] \in Database
           /\ [db EXCEPT !.attempts[k] = logs].source = db.source
           /\ [db EXCEPT !.attempts[k] = logs].run = db.run
           /\ [db EXCEPT !.attempts[k] = logs].attempts[k] = logs
           /\ \A r \in Runs \ {k} : [db EXCEPT !.attempts[k] = logs].attempts[r] = db.attempts[r]
BY DEF Database

LEMMA EndedType ==
    ASSUME NEW row \in RunRow, NEW outcome \in RunOutcome
    PROVE  /\ Ended(row, outcome) \in RunRow
           /\ Ended(row, outcome).status = "terminal"
           /\ Ended(row, outcome).outcome = outcome
           /\ Ended(row, outcome).source = row.source
           /\ Ended(row, outcome).cut = row.cut
           /\ Ended(row, outcome).leased = 0
BY DEF Ended, RunRow, RunStatus

LEMMA AggregateType ==
    ASSUME NEW logs, NEW wanted
    PROVE  /\ Aggregate(logs, wanted) \in RunOutcome
           /\ RecoveredOutcome(logs, wanted) \in RunOutcome
<1>1. Aggregate(logs, wanted) \in RunOutcome
  BY DEF Aggregate, RunOutcome
<1> QED BY <1>1 DEF RecoveredOutcome, RunOutcome

-----------------------------------------------------------------------------
(* Types *)

LEMMA EmptyDatabaseType == EmptyDatabase \in Database
<1>1. [s \in SourceIds |-> AbsentRow] \in SourceTable
  BY DEF SourceTable, SourceRow, AbsentRow, SourceStatus, PayloadState
<1>2. [k \in Runs |-> AbsentRun] \in [Runs -> RunRow]
  BY DEF RunRow, AbsentRun, RunStatus
<1>3. [k \in Runs |-> [a \in Artifacts |-> <<>>]] \in [Runs -> [Artifacts -> Seq(AttemptStatus)]]
  BY EmptySeq
<1> QED BY <1>1, <1>2, <1>3 DEF EmptyDatabase, Database

LEMMA RetiredType ==
    ASSUME NEW db \in Database, NEW r \in Runs
    PROVE  Retired(db, r) \in Database
<1> DEFINE ended == Ended(db.run[r], RecoveredOutcome(Settled(db, r), Requested[r]))
<1>1. db.run[r] \in RunRow
  BY DEF Database
<1>2. ended \in RunRow
  BY <1>1, AggregateType, EndedType
<1>3. WithRun(db, r, ended) \in Database
  BY <1>2, WithRunType
<1> QED BY <1>3, SettledType, WithLogsType DEF Retired

LEMMA AfterRetireType ==
    ASSUME NEW db \in Database, NEW k \in Runs
    PROVE  AfterRetire(db, k) \in Database
BY RetiredType DEF AfterRetire, OtherActive

LEMMA ClaimedRowType ==
    ASSUME NEW row \in RunRow, NEW o \in Owners, NEW until \in Nat
    PROVE  /\ ClaimedRow(row, o, until) \in RunRow
           /\ ClaimedRow(row, o, until).source = row.source
           /\ ClaimedRow(row, o, until).cut = row.cut
           /\ ClaimedRow(row, o, until).owner = o
           /\ ClaimedRow(row, o, until).status =
                  IF row.status \in {"loading_source", "running"} THEN row.status
                  ELSE IF row.status = "terminal" /\ row.source # NoSource THEN "running"
                  ELSE "loading_source"
<1> DEFINE status == IF row.status \in {"loading_source", "running"} THEN row.status
                     ELSE IF row.status = "terminal" /\ row.source # NoSource THEN "running"
                     ELSE "loading_source"
<1>1. status \in RunStatus
  BY DEF RunRow, RunStatus
<1>2. ClaimedRow(row, o, until) = [row EXCEPT !.owner = o, !.leased = until,
                                             !.outcome = "none", !.status = status]
  BY DEF ClaimedRow
<1> HIDE DEF status
<1>3. /\ ClaimedRow(row, o, until) \in RunRow
      /\ ClaimedRow(row, o, until).source = row.source
      /\ ClaimedRow(row, o, until).cut = row.cut
      /\ ClaimedRow(row, o, until).owner = o
      /\ ClaimedRow(row, o, until).status = status
  BY <1>1, <1>2 DEF RunRow
<1> QED BY <1>3 DEF status

LEMMA ClaimType ==
    ASSUME NEW db \in Database, NEW k \in Runs, NEW o \in Owners, NEW t \in Nat
    PROVE  AfterClaim(db, k, o, t) \in Database
<1> DEFINE d == AfterRetire(db, k)
<1>1. d \in Database
  BY AfterRetireType
<1>2. t + RunLeaseLen \in Nat
  BY HydrationRpcAssumption
<1> HIDE DEF d
<1>3. ClaimedRow(d.run[k], o, t + RunLeaseLen) \in RunRow
  BY <1>1, <1>2, ClaimedRowType DEF Database
<1>4. WithRun(d, k, ClaimedRow(d.run[k], o, t + RunLeaseLen)) \in Database
  BY <1>1, <1>3, WithRunType
<1> QED BY <1>1, <1>4 DEF AfterClaim, d

LEMMA BindType ==
    ASSUME NEW db \in Database, NEW k \in Runs, NEW o \in Owners,
           NEW s \in SourceIds, NEW c \in Cuts \union {NoCut}, NEW t \in Nat
    PROVE  AfterBind(db, k, o, s, c, t) \in Database
<1>1. db.run[k] \in RunRow
  BY DEF Database
<1>2. [db.run[k] EXCEPT !.source = s, !.cut = c, !.status = "running"] \in RunRow
  BY <1>1 DEF RunRow, RunStatus
<1> QED BY <1>2, WithRunType DEF AfterBind

LEMMA StartType ==
    ASSUME NEW db \in Database, NEW k \in Runs, NEW a \in Artifacts, NEW n \in Nat,
           NEW o \in Owners, NEW t \in Nat
    PROVE  AfterStart(db, k, a, n, o, t) \in Database
<1>1. Append(db.attempts[k][a], "running") \in Seq(AttemptStatus)
  BY DEF Database, AttemptStatus
<1> QED BY <1>1 DEF AfterStart, Database

LEMMA TimeoutAttemptsType ==
    ASSUME NEW db \in Database, NEW k \in Runs, NEW o \in Owners, NEW t \in Nat
    PROVE  AfterTimeoutAttempts(db, k, o, t) \in Database
BY SettledType, WithLogsType DEF AfterTimeoutAttempts

LEMMA FinishAttemptType ==
    ASSUME NEW db \in Database, NEW k \in Runs, NEW a \in Artifacts, NEW n \in Nat,
           NEW outcome \in AttemptStatus, NEW o \in Owners, NEW t \in Nat
    PROVE  AfterFinishAttempt(db, k, a, n, outcome, o, t) \in Database
<1>1. CASE FinishesAttempt(db, k, a, n, o, t)
  <2>1. db.attempts[k][a] \in Seq(AttemptStatus)
    BY DEF Database
  <2>2. n \in 1..Len(db.attempts[k][a])
    BY <1>1, <2>1, LenProperties DEF FinishesAttempt
  <2>3. [db.attempts[k][a] EXCEPT ![n] = outcome] \in Seq(AttemptStatus)
    BY <2>1, <2>2, ExceptSeq
  <2> QED BY <1>1, <2>3 DEF AfterFinishAttempt, Database
<1>2. CASE ~FinishesAttempt(db, k, a, n, o, t)
  BY <1>2 DEF AfterFinishAttempt
<1> QED BY <1>1, <1>2

LEMMA FinishRunType ==
    ASSUME NEW db \in Database, NEW k \in Runs, NEW outcome \in RunOutcome,
           NEW o \in Owners, NEW t \in Nat
    PROVE  AfterFinishRun(db, k, o, outcome, t) \in Database
<1>1. db.run[k] \in RunRow
  BY DEF Database
<1> QED BY <1>1, EndedType, WithRunType DEF AfterFinishRun

LEMMA RunHeartbeatType ==
    ASSUME NEW db \in Database, NEW k \in Runs, NEW o \in Owners, NEW t \in Nat
    PROVE  AfterRunHeartbeat(db, k, o, t) \in Database
<1>1. t + RunLeaseLen \in Nat
  BY HydrationRpcAssumption
<1>2. [db.run[k] EXCEPT !.leased = t + RunLeaseLen] \in RunRow
  BY <1>1 DEF Database, RunRow
<1> QED BY <1>2, WithRunType DEF AfterRunHeartbeat

LEMMA PruneType ==
    ASSUME NEW db \in Database, NEW s \in SourceIds, NEW t \in Nat
    PROVE  AfterPrune(db, s, t) \in Database
<1> DEFINE expired == {k \in BoundTo(db, s) : Active(db, k) /\ db.run[k].leased <= t}
           logs == [k \in Runs |-> IF k \in expired THEN Settled(db, k) ELSE db.attempts[k]]
           rows == [k \in Runs |-> IF k \in expired THEN Ended(db.run[k], "timed_out")
                                                   ELSE db.run[k]]
           settled == [db EXCEPT !.attempts = logs, !.run = rows]
<1>1. logs \in [Runs -> [Artifacts -> Seq(AttemptStatus)]]
  BY SettledType DEF Database
<1>2. rows \in [Runs -> RunRow]
  BY EndedType DEF Database, RunOutcome
<1> HIDE DEF logs, rows
<1>3. settled \in Database
  BY <1>1, <1>2 DEF Database
<1>4. [settled EXCEPT !.source[s] = [@ EXCEPT !.payload = "pruned"]] \in Database
  <2> HIDE DEF settled
  <2>1. settled.source[s] \in SourceRow
    BY <1>3 DEF Database, SourceTable
  <2>2. [settled.source[s] EXCEPT !.payload = "pruned"] \in SourceRow
    BY <2>1 DEF SourceRow, PayloadState
  <2> QED BY <1>3, <2>2 DEF Database, SourceTable
<1> QED BY <1>3, <1>4 DEF AfterPrune, logs, rows

-----------------------------------------------------------------------------
(* The inductive invariant.  RunInv is about one run: its row, its logs and *)
(* the source table; DbInv adds that one run is active.                     *)

LogSettled(log) ==
    \A n \in DOMAIN log : n < Len(log) => log[n] \in {"failed", "timed_out"}

LogIdle(log) == \A n \in DOMAIN log : log[n] # "running"

RunInv(src, row, logs) ==
    /\ \A a \in Artifacts : LogSettled(logs[a])
    /\ row.status # "running" => \A a \in Artifacts : LogIdle(logs[a])
    /\ row.status = "absent" => row.source = NoSource
    /\ row.status = "loading_source" => row.source = NoSource
    /\ row.status = "running" =>
           row.source # NoSource /\ Replayable(src, row.source, row.cut)

OneActive(db) == \A j, k \in Runs : Active(db, j) /\ Active(db, k) => j = k

DbInv(db) ==
    /\ db \in Database
    /\ OneActive(db)
    /\ \A k \in Runs : RunInv(db.source, db.run[k], db.attempts[k])

LEMMA EmptyDatabaseInv == DbInv(EmptyDatabase)
<1>1. OneActive(EmptyDatabase)
  BY DEF OneActive, Active, EmptyDatabase, AbsentRun
<1>2. ASSUME NEW k \in Runs
      PROVE  RunInv(EmptyDatabase.source, EmptyDatabase.run[k], EmptyDatabase.attempts[k])
  BY DEF RunInv, EmptyDatabase, AbsentRun, LogSettled, LogIdle
<1> QED BY <1>1, <1>2, EmptyDatabaseType DEF DbInv

LEMMA WithRunInv ==
    ASSUME NEW db, DbInv(db), NEW k \in Runs, NEW row \in RunRow,
           RunInv(db.source, row, db.attempts[k]),
           row.status \in {"loading_source", "running"} => OtherActive(db, k) = {}
    PROVE  DbInv(WithRun(db, k, row))
<1> DEFINE e == WithRun(db, k, row)
<1>1. e \in Database
  BY WithRunType DEF DbInv
<1>2. /\ e.source = db.source
      /\ e.attempts = db.attempts
      /\ e.run[k] = row
      /\ \A j \in Runs \ {k} : e.run[j] = db.run[j]
  BY DEF WithRun, DbInv, Database
<1> HIDE DEF e
<1>3. OneActive(e)
  BY <1>2 DEF OneActive, Active, OtherActive, DbInv
<1>4. \A j \in Runs : RunInv(e.source, e.run[j], e.attempts[j])
  BY <1>2 DEF DbInv
<1> QED BY <1>1, <1>3, <1>4 DEF DbInv, e

LEMMA SettledInv ==
    ASSUME NEW db, DbInv(db), NEW k \in Runs
    PROVE  /\ \A a \in Artifacts : LogSettled(Settled(db, k)[a]) /\ LogIdle(Settled(db, k)[a])
           /\ Settled(db, k) \in [Artifacts -> Seq(AttemptStatus)]
<1> SUFFICES ASSUME NEW a \in Artifacts
             PROVE  LogSettled(Settled(db, k)[a]) /\ LogIdle(Settled(db, k)[a])
  BY SettledType DEF DbInv
<1> DEFINE log == db.attempts[k][a]
<1>1. log \in Seq(AttemptStatus) /\ LogSettled(log)
  BY DEF DbInv, RunInv, Database
<1>2. Settled(db, k)[a] = TimedOut(log)
  BY DEF Settled
<1> HIDE DEF log
<1>3. LogSettled(TimedOut(log)) /\ LogIdle(TimedOut(log))
  BY <1>1, TimedOutLog DEF LogSettled, LogIdle
<1> QED BY <1>2, <1>3

\* Logs of run k replaced by settled ones that are idle unless k is running.
LEMMA WithLogsInv ==
    ASSUME NEW db, DbInv(db), NEW k \in Runs,
           NEW logs \in [Artifacts -> Seq(AttemptStatus)],
           \A a \in Artifacts : LogSettled(logs[a]),
           db.run[k].status # "running" => \A a \in Artifacts : LogIdle(logs[a])
    PROVE  DbInv([db EXCEPT !.attempts[k] = logs])
<1> DEFINE e == [db EXCEPT !.attempts[k] = logs]
<1>1. e \in Database
  BY WithLogsType DEF DbInv
<1>2. /\ e.source = db.source
      /\ e.run = db.run
      /\ e.attempts[k] = logs
      /\ \A j \in Runs \ {k} : e.attempts[j] = db.attempts[j]
  BY DEF DbInv, Database
<1> HIDE DEF e
<1>3. OneActive(e)
  BY <1>2 DEF OneActive, Active, DbInv
<1>4. \A j \in Runs : RunInv(e.source, e.run[j], e.attempts[j])
  BY <1>2 DEF DbInv, RunInv
<1> QED BY <1>1, <1>3, <1>4 DEF DbInv, e

-----------------------------------------------------------------------------
(* Each RPC preserves the invariant. *)

LEMMA EndedInv ==
    ASSUME NEW db, DbInv(db), NEW k \in Runs, NEW outcome \in RunOutcome,
           \A a \in Artifacts : LogIdle(db.attempts[k][a])
    PROVE  DbInv(WithRun(db, k, Ended(db.run[k], outcome)))
<1> DEFINE row == Ended(db.run[k], outcome)
<1>1. db.run[k] \in RunRow
  BY DEF DbInv, Database
<1>2. row \in RunRow /\ row.status = "terminal"
  BY <1>1, EndedType
<1> HIDE DEF row
<1>3. RunInv(db.source, row, db.attempts[k])
  BY <1>2 DEF DbInv, RunInv
<1>4. DbInv(WithRun(db, k, row))
  BY <1>2, <1>3, WithRunInv
<1> QED BY <1>4 DEF row

LEMMA RetiredInv ==
    ASSUME NEW db, DbInv(db), NEW r \in Runs
    PROVE  /\ DbInv(Retired(db, r))
           /\ Retired(db, r).source = db.source
           /\ \A j \in Runs \ {r} : /\ Retired(db, r).run[j] = db.run[j]
                                    /\ Retired(db, r).attempts[j] = db.attempts[j]
           /\ Retired(db, r).run[r].status = "terminal"
           /\ Retired(db, r).run[r].source = db.run[r].source
           /\ Retired(db, r).run[r].cut = db.run[r].cut
           /\ Retired(db, r).run[r].owner = db.run[r].owner
<1> DEFINE outcome == RecoveredOutcome(Settled(db, r), Requested[r])
           ended   == Ended(db.run[r], outcome)
           d       == [db EXCEPT !.attempts[r] = Settled(db, r)]
<1>1. /\ outcome \in RunOutcome
      /\ db \in Database
      /\ db.run[r] \in RunRow
  BY AggregateType DEF DbInv, Database
<1>2. /\ DbInv(d)
      /\ d.source = db.source
      /\ d.run = db.run
      /\ d.attempts[r] = Settled(db, r)
      /\ \A j \in Runs \ {r} : d.attempts[j] = db.attempts[j]
  BY <1>1, SettledInv, WithLogsInv, WithLogsType
<1>3. Retired(db, r) = WithRun(d, r, ended)
  BY <1>1 DEF Retired, WithRun, Database
<1> HIDE DEF d, outcome
<1>4. DbInv(WithRun(d, r, ended))
  BY <1>1, <1>2, EndedInv, SettledInv
<1>5. /\ ended \in RunRow
      /\ ended.status = "terminal"
      /\ ended.source = db.run[r].source
      /\ ended.cut = db.run[r].cut
      /\ ended.owner = db.run[r].owner
  BY <1>1, EndedType DEF Ended, RunRow
<1> HIDE DEF ended
<1>6. /\ WithRun(d, r, ended).source = d.source
      /\ WithRun(d, r, ended).attempts = d.attempts
      /\ WithRun(d, r, ended).run[r] = ended
      /\ \A j \in Runs \ {r} : WithRun(d, r, ended).run[j] = d.run[j]
  BY <1>2, <1>5, WithRunType DEF DbInv
<1> QED BY <1>2, <1>3, <1>4, <1>5, <1>6

\* After the recovery step of claim no other run is active, and the requested
\* run is as it was.
LEMMA AfterRetireInv ==
    ASSUME NEW db, DbInv(db), NEW k \in Runs
    PROVE  /\ DbInv(AfterRetire(db, k))
           /\ OtherActive(AfterRetire(db, k), k) = {}
           /\ AfterRetire(db, k).source = db.source
           /\ AfterRetire(db, k).run[k] = db.run[k]
           /\ AfterRetire(db, k).attempts[k] = db.attempts[k]
           /\ \A j \in Runs : ~Active(db, j) =>
                  /\ AfterRetire(db, k).run[j] = db.run[j]
                  /\ AfterRetire(db, k).attempts[j] = db.attempts[j]
           /\ \A j \in Runs :
                  /\ AfterRetire(db, k).run[j].source = db.run[j].source
                  /\ AfterRetire(db, k).run[j].cut = db.run[j].cut
<1>1. CASE OtherActive(db, k) = {}
  BY <1>1 DEF AfterRetire
<1>2. CASE OtherActive(db, k) # {}
  <2> DEFINE r == CHOOSE j \in OtherActive(db, k) : TRUE
  <2>1. r \in OtherActive(db, k)
    BY <1>2
  <2>2. AfterRetire(db, k) = Retired(db, r)
    BY <1>2 DEF AfterRetire
  <2> HIDE DEF r
  <2>3. r \in Runs /\ r # k /\ Active(db, r)
    BY <2>1 DEF OtherActive
  <2>4. \A j \in Runs : Active(db, j) => j = r
    BY <2>3 DEF DbInv, OneActive
  <2> DEFINE d == Retired(db, r)
  <2>5. /\ DbInv(d)
        /\ d.source = db.source
        /\ \A j \in Runs \ {r} : d.run[j] = db.run[j] /\ d.attempts[j] = db.attempts[j]
        /\ d.run[r].status = "terminal"
        /\ d.run[r].source = db.run[r].source
        /\ d.run[r].cut = db.run[r].cut
    BY <2>3, RetiredInv
  <2> HIDE DEF d
  <2>6. OtherActive(d, k) = {}
    BY <2>3, <2>4, <2>5 DEF OtherActive, Active
  <2>7. AfterRetire(db, k) = d
    BY <2>2 DEF d
  <2> QED BY <2>3, <2>5, <2>6, <2>7
<1> QED BY <1>1, <1>2

LEMMA ClaimInv ==
    ASSUME NEW db, DbInv(db), NEW k \in Runs, NEW o \in Owners, NEW t \in Nat
    PROVE  DbInv(AfterClaim(db, k, o, t))
<1> DEFINE d     == AfterRetire(db, k)
           until == t + RunLeaseLen
           row   == ClaimedRow(d.run[k], o, until)
<1>1. DbInv(d) /\ OtherActive(d, k) = {}
  BY AfterRetireInv
<1>2. until \in Nat
  BY HydrationRpcAssumption
<1> HIDE DEF d, until
<1>3. /\ d.run[k] \in RunRow
      /\ RunInv(d.source, d.run[k], d.attempts[k])
  BY <1>1 DEF DbInv, Database
<1>4. /\ row \in RunRow
      /\ row.source = d.run[k].source
      /\ row.cut = d.run[k].cut
      /\ row.status = IF d.run[k].status \in {"loading_source", "running"} THEN d.run[k].status
                      ELSE IF d.run[k].status = "terminal" /\ d.run[k].source # NoSource
                           THEN "running"
                      ELSE "loading_source"
  BY <1>2, <1>3, ClaimedRowType
<1> HIDE DEF row
<1>5. ASSUME Claimable(d, k, o, t) PROVE DbInv(WithRun(d, k, row))
  <2>1. d.run[k].source # NoSource => Replayable(d.source, row.source, row.cut)
    BY <1>4, <1>5 DEF Claimable
  <2>2. d.run[k].status \in RunStatus
    BY <1>3 DEF RunRow
  <2>3. RunInv(d.source, row, d.attempts[k])
    BY <1>3, <1>4, <2>1, <2>2 DEF RunInv, RunStatus
  <2> QED BY <1>1, <1>4, <2>3, WithRunInv
<1> QED BY <1>1, <1>5 DEF AfterClaim, d, until, row

LEMMA BindInv ==
    ASSUME NEW db, DbInv(db), NEW k \in Runs, NEW o \in Owners,
           NEW s \in SourceIds, NEW c \in Cuts \union {NoCut}, NEW t \in Nat
    PROVE  DbInv(AfterBind(db, k, o, s, c, t))
<1> DEFINE row == [db.run[k] EXCEPT !.source = s, !.cut = c, !.status = "running"]
<1>1. CASE Binds(db, k, o, s, c, t)
  <2>1. db.run[k] \in RunRow /\ RunInv(db.source, db.run[k], db.attempts[k])
    BY DEF DbInv, Database
  <2>2. row \in RunRow /\ row.source = s /\ row.cut = c /\ row.status = "running"
    BY <2>1 DEF RunRow, RunStatus
  <2>3. OtherActive(db, k) = {}
    BY <1>1 DEF Binds, HoldsRun, DbInv, OneActive, OtherActive
  <2>4. s # NoSource
    BY HydrationRpcAssumption
  <2> HIDE DEF row
  <2>5. RunInv(db.source, row, db.attempts[k])
    BY <1>1, <2>1, <2>2, <2>4 DEF Binds, RunInv
  <2>6. DbInv(WithRun(db, k, row))
    BY <2>2, <2>3, <2>5, WithRunInv
  <2> QED BY <1>1, <2>6 DEF AfterBind, row
<1>2. CASE ~Binds(db, k, o, s, c, t)
  BY <1>2 DEF AfterBind
<1> QED BY <1>1, <1>2

LEMMA StartInv ==
    ASSUME NEW db, DbInv(db), NEW k \in Runs, NEW a \in Artifacts, NEW n \in Nat,
           NEW o \in Owners, NEW t \in Nat
    PROVE  DbInv(AfterStart(db, k, a, n, o, t))
<1> DEFINE log  == db.attempts[k][a]
           grown == Append(log, "running")
           logs == [db.attempts[k] EXCEPT ![a] = grown]
<1>1. CASE Starts(db, k, a, n, o, t)
  <2>1. /\ db \in Database
        /\ db.attempts[k] \in [Artifacts -> Seq(AttemptStatus)]
        /\ log \in Seq(AttemptStatus)
        /\ \A b \in Artifacts : LogSettled(db.attempts[k][b])
    BY DEF DbInv, RunInv, Database
  <2>2. \A m \in DOMAIN log : log[m] \in {"failed", "timed_out"}
    <3>1. \A m \in DOMAIN log : log[m] \in AttemptStatus
      BY <2>1, ElementOfSeq, LenProperties
    <3> QED BY <1>1, <3>1 DEF Starts, AttemptStatus
  <2> HIDE DEF log
  <2>3. /\ grown \in Seq(AttemptStatus)
        /\ Len(grown) = Len(log) + 1
        /\ DOMAIN log = 1..Len(log)
        /\ DOMAIN grown = 1..(Len(log) + 1)
        /\ Len(log) \in Nat
        /\ \A m \in 1..Len(log) : grown[m] = log[m]
    <3>1. "running" \in AttemptStatus
      BY DEF AttemptStatus
    <3> QED BY <2>1, <3>1, AppendProperties, LenProperties
  <2>4. LogSettled(grown)
    BY <2>2, <2>3 DEF LogSettled
  <2> HIDE DEF grown
  <2>5. /\ logs \in [Artifacts -> Seq(AttemptStatus)]
        /\ \A b \in Artifacts : LogSettled(logs[b])
    BY <2>1, <2>3, <2>4
  <2>6. AfterStart(db, k, a, n, o, t) = [db EXCEPT !.attempts[k] = logs]
    BY <1>1, <2>1 DEF AfterStart, grown, log, Database
  <2> HIDE DEF logs
  <2> QED BY <1>1, <2>5, <2>6, WithLogsInv DEF Starts
<1>2. CASE ~Starts(db, k, a, n, o, t)
  BY <1>2 DEF AfterStart
<1> QED BY <1>1, <1>2

LEMMA TimeoutAttemptsInv ==
    ASSUME NEW db, DbInv(db), NEW k \in Runs, NEW o \in Owners, NEW t \in Nat
    PROVE  DbInv(AfterTimeoutAttempts(db, k, o, t))
BY SettledInv, WithLogsInv DEF AfterTimeoutAttempts

LEMMA FinishAttemptInv ==
    ASSUME NEW db, DbInv(db), NEW k \in Runs, NEW a \in Artifacts, NEW n \in Nat,
           NEW outcome \in AttemptStatus \ {"running"}, NEW o \in Owners, NEW t \in Nat
    PROVE  DbInv(AfterFinishAttempt(db, k, a, n, outcome, o, t))
<1> DEFINE log  == db.attempts[k][a]
           done == [log EXCEPT ![n] = outcome]
           logs == [db.attempts[k] EXCEPT ![a] = done]
<1>1. CASE FinishesAttempt(db, k, a, n, o, t)
  <2>1. /\ db \in Database
        /\ db.attempts[k] \in [Artifacts -> Seq(AttemptStatus)]
        /\ log \in Seq(AttemptStatus)
        /\ \A b \in Artifacts : LogSettled(db.attempts[k][b])
    BY DEF DbInv, RunInv, Database
  <2>2. n \in DOMAIN log /\ log[n] = "running" /\ DOMAIN log = 1..Len(log) /\ Len(log) \in Nat
    BY <1>1, <2>1, LenProperties DEF FinishesAttempt
  <2>3. LogSettled(log)
    BY <2>1
  <2> HIDE DEF log
  <2>4. /\ done \in Seq(AttemptStatus)
        /\ Len(done) = Len(log)
        /\ DOMAIN done = DOMAIN log
        /\ \A m \in DOMAIN log : m # n => done[m] = log[m]
    <3>1. outcome \in AttemptStatus /\ n \in 1..Len(log)
      BY <2>2
    <3> QED BY <2>1, <2>2, <3>1, ExceptSeq
  <2>5. n = Len(log)
    <3>1. ~(n < Len(log))
      BY <2>2, <2>3 DEF LogSettled
    <3>2. n \in 1..Len(log) /\ Len(log) \in Nat
      BY <2>2
    <3> QED BY <3>1, <3>2
  <2> HIDE DEF done
  <2>6. LogSettled(done)
    BY <2>2, <2>3, <2>4, <2>5 DEF LogSettled
  <2>7. /\ logs \in [Artifacts -> Seq(AttemptStatus)]
        /\ \A b \in Artifacts : LogSettled(logs[b])
    BY <2>1, <2>4, <2>6
  <2>8. AfterFinishAttempt(db, k, a, n, outcome, o, t) = [db EXCEPT !.attempts[k] = logs]
    BY <1>1, <2>1 DEF AfterFinishAttempt, done, log, Database
  <2> HIDE DEF logs
  <2> QED BY <1>1, <2>7, <2>8, WithLogsInv DEF FinishesAttempt
<1>2. CASE ~FinishesAttempt(db, k, a, n, o, t)
  BY <1>2 DEF AfterFinishAttempt
<1> QED BY <1>1, <1>2

LEMMA FinishRunInv ==
    ASSUME NEW db, DbInv(db), NEW k \in Runs, NEW outcome \in RunOutcome,
           NEW o \in Owners, NEW t \in Nat
    PROVE  DbInv(AfterFinishRun(db, k, o, outcome, t))
BY EndedInv DEF AfterFinishRun, FinishesRun, HasRunningAttempt, LogIdle

LEMMA RunHeartbeatInv ==
    ASSUME NEW db, DbInv(db), NEW k \in Runs, NEW o \in Owners, NEW t \in Nat
    PROVE  DbInv(AfterRunHeartbeat(db, k, o, t))
<1> DEFINE row == [db.run[k] EXCEPT !.leased = t + RunLeaseLen]
<1>1. CASE HoldsRun(db, k, o, t)
  <2>1. db.run[k] \in RunRow /\ RunInv(db.source, db.run[k], db.attempts[k])
    BY DEF DbInv, Database
  <2>2. /\ row \in RunRow
        /\ row.status = db.run[k].status
        /\ row.source = db.run[k].source
        /\ row.cut = db.run[k].cut
    BY <2>1, HydrationRpcAssumption DEF RunRow
  <2>3. OtherActive(db, k) = {}
    BY <1>1 DEF HoldsRun, DbInv, OneActive, OtherActive
  <2> HIDE DEF row
  <2>4. RunInv(db.source, row, db.attempts[k])
    BY <2>1, <2>2 DEF RunInv
  <2>5. DbInv(WithRun(db, k, row))
    BY <2>2, <2>3, <2>4, WithRunInv
  <2> QED BY <1>1, <2>5 DEF AfterRunHeartbeat, row
<1>2. CASE ~HoldsRun(db, k, o, t)
  BY <1>2 DEF AfterRunHeartbeat
<1> QED BY <1>1, <1>2

\* A step of the source table that keeps every replayable cut replayable.
LEMMA SourceStepInv ==
    ASSUME NEW db, DbInv(db), NEW src \in SourceTable,
           \A s \in SourceIds : db.source[s].status = "completed" => src[s] = db.source[s]
    PROVE  DbInv([db EXCEPT !.source = src])
<1> DEFINE e == [db EXCEPT !.source = src]
<1>1. /\ e \in Database
      /\ e.source = src
      /\ e.run = db.run
      /\ e.attempts = db.attempts
  BY DEF DbInv, Database
<1> HIDE DEF e
<1>2. OneActive(e)
  BY <1>1 DEF OneActive, Active, DbInv
<1>3. \A k \in Runs : db.run[k] \in RunRow
  BY DEF DbInv, Database
<1>4. \A k \in Runs : RunInv(e.source, e.run[k], e.attempts[k])
  BY <1>1, <1>3 DEF DbInv, RunInv, Replayable, RunRow
<1> QED BY <1>1, <1>2, <1>4 DEF DbInv, e

\* Retention ends the expired runs bound to the source before it prunes it.
LEMMA PruneInv ==
    ASSUME NEW db, DbInv(db), NEW s \in SourceIds, NEW t \in Nat
    PROVE  DbInv(AfterPrune(db, s, t))
<1> DEFINE expired == {k \in BoundTo(db, s) : Active(db, k) /\ db.run[k].leased <= t}
           logs == [k \in Runs |-> IF k \in expired THEN Settled(db, k) ELSE db.attempts[k]]
           rows == [k \in Runs |-> IF k \in expired THEN Ended(db.run[k], "timed_out")
                                                   ELSE db.run[k]]
           d    == [db EXCEPT !.attempts = logs, !.run = rows]
           src  == [d.source EXCEPT ![s] = [@ EXCEPT !.payload = "pruned"]]
           e    == [d EXCEPT !.source[s] = [@ EXCEPT !.payload = "pruned"]]
<1>1. /\ db \in Database
      /\ \A k \in Runs : db.run[k] \in RunRow
  BY DEF DbInv, Database
<1>2. \A k \in Runs :
        /\ rows[k] = db.run[k] \/ rows[k].status = "terminal"
        /\ rows[k] \in RunRow
        /\ rows[k].source = db.run[k].source
        /\ rows[k].cut = db.run[k].cut
        /\ \A a \in Artifacts : LogSettled(logs[k][a])
        /\ rows[k].status # "running" => \A a \in Artifacts : LogIdle(logs[k][a])
  <2> TAKE k \in Runs
  <2>1. RunInv(db.source, db.run[k], db.attempts[k])
    BY DEF DbInv
  <2>2. CASE k \in expired
    <3>1. rows[k] = Ended(db.run[k], "timed_out") /\ logs[k] = Settled(db, k)
      BY <2>2
    <3>2. "timed_out" \in RunOutcome
      BY DEF RunOutcome
    <3> HIDE DEF rows, logs
    <3> QED BY <1>1, <3>1, <3>2, EndedType, SettledInv
  <2>3. CASE k \notin expired
    <3>1. rows[k] = db.run[k] /\ logs[k] = db.attempts[k]
      BY <2>3
    <3> HIDE DEF rows, logs
    <3> QED BY <1>1, <2>1, <3>1 DEF RunInv
  <2> QED BY <2>2, <2>3
<1>3. /\ logs \in [Runs -> [Artifacts -> Seq(AttemptStatus)]]
      /\ rows \in [Runs -> RunRow]
  <2>1. \A k \in Runs : logs[k] \in [Artifacts -> Seq(AttemptStatus)]
    BY <1>1, SettledType DEF Database
  <2> QED BY <1>2, <2>1
<1> HIDE DEF logs, rows
<1>4. /\ d \in Database
      /\ d.source = db.source
      /\ d.run = rows
      /\ d.attempts = logs
  BY <1>1, <1>3 DEF Database
<1>5. DbInv(d)
  <2> HIDE DEF d
  <2>1. OneActive(d)
    BY <1>2, <1>4 DEF DbInv, OneActive, Active
  <2>2. ASSUME NEW k \in Runs PROVE RunInv(d.source, d.run[k], d.attempts[k])
    <3>1. RunInv(db.source, db.run[k], db.attempts[k])
      BY DEF DbInv
    <3> QED BY <1>2, <1>4, <3>1 DEF RunInv
  <2> QED BY <1>4, <2>1, <2>2 DEF DbInv
<1> HIDE DEF d
<1>6. ASSUME \A k \in BoundTo(db, s) : ~Active(d, k)
      PROVE  DbInv(e)
  <2>1. /\ e \in Database
        /\ e.source = src
        /\ e.run = rows
        /\ e.attempts = logs
        /\ \A r \in SourceIds \ {s} : src[r] = db.source[r]
    <3>1. d.source[s] \in SourceRow
      BY <1>4 DEF Database, SourceTable
    <3>2. [d.source[s] EXCEPT !.payload = "pruned"] \in SourceRow
      BY <3>1 DEF SourceRow, PayloadState
    <3> QED BY <1>4, <3>2 DEF Database, SourceTable
  <2> HIDE DEF e, src
  <2>2. OneActive(e)
    BY <1>4, <1>5, <2>1 DEF DbInv, OneActive, Active
  <2>3. ASSUME NEW k \in Runs PROVE RunInv(e.source, e.run[k], e.attempts[k])
    <3>1. RunInv(d.source, d.run[k], d.attempts[k])
      BY <1>5 DEF DbInv
    <3>2. rows[k].status = "running" =>
            rows[k].source \in SourceIds /\ rows[k].source # s
      <4>1. rows[k].source \in SourceIds \union {NoSource}
        BY <1>3 DEF RunRow
      <4>2. rows[k].status = "running" => Active(d, k)
        BY <1>4 DEF Active
      <4> QED BY <1>2, <1>4, <1>6, <3>1, <4>1, <4>2 DEF RunInv, BoundTo
    <3> QED BY <1>4, <2>1, <3>1, <3>2 DEF RunInv, Replayable
  <2> QED BY <2>1, <2>2, <2>3 DEF DbInv
<1>7. AfterPrune(db, s, t) = IF ~Prunable(db, s, t) THEN db
                             ELSE IF \E k \in BoundTo(db, s) : Active(d, k) THEN d ELSE e
  BY DEF AfterPrune, d, logs, rows
<1> QED BY <1>5, <1>6, <1>7

-----------------------------------------------------------------------------
(* What a step from database d to database e may do to run k, at time t.    *)

\* A stored success stays, attempts included.
KeepsSuccess(d, e, k) ==
    Sealed(d, k) => e.run[k] = d.run[k] /\ e.attempts[k] = d.attempts[k]

\* A run with a live lease keeps its owner, and ends with no attempt cut short.
KeepsLive(d, e, k, t) ==
    Active(d, k) /\ d.run[k].leased > t =>
        /\ e.run[k].owner = d.run[k].owner
        /\ ~Active(e, k) => e.attempts[k] = d.attempts[k] /\ ~HasRunningAttempt(d, k)

KeepsBinding(d, e, k) ==
    e.run[k].source = d.run[k].source /\ e.run[k].cut = d.run[k].cut

Respects(d, e, t) ==
    \A k \in Runs : KeepsSuccess(d, e, k) /\ KeepsLive(d, e, k, t)

KeepsBindings(d, e) == \A k \in Runs : KeepsBinding(d, e, k)

LEMMA StutterStep ==
    ASSUME NEW d, NEW e, e.run = d.run, e.attempts = d.attempts, NEW t
    PROVE  Respects(d, e, t) /\ KeepsBindings(d, e)
BY DEF Respects, KeepsSuccess, KeepsLive, Active, KeepsBindings, KeepsBinding

\* A clock ahead of the transaction's only has fewer live leases.
LEMMA RespectsLater ==
    ASSUME NEW d \in Database, NEW e, NEW t \in Nat, NEW n \in Nat, t <= n,
           Respects(d, e, t)
    PROVE  Respects(d, e, n)
<1>1. \A k \in Runs : d.run[k].leased \in Nat
  BY DEF Database, RunRow
<1> QED BY <1>1 DEF Respects, KeepsLive

LEMMA RetiredStep ==
    ASSUME NEW db, DbInv(db), NEW r \in Runs, NEW t \in Nat,
           Active(db, r), db.run[r].leased <= t
    PROVE  Respects(db, Retired(db, r), t)
<1>1. db.run[r].leased \in Nat
  BY DEF DbInv, Database, RunRow
<1>2. ~Sealed(db, r)
  BY DEF Sealed, Active
<1> QED BY <1>1, <1>2, RetiredInv DEF Respects, KeepsSuccess, KeepsLive, Active

\* The recovery step of a claim that is not refused.
LEMMA AfterRetireStep ==
    ASSUME NEW db, DbInv(db), NEW k \in Runs, NEW t \in Nat, ~ClaimRefused(db, k, t)
    PROVE  Respects(db, AfterRetire(db, k), t)
<1>1. CASE OtherActive(db, k) = {}
  BY <1>1, StutterStep DEF AfterRetire
<1>2. CASE OtherActive(db, k) # {}
  <2> DEFINE r == CHOOSE j \in OtherActive(db, k) : TRUE
  <2>1. r \in OtherActive(db, k)
    BY <1>2
  <2>2. AfterRetire(db, k) = Retired(db, r)
    BY <1>2 DEF AfterRetire
  <2> HIDE DEF r
  <2>3. r \in Runs /\ Active(db, r) /\ db.run[r].leased \in Nat
    BY <2>1 DEF OtherActive, DbInv, Database, RunRow
  <2>4. db.run[r].leased <= t
    BY <2>1, <2>3 DEF ClaimRefused
  <2> QED BY <2>2, <2>3, <2>4, RetiredStep
<1> QED BY <1>1, <1>2

LEMMA ClaimStep ==
    ASSUME NEW db, DbInv(db), NEW k \in Runs, NEW o \in Owners, NEW t \in Nat
    PROVE  /\ Respects(db, AfterClaim(db, k, o, t), t)
           /\ KeepsBindings(db, AfterClaim(db, k, o, t))
<1> DEFINE d   == AfterRetire(db, k)
           row == ClaimedRow(d.run[k], o, t + RunLeaseLen)
           e   == WithRun(d, k, row)
<1>0. /\ DbInv(d)
      /\ d.run[k] = db.run[k]
      /\ d.attempts[k] = db.attempts[k]
      /\ KeepsBindings(db, d)
  BY AfterRetireInv DEF KeepsBindings, KeepsBinding
<1>1. ~ClaimRefused(db, k, t) => Respects(db, d, t)
  BY AfterRetireStep
<1> HIDE DEF d
<1>2. t + RunLeaseLen \in Nat
  BY HydrationRpcAssumption
<1>3. d.run[k] \in RunRow /\ d \in Database
  BY <1>0 DEF DbInv, Database
<1>4. /\ row \in RunRow
      /\ row.source = db.run[k].source
      /\ row.cut = db.run[k].cut
      /\ row.owner = o
      /\ row.status \in {"loading_source", "running"}
  <2>1. /\ row.source = d.run[k].source
        /\ row.cut = d.run[k].cut
        /\ row.owner = o
        /\ row \in RunRow
        /\ row.status = IF d.run[k].status \in {"loading_source", "running"} THEN d.run[k].status
                        ELSE IF d.run[k].status = "terminal" /\ d.run[k].source # NoSource
                             THEN "running"
                        ELSE "loading_source"
    BY <1>2, <1>3, ClaimedRowType
  <2> QED BY <1>0, <2>1
<1> HIDE DEF row
<1>5. /\ e.run[k] = row
      /\ e.attempts = d.attempts
      /\ \A j \in Runs \ {k} : e.run[j] = d.run[j]
  BY <1>3, <1>4, WithRunType
<1> HIDE DEF e
<1>6. ASSUME ~ClaimRefused(db, k, t), Claimable(d, k, o, t)
      PROVE  Respects(db, e, t) /\ KeepsBindings(db, e)
  <2>1. KeepsBindings(db, e)
    BY <1>0, <1>4, <1>5 DEF KeepsBindings, KeepsBinding
  <2>2. ASSUME NEW j \in Runs \ {k} PROVE KeepsSuccess(db, e, j) /\ KeepsLive(db, e, j, t)
    BY <1>1, <1>5, <1>6, <2>2 DEF Respects, KeepsSuccess, KeepsLive, Active
  <2>3. KeepsSuccess(db, e, k)
    BY <1>0, <1>6 DEF KeepsSuccess, Claimable, Sealed
  <2>4. KeepsLive(db, e, k, t)
    <3>1. db.run[k].leased \in Nat
      BY DEF DbInv, Database, RunRow
    <3> QED BY <1>0, <1>4, <1>5, <1>6, <3>1 DEF KeepsLive, Claimable, Active
  <2> QED BY <2>1, <2>2, <2>3, <2>4 DEF Respects
<1>7. Respects(db, db, t) /\ KeepsBindings(db, db)
  BY StutterStep
<1> QED BY <1>0, <1>1, <1>6, <1>7 DEF AfterClaim, d, row, e

\* A step in which the owner of k, under its lease, changes nothing but the row
\* and the logs of k.
LEMMA OwnerStep ==
    ASSUME NEW db \in Database, NEW e, NEW k \in Runs, NEW o, NEW t, HoldsRun(db, k, o, t),
           \A j \in Runs \ {k} : e.run[j] = db.run[j] /\ e.attempts[j] = db.attempts[j],
           e.run[k].owner = db.run[k].owner,
           Active(e, k) \/ (e.attempts[k] = db.attempts[k] /\ ~HasRunningAttempt(db, k))
    PROVE  Respects(db, e, t)
<1>1. ~Sealed(db, k)
  BY DEF HoldsRun, Active, Sealed
<1> QED BY <1>1 DEF Respects, KeepsSuccess, KeepsLive, Active

\* Bind changes the binding of a run that had none, and no other.
LEMMA BindStep ==
    ASSUME NEW db, DbInv(db), NEW k \in Runs, NEW o \in Owners,
           NEW s \in SourceIds, NEW c \in Cuts \union {NoCut}, NEW t \in Nat, Binds(db, k, o, s, c, t)
    PROVE  /\ Respects(db, AfterBind(db, k, o, s, c, t), t)
           /\ db.run[k].source = NoSource
           /\ AfterBind(db, k, o, s, c, t).run[k].source = s
           /\ AfterBind(db, k, o, s, c, t).run[k].cut = c
           /\ \A j \in Runs \ {k} : KeepsBinding(db, AfterBind(db, k, o, s, c, t), j)
<1> DEFINE row == [db.run[k] EXCEPT !.source = s, !.cut = c, !.status = "running"]
           e   == WithRun(db, k, row)
<1>1. db \in Database /\ db.run[k] \in RunRow
  BY DEF DbInv, Database
<1>2. /\ row \in RunRow
      /\ row.source = s
      /\ row.cut = c
      /\ row.status = "running"
      /\ row.owner = db.run[k].owner
  BY <1>1 DEF RunRow, RunStatus
<1>3. AfterBind(db, k, o, s, c, t) = e
  BY DEF AfterBind
<1> HIDE DEF row
<1>4. /\ e.run[k] = row
      /\ e.attempts = db.attempts
      /\ \A j \in Runs \ {k} : e.run[j] = db.run[j]
  BY <1>1, <1>2, WithRunType
<1> HIDE DEF e
<1>5. HoldsRun(db, k, o, t) /\ db.run[k].source = NoSource
  BY DEF Binds
<1>6. Active(e, k)
  BY <1>2, <1>4 DEF Active
<1>7. Respects(db, e, t)
  BY <1>1, <1>2, <1>4, <1>5, <1>6, OwnerStep
<1> QED BY <1>2, <1>3, <1>4, <1>5, <1>7 DEF KeepsBinding

\* Steps of the owner on the logs of its run.
LEMMA LogsStep ==
    ASSUME NEW db \in Database, NEW k \in Runs, NEW o, NEW t, HoldsRun(db, k, o, t),
           NEW logs \in [Artifacts -> Seq(AttemptStatus)]
    PROVE  /\ Respects(db, [db EXCEPT !.attempts[k] = logs], t)
           /\ KeepsBindings(db, [db EXCEPT !.attempts[k] = logs])
<1> DEFINE e == [db EXCEPT !.attempts[k] = logs]
<1>1. /\ e.run = db.run
      /\ \A j \in Runs \ {k} : e.attempts[j] = db.attempts[j]
  BY WithLogsType
<1> HIDE DEF e
<1>2. Active(e, k)
  BY <1>1 DEF HoldsRun, Active
<1>3. Respects(db, e, t)
  BY <1>1, <1>2, OwnerStep
<1> QED BY <1>1, <1>3 DEF KeepsBindings, KeepsBinding, e

LEMMA StartStep ==
    ASSUME NEW db \in Database, NEW k \in Runs, NEW a \in Artifacts, NEW n \in Nat,
           NEW o \in Owners, NEW t \in Nat, Starts(db, k, a, n, o, t)
    PROVE  /\ Respects(db, AfterStart(db, k, a, n, o, t), t)
           /\ KeepsBindings(db, AfterStart(db, k, a, n, o, t))
<1> DEFINE logs == [db.attempts[k] EXCEPT ![a] = Append(@, "running")]
<1>1. logs \in [Artifacts -> Seq(AttemptStatus)]
  <2>1. Append(db.attempts[k][a], "running") \in Seq(AttemptStatus)
    BY DEF Database, AttemptStatus
  <2> QED BY <2>1 DEF Database
<1>2. AfterStart(db, k, a, n, o, t) = [db EXCEPT !.attempts[k] = logs]
  BY DEF AfterStart, Database
<1> HIDE DEF logs
<1>3. HoldsRun(db, k, o, t)
  BY DEF Starts
<1>4. /\ Respects(db, [db EXCEPT !.attempts[k] = logs], t)
      /\ KeepsBindings(db, [db EXCEPT !.attempts[k] = logs])
  BY <1>1, <1>3, LogsStep
<1> QED BY <1>2, <1>4

LEMMA TimeoutAttemptsStep ==
    ASSUME NEW db \in Database, NEW k \in Runs, NEW o \in Owners, NEW t \in Nat
    PROVE  /\ Respects(db, AfterTimeoutAttempts(db, k, o, t), t)
           /\ KeepsBindings(db, AfterTimeoutAttempts(db, k, o, t))
BY SettledType, LogsStep, StutterStep DEF AfterTimeoutAttempts

LEMMA FinishAttemptStep ==
    ASSUME NEW db \in Database, NEW k \in Runs, NEW a \in Artifacts, NEW n \in Nat,
           NEW outcome \in AttemptStatus, NEW o \in Owners, NEW t \in Nat,
           FinishesAttempt(db, k, a, n, o, t)
    PROVE  /\ Respects(db, AfterFinishAttempt(db, k, a, n, outcome, o, t), t)
           /\ KeepsBindings(db, AfterFinishAttempt(db, k, a, n, outcome, o, t))
<1> DEFINE logs == [db.attempts[k] EXCEPT ![a][n] = outcome]
<1>1. logs \in [Artifacts -> Seq(AttemptStatus)]
  <2>1. db.attempts[k][a] \in Seq(AttemptStatus)
    BY DEF Database
  <2>2. n \in 1..Len(db.attempts[k][a])
    BY <2>1, LenProperties DEF FinishesAttempt
  <2>3. [db.attempts[k][a] EXCEPT ![n] = outcome] \in Seq(AttemptStatus)
    BY <2>1, <2>2, ExceptSeq
  <2> QED BY <2>3 DEF Database
<1>2. AfterFinishAttempt(db, k, a, n, outcome, o, t) = [db EXCEPT !.attempts[k] = logs]
  BY DEF AfterFinishAttempt, Database
<1> HIDE DEF logs
<1>3. HoldsRun(db, k, o, t)
  BY DEF FinishesAttempt
<1>4. /\ Respects(db, [db EXCEPT !.attempts[k] = logs], t)
      /\ KeepsBindings(db, [db EXCEPT !.attempts[k] = logs])
  BY <1>1, <1>3, LogsStep
<1> QED BY <1>2, <1>4

LEMMA FinishRunStep ==
    ASSUME NEW db \in Database, NEW k \in Runs, NEW outcome \in RunOutcome,
           NEW o \in Owners, NEW t \in Nat, FinishesRun(db, k, o, outcome, t)
    PROVE  /\ Respects(db, AfterFinishRun(db, k, o, outcome, t), t)
           /\ KeepsBindings(db, AfterFinishRun(db, k, o, outcome, t))
<1> DEFINE row == Ended(db.run[k], outcome)
           e   == WithRun(db, k, row)
<1>0. db.run[k] \in RunRow
  BY DEF Database
<1>1. /\ row \in RunRow
      /\ row.source = db.run[k].source
      /\ row.cut = db.run[k].cut
      /\ row.owner = db.run[k].owner
  BY <1>0, EndedType DEF Ended, RunRow
<1> HIDE DEF row
<1>2. /\ e.run[k] = row
      /\ e.attempts = db.attempts
      /\ \A j \in Runs \ {k} : e.run[j] = db.run[j]
  BY <1>1, WithRunType
<1> HIDE DEF e
<1>3. Respects(db, e, t)
  BY <1>1, <1>2, OwnerStep DEF FinishesRun
<1> QED BY <1>1, <1>2, <1>3 DEF AfterFinishRun, KeepsBindings, KeepsBinding, row, e

LEMMA RunHeartbeatStep ==
    ASSUME NEW db \in Database, NEW k \in Runs, NEW o \in Owners, NEW t \in Nat,
           HoldsRun(db, k, o, t)
    PROVE  /\ Respects(db, AfterRunHeartbeat(db, k, o, t), t)
           /\ KeepsBindings(db, AfterRunHeartbeat(db, k, o, t))
<1> DEFINE row == [db.run[k] EXCEPT !.leased = t + RunLeaseLen]
           e   == WithRun(db, k, row)
<1>0. db.run[k] \in RunRow
  BY DEF Database
<1>1. /\ row \in RunRow
      /\ row.status = db.run[k].status
      /\ row.source = db.run[k].source
      /\ row.cut = db.run[k].cut
      /\ row.owner = db.run[k].owner
  BY <1>0, HydrationRpcAssumption DEF RunRow
<1> HIDE DEF row
<1>2. /\ e.run[k] = row
      /\ e.attempts = db.attempts
      /\ \A j \in Runs \ {k} : e.run[j] = db.run[j]
  BY <1>1, WithRunType
<1> HIDE DEF e
<1>3. Active(e, k)
  BY <1>1, <1>2 DEF HoldsRun, Active
<1>4. Respects(db, e, t)
  BY <1>1, <1>2, <1>3, OwnerStep
<1> QED BY <1>1, <1>2, <1>4 DEF AfterRunHeartbeat, KeepsBindings, KeepsBinding, row, e

LEMMA PruneStep ==
    ASSUME NEW db \in Database, NEW s \in SourceIds, NEW t \in Nat
    PROVE  /\ Respects(db, AfterPrune(db, s, t), t)
           /\ KeepsBindings(db, AfterPrune(db, s, t))
<1> DEFINE expired == {k \in BoundTo(db, s) : Active(db, k) /\ db.run[k].leased <= t}
           logs == [k \in Runs |-> IF k \in expired THEN Settled(db, k) ELSE db.attempts[k]]
           rows == [k \in Runs |-> IF k \in expired THEN Ended(db.run[k], "timed_out")
                                                   ELSE db.run[k]]
           d    == [db EXCEPT !.attempts = logs, !.run = rows]
           e    == [d EXCEPT !.source[s] = [@ EXCEPT !.payload = "pruned"]]
<1>1. \A k \in Runs : db.run[k] \in RunRow
  BY DEF Database
<1>2. d.run = rows /\ d.attempts = logs /\ e.run = rows /\ e.attempts = logs
  BY DEF Database
<1>3. AfterPrune(db, s, t) \in {db, d, e}
  BY DEF AfterPrune
<1>4. ASSUME NEW k \in expired
      PROVE  /\ ~Sealed(db, k) /\ ~(db.run[k].leased > t)
             /\ rows[k].source = db.run[k].source /\ rows[k].cut = db.run[k].cut
  <2>1. k \in Runs /\ db.run[k].leased \in Nat
    BY <1>1 DEF BoundTo, RunRow
  <2>2. rows[k] = Ended(db.run[k], "timed_out")
    BY <2>1
  <2>3. ~Sealed(db, k)
    BY DEF Sealed, Active
  <2> HIDE DEF rows
  <2> QED BY <1>1, <2>1, <2>2, <2>3 DEF Ended, RunRow
<1>5. \A k \in Runs \ expired : rows[k] = db.run[k] /\ logs[k] = db.attempts[k]
  OBVIOUS
<1> HIDE DEF rows, logs, expired, d, e
<1>6. ASSUME NEW x, x.run = rows, x.attempts = logs
      PROVE  Respects(db, x, t) /\ KeepsBindings(db, x)
  <2>1. ASSUME NEW k \in expired, k \in Runs
        PROVE  KeepsSuccess(db, x, k) /\ KeepsLive(db, x, k, t) /\ KeepsBinding(db, x, k)
    BY <1>4, <1>6 DEF KeepsSuccess, KeepsLive, KeepsBinding
  <2>2. ASSUME NEW k \in Runs \ expired
        PROVE  KeepsSuccess(db, x, k) /\ KeepsLive(db, x, k, t) /\ KeepsBinding(db, x, k)
    BY <1>5, <1>6 DEF KeepsSuccess, KeepsLive, KeepsBinding, Active
  <2> QED BY <2>1, <2>2 DEF Respects, KeepsBindings
<1> QED BY <1>2, <1>3, <1>6, StutterStep

-----------------------------------------------------------------------------
(* What a terminal run says of its attempts. *)

\* The row says what its logs show, or it is timed_out: without an attempt, or
\* with a source whose payload is gone.
Truthful(src, row, logs, wanted) ==
    row.status = "terminal" =>
        \/ row.outcome = Aggregate(logs, wanted)
        \/ row.outcome = "timed_out" /\ \A a \in wanted : logs[a] = <<>>
        \/ /\ row.outcome = "timed_out"
           /\ row.source \in SourceIds
           /\ src[row.source].payload = "pruned"

\* Only a completed row loses its payload, so that none gets it back.
PrunedCompleted(src) ==
    \A s \in SourceIds : src[s].payload = "pruned" => src[s].status = "completed"

TruthInv(db) ==
    /\ PrunedCompleted(db.source)
    /\ \A k \in Runs : Truthful(db.source, db.run[k], db.attempts[k], Requested[k])

\* A step from d to e ends runs truthfully and leaves those that ended alone.
EndsTruthfully(d, e) ==
    \A k \in Runs :
        \/ e.run[k].status # "terminal"
        \/ e.run[k] = d.run[k] /\ e.attempts[k] = d.attempts[k]
        \/ Truthful(e.source, e.run[k], e.attempts[k], Requested[k])

LEMMA EmptyDatabaseTruth == TruthInv(EmptyDatabase)
BY DEF TruthInv, EmptyDatabase, AbsentRow, AbsentRun, PrunedCompleted, Truthful

\* What is kept by a step that does not touch the sources.
LEMMA TruthKept ==
    ASSUME NEW d, NEW e, TruthInv(d), e.source = d.source, EndsTruthfully(d, e)
    PROVE  TruthInv(e)
BY DEF TruthInv, EndsTruthfully, Truthful

\* The owner of an active run changes that run only, and leaves it active.
LEMMA OwnerTruth ==
    ASSUME NEW d, NEW e, TruthInv(d), e.source = d.source, NEW k \in Runs,
           e.run[k].status # "terminal",
           \A j \in Runs \ {k} : e.run[j] = d.run[j] /\ e.attempts[j] = d.attempts[j]
    PROVE  TruthInv(e)
BY TruthKept DEF EndsTruthfully

LEMMA EndedTruth ==
    ASSUME NEW db \in Database, TruthInv(db), NEW k \in Runs, NEW outcome,
           NEW logs \in [Artifacts -> Seq(AttemptStatus)],
           \/ outcome = Aggregate(logs, Requested[k])
           \/ outcome = "timed_out" /\ \A a \in Requested[k] : logs[a] = <<>>
    PROVE  TruthInv([WithRun(db, k, Ended(db.run[k], outcome)) EXCEPT !.attempts[k] = logs])
<1> DEFINE row == Ended(db.run[k], outcome)
           e   == [WithRun(db, k, row) EXCEPT !.attempts[k] = logs]
<1>1. row.outcome = outcome
  BY DEF Ended, Database, RunRow
<1> HIDE DEF row
<1>2. /\ e.source = db.source
      /\ e.run[k] = row
      /\ e.attempts[k] = logs
      /\ \A j \in Runs \ {k} : e.run[j] = db.run[j] /\ e.attempts[j] = db.attempts[j]
  BY DEF WithRun, Database
<1> HIDE DEF e
<1>3. EndsTruthfully(db, e)
  BY <1>1, <1>2 DEF EndsTruthfully, Truthful
<1>4. TruthInv(e)
  BY <1>2, <1>3, TruthKept
<1> QED BY <1>4 DEF e, row

LEMMA AfterRetireTruth ==
    ASSUME NEW db \in Database, TruthInv(db), NEW k \in Runs
    PROVE  TruthInv(AfterRetire(db, k))
<1>1. CASE OtherActive(db, k) = {}
  BY <1>1 DEF AfterRetire
<1>2. CASE OtherActive(db, k) # {}
  <2> DEFINE r == CHOOSE j \in OtherActive(db, k) : TRUE
  <2>1. r \in Runs
    BY <1>2 DEF OtherActive
  <2>2. AfterRetire(db, k) = Retired(db, r)
    BY <1>2 DEF AfterRetire
  <2> HIDE DEF r
  <2>3. Settled(db, r) \in [Artifacts -> Seq(AttemptStatus)]
    BY <2>1, SettledType
  <2>4. TruthInv(Retired(db, r))
    BY <2>1, <2>3, EndedTruth DEF Retired, RecoveredOutcome
  <2> QED BY <2>2, <2>4
<1> QED BY <1>1, <1>2

LEMMA ClaimTruth ==
    ASSUME NEW db, DbInv(db), TruthInv(db), NEW k \in Runs, NEW o \in Owners, NEW t \in Nat
    PROVE  TruthInv(AfterClaim(db, k, o, t))
<1> DEFINE d   == AfterRetire(db, k)
           row == ClaimedRow(d.run[k], o, t + RunLeaseLen)
<1>1. DbInv(d) /\ TruthInv(d)
  BY AfterRetireInv, AfterRetireTruth DEF DbInv
<1> HIDE DEF d
<1>2. d \in Database /\ d.run[k] \in RunRow
  BY <1>1 DEF DbInv, Database
<1>3. row.status # "terminal"
  BY <1>2 DEF ClaimedRow, RunRow
<1> HIDE DEF row
<1>4. /\ WithRun(d, k, row).source = d.source
      /\ WithRun(d, k, row).attempts = d.attempts
      /\ WithRun(d, k, row).run[k] = row
      /\ \A j \in Runs \ {k} : WithRun(d, k, row).run[j] = d.run[j]
  BY <1>2 DEF WithRun, Database
<1>5. TruthInv(WithRun(d, k, row))
  BY <1>1, <1>3, <1>4, OwnerTruth
<1> QED BY <1>1, <1>5 DEF AfterClaim, d, row

LEMMA BindTruth ==
    ASSUME NEW db \in Database, TruthInv(db), NEW k \in Runs, NEW o, NEW s, NEW c, NEW t
    PROVE  TruthInv(AfterBind(db, k, o, s, c, t))
<1> DEFINE row == [db.run[k] EXCEPT !.source = s, !.cut = c, !.status = "running"]
<1>1. row.status = "running"
  BY DEF Database, RunRow
<1> HIDE DEF row
<1>2. /\ WithRun(db, k, row).source = db.source
      /\ WithRun(db, k, row).attempts = db.attempts
      /\ WithRun(db, k, row).run[k] = row
      /\ \A j \in Runs \ {k} : WithRun(db, k, row).run[j] = db.run[j]
  BY DEF WithRun, Database
<1>3. TruthInv(WithRun(db, k, row))
  BY <1>1, <1>2, OwnerTruth
<1> QED BY <1>3 DEF AfterBind, row

LEMMA RunHeartbeatTruth ==
    ASSUME NEW db \in Database, TruthInv(db), NEW k \in Runs, NEW o, NEW t
    PROVE  TruthInv(AfterRunHeartbeat(db, k, o, t))
<1> DEFINE row == [db.run[k] EXCEPT !.leased = t + RunLeaseLen]
<1>1. row.status = db.run[k].status
  BY DEF Database, RunRow
<1> HIDE DEF row
<1>2. /\ WithRun(db, k, row).source = db.source
      /\ WithRun(db, k, row).attempts = db.attempts
      /\ WithRun(db, k, row).run[k] = row
      /\ \A j \in Runs \ {k} : WithRun(db, k, row).run[j] = db.run[j]
  BY DEF WithRun, Database
<1>3. HoldsRun(db, k, o, t) => TruthInv(WithRun(db, k, row))
  BY <1>1, <1>2, OwnerTruth DEF HoldsRun, Active
<1> QED BY <1>3 DEF AfterRunHeartbeat, row

\* The logs of an active run change.
LEMMA LogsTruth ==
    ASSUME NEW db \in Database, TruthInv(db), NEW k \in Runs, Active(db, k),
           NEW logs
    PROVE  TruthInv([db EXCEPT !.attempts[k] = logs])
<1> DEFINE e == [db EXCEPT !.attempts[k] = logs]
<1>1. /\ e.source = db.source
      /\ e.run = db.run
      /\ \A j \in Runs \ {k} : e.attempts[j] = db.attempts[j]
  BY DEF Database
<1> HIDE DEF e
<1>2. e.run[k].status # "terminal"
  BY <1>1 DEF Active
<1>3. TruthInv(e)
  BY <1>1, <1>2, OwnerTruth
<1> QED BY <1>3 DEF e

LEMMA AttemptTruth ==
    ASSUME NEW db \in Database, TruthInv(db), NEW k \in Runs, NEW a \in Artifacts,
           NEW n, NEW outcome, NEW o, NEW t
    PROVE  /\ TruthInv(AfterStart(db, k, a, n, o, t))
           /\ TruthInv(AfterTimeoutAttempts(db, k, o, t))
           /\ TruthInv(AfterFinishAttempt(db, k, a, n, outcome, o, t))
<1>1. CASE Active(db, k)
  <2>1. /\ AfterStart(db, k, a, n, o, t) \in
              {db, [db EXCEPT !.attempts[k] = [db.attempts[k] EXCEPT
                                              ![a] = Append(db.attempts[k][a], "running")]]}
        /\ AfterTimeoutAttempts(db, k, o, t) \in {db, [db EXCEPT !.attempts[k] = Settled(db, k)]}
        /\ AfterFinishAttempt(db, k, a, n, outcome, o, t) \in
              {db, [db EXCEPT !.attempts[k] = [db.attempts[k] EXCEPT ![a][n] = outcome]]}
    BY DEF AfterStart, AfterTimeoutAttempts, AfterFinishAttempt, Database
  <2>2. \A logs : TruthInv([db EXCEPT !.attempts[k] = logs])
    BY <1>1, LogsTruth
  <2> QED BY <2>1, <2>2
<1>2. CASE ~Active(db, k)
  BY <1>2 DEF AfterStart, Starts, AfterTimeoutAttempts, AfterFinishAttempt, FinishesAttempt, HoldsRun
<1> QED BY <1>1, <1>2

LEMMA FinishRunTruth ==
    ASSUME NEW db \in Database, TruthInv(db), NEW k \in Runs, NEW o, NEW outcome, NEW t
    PROVE  TruthInv(AfterFinishRun(db, k, o, outcome, t))
<1> DEFINE e == WithRun(db, k, Ended(db.run[k], outcome))
<1>1. [e EXCEPT !.attempts[k] = db.attempts[k]] = e
  BY DEF WithRun, Database
<1>2. db.attempts[k] \in [Artifacts -> Seq(AttemptStatus)]
  BY DEF Database
<1>3. FinishesRun(db, k, o, outcome, t) => TruthInv([e EXCEPT !.attempts[k] = db.attempts[k]])
  BY <1>2, EndedTruth DEF FinishesRun
<1> QED BY <1>1, <1>3 DEF AfterFinishRun

\* A step of the source table neither discards a payload nor brings one back.
LEMMA SourceTruth ==
    ASSUME NEW db \in Database, TruthInv(db), NEW src \in SourceTable,
           \A s \in SourceIds : db.source[s].status = "completed" => src[s] = db.source[s],
           \A s \in SourceIds : src[s].payload = "pruned" => src[s] = db.source[s]
    PROVE  TruthInv([db EXCEPT !.source = src])
<1> DEFINE e == [db EXCEPT !.source = src]
<1>1. e.source = src /\ e.run = db.run /\ e.attempts = db.attempts
  BY DEF Database
<1> HIDE DEF e
<1>2. TruthInv(e)
  BY <1>1 DEF TruthInv, PrunedCompleted, Truthful
<1> QED BY <1>2 DEF e

\* No RPC of the sources writes a pruned row.
LEMMA PrunedRowIsOld ==
    ASSUME NEW src \in SourceTable, PrunedCompleted(src), NEW r \in SourceIds,
           NEW s \in SourceIds, NEW o \in Owners, NEW t \in Nat
    PROVE  /\ AfterAcquire(src, s, o, t)[r].payload = "pruned" => src[r].payload = "pruned"
           /\ AfterFail(src, s, o, t)[r].payload = "pruned" => src[r].payload = "pruned"
           /\ AfterSourceHeartbeat(src, s, o, t)[r].payload = "pruned" => src[r].payload = "pruned"
           /\ \A c \in Cuts : AfterComplete(src, s, o, c, t)[r].payload = "pruned" =>
                  src[r].payload = "pruned"
<1> USE DEF SourceTable, SourceRow
<1>1. Reaped(src, t)[r].payload = src[r].payload
  BY DEF Reaped
<1>2. Reaped(src, t) \in SourceTable
  BY ReapedType
<1>3. AfterAcquire(src, s, o, t)[r].payload = "pruned" => src[r].payload = "pruned"
  BY <1>1, <1>2 DEF AfterAcquire, RunningRow
<1>4. AfterFail(src, s, o, t)[r].payload = "pruned" => src[r].payload = "pruned"
  BY DEF AfterFail
<1>5. AfterSourceHeartbeat(src, s, o, t)[r].payload = "pruned" => src[r].payload = "pruned"
  BY DEF AfterSourceHeartbeat
<1>6. \A c \in Cuts : AfterComplete(src, s, o, c, t)[r].payload = "pruned" =>
          src[r].payload = "pruned"
  BY DEF AfterComplete
<1> QED BY <1>3, <1>4, <1>5, <1>6

\* Retention calls a run timed_out only with the discarded cut to show for it:
\* the one run that is active is the only one that can keep the payload.
LEMMA PruneTruth ==
    ASSUME NEW db, DbInv(db), TruthInv(db), NEW s \in SourceIds, NEW t \in Nat
    PROVE  TruthInv(AfterPrune(db, s, t))
<1> DEFINE expired == {k \in BoundTo(db, s) : Active(db, k) /\ db.run[k].leased <= t}
           logs == [k \in Runs |-> IF k \in expired THEN Settled(db, k) ELSE db.attempts[k]]
           rows == [k \in Runs |-> IF k \in expired THEN Ended(db.run[k], "timed_out")
                                                   ELSE db.run[k]]
           d    == [db EXCEPT !.attempts = logs, !.run = rows]
           e    == [d EXCEPT !.source[s] = [@ EXCEPT !.payload = "pruned"]]
<1>1. db \in Database /\ \A k \in Runs : db.run[k] \in RunRow
  BY DEF DbInv, Database
<1>2. CASE ~Prunable(db, s, t)
  BY <1>2 DEF AfterPrune
<1>3. CASE Prunable(db, s, t)
  <2>1. \A k \in BoundTo(db, s) : Active(db, k) => k \in expired
    BY <1>1, <1>3 DEF Prunable, BoundTo, RunRow
  <2>2. \A k \in Runs : k \in expired =>
            /\ rows[k].status = "terminal"
            /\ rows[k].outcome = "timed_out"
            /\ rows[k].source = s
    BY <1>1 DEF BoundTo, Ended, RunRow
  <2>3. \A k \in Runs : k \notin expired => rows[k] = db.run[k] /\ logs[k] = db.attempts[k]
    OBVIOUS
  <2>4. d.run = rows /\ d.source = db.source
    BY <1>1 DEF Database
  <2>5. \A k \in BoundTo(db, s) : ~Active(d, k)
    <3> HIDE DEF rows, d, expired
    <3> QED BY <2>1, <2>2, <2>3, <2>4 DEF Active, BoundTo
  <2>6. AfterPrune(db, s, t) = e
    BY <1>3, <2>5 DEF AfterPrune
  <2>7. /\ e.run = rows
        /\ e.attempts = logs
        /\ e.source[s].payload = "pruned"
        /\ e.source[s].status = db.source[s].status
        /\ \A r \in SourceIds \ {s} : e.source[r] = db.source[r]
    BY <1>1 DEF Database, SourceTable, SourceRow
  <2> HIDE DEF rows, logs, d, e, expired
  <2>8. PrunedCompleted(e.source)
    BY <1>3, <2>7 DEF TruthInv, PrunedCompleted, Prunable
  <2>9. ASSUME NEW k \in Runs
        PROVE  Truthful(e.source, e.run[k], e.attempts[k], Requested[k])
    <3>1. CASE k \in expired
      BY <2>2, <2>7, <3>1 DEF Truthful
    <3>2. CASE k \notin expired
      <4>1. \A r \in SourceIds : db.source[r].payload = "pruned" => e.source[r].payload = "pruned"
        BY <2>7
      <4> QED BY <2>3, <2>7, <3>2, <4>1 DEF TruthInv, Truthful
    <3> QED BY <3>1, <3>2
  <2> QED BY <2>6, <2>8, <2>9 DEF TruthInv
<1> QED BY <1>2, <1>3

=============================================================================
