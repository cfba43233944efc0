--------------------------- MODULE HydrationProofs ---------------------------
(***************************************************************************)
(* For every set of runs, artifacts, sources and owners, every lease length *)
(* and every lag of now(): the invariants of the hydration store and what   *)
(* its steps never do, first of the source table alone (SourceExecution),   *)
(* then of the table with the runs that bind its rows (HydrationStore).     *)
(* Each action is one RPC on the database; what the RPC preserves, and what *)
(* it may do to a run, is in HydrationTheorems.                             *)
(***************************************************************************)
EXTENDS HydrationStore, SourceExecution, HydrationTheorems

LEMMA TxnStartsType == TxnStarts \subseteq Nat
BY DEF TxnStarts

\* now() never runs ahead of the clock.
LEMMA TxnStartsPast ==
    ASSUME now \in Nat
    PROVE  TxnStarts \subseteq Nat /\ \A t \in TxnStarts : t <= now
BY DEF TxnStarts

-----------------------------------------------------------------------------
(* The source table alone *)

\* The type invariant of the source table.
THEOREM SourceTypeCorrect == SourceSpec => []SourceTypeOK
<1>1. SourceInit => SourceTypeOK
  BY SourceLeaseAssumption
     DEF SourceInit, SourceTypeOK, SourceTable, SourceRow, SourceStatus, PayloadState, AbsentRow
<1>2. SourceTypeOK /\ [SourceNext]_sourceVars => SourceTypeOK'
  <2> SUFFICES ASSUME SourceTypeOK, [SourceNext]_sourceVars PROVE SourceTypeOK'
    OBVIOUS
  <2> USE TxnStartsType DEF SourceTypeOK
  <2>1. CASE SourceTick
    BY <2>1 DEF SourceTick, Advance
  <2>2. CASE Reap
    BY <2>2, ReapedType DEF Reap
  <2>3. ASSUME NEW s \in SourceIds, Discard(s) PROVE SourceTypeOK'
    BY <2>3 DEF Discard, SourceTable, SourceRow, PayloadState
  <2>4. ASSUME NEW s \in SourceIds, NEW o \in Owners, Acquire(s, o) PROVE SourceTypeOK'
    BY <2>4, AcquireType DEF Acquire
  <2>5. ASSUME NEW s \in SourceIds, NEW o \in Owners, Complete(s, o) PROVE SourceTypeOK'
    BY <2>5, CompleteType DEF Complete
  <2>6. ASSUME NEW s \in SourceIds, NEW o \in Owners, Fail(s, o) PROVE SourceTypeOK'
    BY <2>6, FailType DEF Fail
  <2>7. ASSUME NEW s \in SourceIds, NEW o \in Owners, Heartbeat(s, o) PROVE SourceTypeOK'
    BY <2>7, SourceHeartbeatType DEF Heartbeat
  <2>8. CASE UNCHANGED sourceVars
    BY <2>8 DEF sourceVars
  <2> QED BY <2>1, <2>2, <2>3, <2>4, <2>5, <2>6, <2>7, <2>8 DEF SourceNext
<1> QED BY <1>1, <1>2, PTL DEF SourceSpec

-----------------------------------------------------------------------------
(* Mutual exclusion: acquire is the only RPC that starts a row, and the    *)
(* partial unique index stops it while another row runs.                   *)

\* One active reporting source load, whatever the loaders do.
THEOREM MutualExclusion == SourceSpec => []OneRunning
<1>1. SourceInit => OneRunning
  BY DEF SourceInit, OneRunning, AbsentRow
<1>2. SourceTypeOK /\ OneRunning /\ [SourceNext]_sourceVars => OneRunning'
  <2> SUFFICES ASSUME SourceTypeOK, OneRunning, [SourceNext]_sourceVars PROVE AtMostOneRunning(source')
    BY DEF OneRunning, AtMostOneRunning
  <2> USE TxnStartsType
  <2>0. source \in SourceTable /\ AtMostOneRunning(source)
    BY DEF SourceTypeOK, OneRunning, AtMostOneRunning
  <2>1. CASE UNCHANGED source
    BY <2>0, <2>1
  <2>2. CASE Reap
    BY <2>0, <2>2, ReapedMutex DEF Reap
  <2>3. ASSUME NEW s \in SourceIds, Discard(s) PROVE AtMostOneRunning(source')
    BY <2>0, <2>3 DEF Discard, AtMostOneRunning, SourceTable, SourceRow
  <2>4. ASSUME NEW s \in SourceIds, NEW o \in Owners, Acquire(s, o)
        PROVE  AtMostOneRunning(source')
    BY <2>0, <2>4, AcquireMutex DEF Acquire
  <2>5. ASSUME NEW s \in SourceIds, NEW o \in Owners, Complete(s, o)
        PROVE  AtMostOneRunning(source')
    BY <2>0, <2>5, CompleteMutex DEF Complete
  <2>6. ASSUME NEW s \in SourceIds, NEW o \in Owners, Fail(s, o)
        PROVE  AtMostOneRunning(source')
    BY <2>0, <2>6, FailMutex DEF Fail
  <2>7. ASSUME NEW s \in SourceIds, NEW o \in Owners, Heartbeat(s, o)
        PROVE  AtMostOneRunning(source')
    BY <2>0, <2>7, SourceHeartbeatMutex DEF Heartbeat
  <2> QED BY <2>1, <2>2, <2>3, <2>4, <2>5, <2>6, <2>7 DEF SourceNext, SourceTick, Advance, sourceVars
<1> QED BY <1>1, <1>2, SourceTypeCorrect, PTL DEF SourceSpec

-----------------------------------------------------------------------------
(* The refinement: a completed row is never rewritten, and a row becomes   *)
(* completed in one step that publishes one cut.                           *)

LEMMA RegisterStep ==
    ASSUME SourceTypeOK, [SourceNext]_sourceVars
    PROVE  [Register!CRNext]_PublishedCut
<1> USE TxnStartsType, SourceLeaseAssumption DEF PublishedCut
<1>0. source \in SourceTable
  BY DEF SourceTypeOK
<1>1. ASSUME NEW s \in SourceIds, NEW o \in Owners, Complete(s, o)
      PROVE  [Register!CRNext]_PublishedCut
  <2>1. PICK t \in TxnStarts, c \in Cuts : source' = AfterComplete(source, s, o, c, t)
    BY <1>1 DEF Complete
  <2>2. CASE HoldsSource(source, s, o, t)
    <3>1. PublishedCut[s] = NoCut
      BY <2>2 DEF HoldsSource
    <3>2. source' = [source EXCEPT ![s] = [source[s] EXCEPT !.status = "completed",
                                              !.cut = c, !.payload = "kept"]]
      BY <2>1, <2>2 DEF AfterComplete
    <3>3. source'[s].status = "completed" /\ source'[s].cut = c
      BY <1>0, <3>2 DEF SourceTable, SourceRow
    <3>4. \A r \in SourceIds \ {s} : source'[r] = source[r]
      BY <1>0, <3>2 DEF SourceTable
    <3>5. PublishedCut' = [PublishedCut EXCEPT ![s] = c]
      BY <3>3, <3>4
    <3>6. Register!Publish(s, c)
      BY <3>1, <3>5 DEF Register!Publish
    <3> QED BY <3>6 DEF Register!CRNext
  <2>3. CASE ~HoldsSource(source, s, o, t)
    BY <2>1, <2>3 DEF AfterComplete
  <2> QED BY <2>2, <2>3
<1>2. ASSUME \A r \in SourceIds :
               /\ source'[r].status = "completed" <=> source[r].status = "completed"
               /\ source[r].status = "completed" => source'[r].cut = source[r].cut
      PROVE  PublishedCut' = PublishedCut
  BY <1>2
<1>3. ASSUME NEW t \in TxnStarts, source' = Reaped(source, t)
      PROVE  PublishedCut' = PublishedCut
  BY <1>0, <1>2, <1>3 DEF Reaped, SourceTable, SourceRow
<1>4. CASE Reap
  BY <1>3, <1>4 DEF Reap
<1>5. ASSUME NEW s \in SourceIds, Discard(s) PROVE PublishedCut' = PublishedCut
  BY <1>0, <1>2, <1>5 DEF Discard, SourceTable, SourceRow
<1>6. ASSUME NEW s \in SourceIds, NEW o \in Owners, Acquire(s, o)
      PROVE  PublishedCut' = PublishedCut
  <2>1. PICK t \in TxnStarts : source' = AfterAcquire(source, s, o, t)
    BY <1>6 DEF Acquire
  <2>2. CASE source' = source
    BY <2>2
  <2>3. CASE source' = Reaped(source, t)
    BY <1>3, <2>3
  <2>4. CASE /\ CanAcquire(Reaped(source, t), s)
             /\ source' = [Reaped(source, t) EXCEPT ![s] = RunningRow(o, t + SourceLeaseLen)]
    <3>1. Reaped(source, t) \in SourceTable
      BY <1>0, ReapedType
    <3>2. source'[s].status = "running"
      BY <3>1, <2>4 DEF RunningRow, SourceTable
    <3>3. source[s].status # "completed"
      BY <2>4, <1>0, <3>1 DEF CanAcquire, Reaped, SourceTable, SourceRow
    <3>4. \A r \in SourceIds \ {s} : source'[r] = Reaped(source, t)[r]
      BY <3>1, <2>4 DEF SourceTable
    <3>5. \A r \in SourceIds \ {s} :
             /\ source'[r].status = "completed" <=> source[r].status = "completed"
             /\ source[r].status = "completed" => source'[r].cut = source[r].cut
      BY <1>0, <3>4 DEF Reaped, SourceTable, SourceRow
    <3> QED BY <1>2, <3>2, <3>3, <3>5
  <2> QED BY <2>1, <2>2, <2>3, <2>4 DEF AfterAcquire
<1>7. ASSUME NEW s \in SourceIds, NEW o \in Owners, Fail(s, o)
      PROVE  PublishedCut' = PublishedCut
  BY <1>0, <1>2, <1>7 DEF Fail, AfterFail, SourceTable, SourceRow
<1>8. ASSUME NEW s \in SourceIds, NEW o \in Owners, Heartbeat(s, o)
      PROVE  PublishedCut' = PublishedCut
  BY <1>0, <1>2, <1>8 DEF Heartbeat, AfterSourceHeartbeat, SourceTable, SourceRow
<1>9. CASE UNCHANGED source
  BY <1>9
<1> QED BY <1>1, <1>4, <1>5, <1>6, <1>7, <1>8, <1>9 DEF SourceNext, SourceTick, Advance, sourceVars

\* The table implements the write-once register: every published cut stays.
THEOREM Refinement == SourceSpec => ImplementsCutRegister
<1>1. SourceInit => Register!CRInit
  BY DEF SourceInit, Register!CRInit, PublishedCut, AbsentRow
<1>2. SourceTypeOK /\ [SourceNext]_sourceVars => [Register!CRNext]_PublishedCut
  BY RegisterStep
<1> QED BY <1>1, <1>2, SourceTypeCorrect, PTL DEF SourceSpec, ImplementsCutRegister, Register!CRSpec

-----------------------------------------------------------------------------
(* A live lease: now() never runs ahead of the clock, so an RPC that finds *)
(* the lease passed finds it passed on the clock too.                      *)

LEMMA LiveLeaseStep ==
    ASSUME SourceTypeOK, OneRunning, [SourceNext]_sourceVars,
           NEW s \in SourceIds, source[s].status = "running", source[s].leased > now
    PROVE  /\ source'[s].owner = source[s].owner
           /\ \A r \in SourceIds \ {s} :
                  source'[r].status = "running" => source[r].status = "running"
<1> DEFINE Goal == /\ source'[s].owner = source[s].owner
                   /\ \A r \in SourceIds \ {s} :
                          source'[r].status = "running" => source[r].status = "running"
<1>0. source \in SourceTable /\ now \in Nat
  BY DEF SourceTypeOK
<1>1. \A t \in TxnStarts : Reaped(source, t)[s] = source[s]
  BY <1>0 DEF TxnStarts, Reaped, SourceTable, SourceRow
<1>2. ASSUME NEW t \in TxnStarts, source' = Reaped(source, t) PROVE Goal
  BY <1>0, <1>1, <1>2 DEF Reaped, SourceTable, SourceRow
<1>3. CASE Reap
  BY <1>2, <1>3 DEF Reap
<1>4. ASSUME NEW a \in SourceIds, Discard(a) PROVE Goal
  BY <1>0, <1>4 DEF Discard, SourceTable, SourceRow
<1>5. ASSUME NEW a \in SourceIds, NEW o \in Owners, Acquire(a, o) PROVE Goal
  <2>1. PICK t \in TxnStarts : source' = AfterAcquire(source, a, o, t)
    BY <1>5 DEF Acquire
  <2>2. ~CanAcquire(Reaped(source, t), a)
    BY <1>1 DEF CanAcquire, SourceMutexFree
  <2> QED BY <1>2, <2>1, <2>2 DEF AfterAcquire
<1>6. ASSUME NEW a \in SourceIds, NEW o \in Owners, Complete(a, o) PROVE Goal
  BY <1>0, <1>6 DEF Complete, AfterComplete, SourceTable, SourceRow
<1>7. ASSUME NEW a \in SourceIds, NEW o \in Owners, Fail(a, o) PROVE Goal
  BY <1>0, <1>7 DEF Fail, AfterFail, SourceTable, SourceRow
<1>8. ASSUME NEW a \in SourceIds, NEW o \in Owners, Heartbeat(a, o) PROVE Goal
  BY <1>0, <1>8 DEF Heartbeat, AfterSourceHeartbeat, SourceTable, SourceRow
<1>9. CASE UNCHANGED source
  BY <1>9
<1> QED BY <1>3, <1>4, <1>5, <1>6, <1>7, <1>8, <1>9 DEF SourceNext, SourceTick, Advance, sourceVars

\* No other owner, and no other execution, gets past a live lease.
THEOREM LiveLease == SourceSpec => LiveLeaseExcludes
<1>1. SourceTypeOK /\ OneRunning /\ [SourceNext]_sourceVars =>
        [\A s \in SourceIds :
            source[s].status = "running" /\ source[s].leased > now =>
                /\ source'[s].owner = source[s].owner
                /\ \A r \in SourceIds \ {s} :
                       source'[r].status = "running" => source[r].status = "running"]_sourceVars
  BY LiveLeaseStep
<1> QED BY <1>1, SourceTypeCorrect, MutualExclusion, PTL DEF SourceSpec, LiveLeaseExcludes

-----------------------------------------------------------------------------
(* The table with the runs that bind its rows *)

LEMMA SourceStep ==
    ASSUME NEW src \in SourceTable, DbInv(db),
           \A s \in SourceIds : db.source[s].status = "completed" => src[s] = db.source[s],
           db' = [db EXCEPT !.source = src]
    PROVE  /\ DbInv(db')
           /\ Respects(db, db', now)
           /\ KeepsBindings(db, db')
<1>1. db'.run = db.run /\ db'.attempts = db.attempts
  BY DEF DbInv, Database
<1> QED BY <1>1, SourceStepInv, StutterStep

\* One step of the store: the invariant is kept, no run is disturbed, and a
\* binding changes only in the step that makes it.
LEMMA StoreStep ==
    ASSUME now \in Nat, DbInv(db), [Next]_vars
    PROVE  /\ now' \in Nat
           /\ DbInv(db')
           /\ Respects(db, db', now)
           /\ \/ KeepsBindings(db, db')
              \/ \E k \in Runs, s \in SourceIds, c \in Cuts :
                     /\ db.run[k].source = NoSource
                     /\ db'.run[k].source = s
                     /\ db'.run[k].cut = c
                     /\ \A j \in Runs \ {k} : KeepsBinding(db, db', j)
<1> DEFINE Quiet == /\ now' \in Nat
                    /\ DbInv(db')
                    /\ Respects(db, db', now)
                    /\ KeepsBindings(db, db')
<1>0. /\ db \in Database
      /\ db.source \in SourceTable
      /\ \A t \in TxnStarts : t \in Nat /\ t <= now
  BY TxnStartsPast DEF DbInv, Database
<1>1. ASSUME UNCHANGED db, now' \in Nat PROVE Quiet
  BY <1>1, StutterStep
<1>2. CASE Tick
  BY <1>1, <1>2 DEF Tick, Advance
<1>3. CASE UNCHANGED vars
  BY <1>1, <1>3 DEF vars
<1>4. ASSUME NEW s \in SourceIds, Prune(s) PROVE Quiet
  <2>1. PICK t \in TxnStarts : db' = AfterPrune(db, s, t)
    BY <1>4 DEF Prune
  <2> QED BY <1>0, <1>4, <2>1, PruneInv, PruneStep, RespectsLater DEF Prune
<1>5. ASSUME NEW s \in SourceIds, NEW o \in Owners, AcquireSource(s, o) PROVE Quiet
  <2>1. PICK t \in TxnStarts : db' = [db EXCEPT !.source = AfterAcquire(db.source, s, o, t)]
    BY <1>5 DEF AcquireSource
  <2> QED BY <1>0, <1>5, <2>1, AcquireType, CompletedRowStays, SourceStep DEF AcquireSource
<1>6. ASSUME NEW s \in SourceIds, NEW o \in Owners, CompleteSource(s, o) PROVE Quiet
  <2>1. PICK t \in TxnStarts, c \in Cuts :
           db' = [db EXCEPT !.source = AfterComplete(db.source, s, o, c, t)]
    BY <1>6 DEF CompleteSource
  <2>2. AfterComplete(db.source, s, o, c, t) \in SourceTable
    BY <1>0, <2>1, CompleteType
  <2>3. \A r \in SourceIds : db.source[r].status = "completed" =>
            AfterComplete(db.source, s, o, c, t)[r] = db.source[r]
    BY <1>0, <2>1, CompletedRowStays
  <2>4. DbInv(db') /\ Respects(db, db', now) /\ KeepsBindings(db, db')
    BY <2>1, <2>2, <2>3, SourceStep
  <2> QED BY <2>4, <1>6 DEF CompleteSource
<1>7. ASSUME NEW s \in SourceIds, NEW o \in Owners, FailSource(s, o) PROVE Quiet
  <2>1. PICK t \in TxnStarts : db' = [db EXCEPT !.source = AfterFail(db.source, s, o, t)]
    BY <1>7 DEF FailSource
  <2> QED BY <1>0, <1>7, <2>1, FailType, CompletedRowStays, SourceStep DEF FailSource
<1>8. ASSUME NEW s \in SourceIds, NEW o \in Owners, HeartbeatSource(s, o) PROVE Quiet
  <2>1. PICK t \in TxnStarts :
           db' = [db EXCEPT !.source = AfterSourceHeartbeat(db.source, s, o, t)]
    BY <1>8 DEF HeartbeatSource
  <2>2. AfterSourceHeartbeat(db.source, s, o, t) \in SourceTable
    BY <1>0, <2>1, SourceHeartbeatType
  <2>3. \A r \in SourceIds : db.source[r].status = "completed" =>
            AfterSourceHeartbeat(db.source, s, o, t)[r] = db.source[r]
    BY <1>0, <2>1, CompletedRowStays
  <2>4. DbInv(db') /\ Respects(db, db', now) /\ KeepsBindings(db, db')
    BY <2>1, <2>2, <2>3, SourceStep
  <2> QED BY <2>4, <1>8 DEF HeartbeatSource
<1>9. ASSUME NEW k \in Runs, NEW o \in Owners, Claim(k, o) PROVE Quiet
  <2>1. PICK t \in TxnStarts : db' = AfterClaim(db, k, o, t)
    BY <1>9 DEF Claim
  <2> QED BY <1>0, <1>9, <2>1, ClaimInv, ClaimStep, RespectsLater DEF Claim
<1>10. ASSUME NEW k \in Runs, NEW o \in Owners, Bind(k, o)
       PROVE  /\ now' \in Nat
              /\ DbInv(db')
              /\ Respects(db, db', now)
              /\ \E s \in SourceIds, c \in Cuts :
                     /\ db.run[k].source = NoSource
                     /\ db'.run[k].source = s
                     /\ db'.run[k].cut = c
                     /\ \A j \in Runs \ {k} : KeepsBinding(db, db', j)
  <2>1. PICK t \in TxnStarts, s \in SourceIds, c \in Cuts :
           Binds(db, k, o, s, c, t) /\ db' = AfterBind(db, k, o, s, c, t)
    BY <1>10 DEF Bind
  <2>2. DbInv(db') /\ Respects(db, db', t)
    BY <1>0, <2>1, BindInv, BindStep
  <2>3. /\ db.run[k].source = NoSource
        /\ db'.run[k].source = s
        /\ db'.run[k].cut = c
        /\ \A j \in Runs \ {k} : KeepsBinding(db, db', j)
    BY <1>0, <2>1, BindStep
  <2>4. Respects(db, db', now)
    BY <1>0, <2>2, RespectsLater
  <2> QED BY <1>10, <2>2, <2>3, <2>4 DEF Bind
<1>11. ASSUME NEW k \in Runs, NEW o \in Owners, TimeoutAttempts(k, o) PROVE Quiet
  <2>1. PICK t \in TxnStarts : db' = AfterTimeoutAttempts(db, k, o, t)
    BY <1>11 DEF TimeoutAttempts
  <2> QED BY <1>0, <1>11, <2>1, TimeoutAttemptsInv, TimeoutAttemptsStep, RespectsLater
          DEF TimeoutAttempts
<1>12. ASSUME NEW k \in Runs, NEW o \in Owners, FinishRun(k, o) PROVE Quiet
  <2>1. PICK t \in TxnStarts, outcome \in RunOutcome :
           FinishesRun(db, k, o, outcome, t) /\ db' = AfterFinishRun(db, k, o, outcome, t)
    BY <1>12 DEF FinishRun
  <2> QED BY <1>0, <1>12, <2>1, FinishRunInv, FinishRunStep, RespectsLater DEF FinishRun
<1>13. ASSUME NEW k \in Runs, NEW o \in Owners, HeartbeatRun(k, o) PROVE Quiet
  <2>1. PICK t \in TxnStarts : HoldsRun(db, k, o, t) /\ db' = AfterRunHeartbeat(db, k, o, t)
    BY <1>13 DEF HeartbeatRun
  <2> QED BY <1>0, <1>13, <2>1, RunHeartbeatInv, RunHeartbeatStep, RespectsLater DEF HeartbeatRun
<1>14. ASSUME NEW k \in Runs, NEW o \in Owners, NEW a \in Artifacts, StartAttempt(k, a, o)
       PROVE  Quiet
  <2>1. PICK t \in TxnStarts, n \in 1..MaxAttempts[a] :
           Starts(db, k, a, n, o, t) /\ db' = AfterStart(db, k, a, n, o, t)
    BY <1>14 DEF StartAttempt
  <2>2. n \in Nat
    BY HydrationStoreAssumption
  <2> QED BY <1>0, <1>14, <2>1, <2>2, StartInv, StartStep, RespectsLater DEF StartAttempt
<1>15. ASSUME NEW k \in Runs, NEW o \in Owners, NEW a \in Artifacts, FinishAttempt(k, a, o)
       PROVE  Quiet
  <2>1. PICK t \in TxnStarts, n \in 1..MaxAttempts[a], outcome \in AttemptStatus \ {"running"} :
           /\ FinishesAttempt(db, k, a, n, o, t)
           /\ db' = AfterFinishAttempt(db, k, a, n, outcome, o, t)
    BY <1>15 DEF FinishAttempt
  <2>2. n \in Nat
    BY HydrationStoreAssumption
  <2> QED BY <1>0, <1>15, <2>1, <2>2, FinishAttemptInv, FinishAttemptStep, RespectsLater
          DEF FinishAttempt
<1> QED BY <1>2, <1>3, <1>4, <1>5, <1>6, <1>7, <1>8, <1>9, <1>10, <1>11, <1>12, <1>13, <1>14, <1>15
        DEF Next

LEMMA SourceTruthStep ==
    ASSUME NEW s \in SourceIds, NEW o \in Owners, NEW t \in TxnStarts, now \in Nat,
           DbInv(db), TruthInv(db),
           \/ db' = [db EXCEPT !.source = AfterAcquire(db.source, s, o, t)]
           \/ \E c \in Cuts : db' = [db EXCEPT !.source = AfterComplete(db.source, s, o, c, t)]
           \/ db' = [db EXCEPT !.source = AfterFail(db.source, s, o, t)]
           \/ db' = [db EXCEPT !.source = AfterSourceHeartbeat(db.source, s, o, t)]
    PROVE  TruthInv(db')
<1>1. db \in Database /\ db.source \in SourceTable /\ PrunedCompleted(db.source) /\ t \in Nat
  BY TxnStartsPast DEF DbInv, Database, TruthInv
<1>2. ASSUME NEW src \in SourceTable, db' = [db EXCEPT !.source = src],
             \A r \in SourceIds : db.source[r].status = "completed" => src[r] = db.source[r],
             \A r \in SourceIds : src[r].payload = "pruned" => db.source[r].payload = "pruned"
      PROVE  TruthInv(db')
  BY <1>1, <1>2, SourceTruth DEF PrunedCompleted
<1>3. CASE db' = [db EXCEPT !.source = AfterAcquire(db.source, s, o, t)]
  BY <1>1, <1>2, <1>3, AcquireType, CompletedRowStays, PrunedRowIsOld
<1>4. ASSUME NEW c \in Cuts, db' = [db EXCEPT !.source = AfterComplete(db.source, s, o, c, t)]
      PROVE  TruthInv(db')
  <2>1. AfterComplete(db.source, s, o, c, t) \in SourceTable
    BY <1>1, CompleteType
  <2> QED BY <1>1, <1>2, <1>4, <2>1, CompletedRowStays, PrunedRowIsOld
<1>5. CASE db' = [db EXCEPT !.source = AfterFail(db.source, s, o, t)]
  BY <1>1, <1>2, <1>5, FailType, CompletedRowStays, PrunedRowIsOld
<1>6. CASE db' = [db EXCEPT !.source = AfterSourceHeartbeat(db.source, s, o, t)]
  <2>1. AfterSourceHeartbeat(db.source, s, o, t) \in SourceTable
    BY <1>1, SourceHeartbeatType
  <2> QED BY <1>1, <1>2, <1>6, <2>1, CompletedRowStays, PrunedRowIsOld
<1> QED BY <1>3, <1>4, <1>5, <1>6

\* Whoever ends a run ends it with what its attempts show, or calls it timed
\* out with no attempt, or no cut, to speak against it.
LEMMA TruthStep ==
    ASSUME now \in Nat, DbInv(db), TruthInv(db), [Next]_vars
    PROVE  TruthInv(db')
<1>0. db \in Database /\ \A t \in TxnStarts : t \in Nat
  BY TxnStartsPast DEF DbInv
<1>1. CASE UNCHANGED db
  BY <1>1
<1>2. ASSUME NEW s \in SourceIds, Prune(s) PROVE TruthInv(db')
  BY <1>0, <1>2, PruneTruth DEF Prune
<1>3. ASSUME NEW s \in SourceIds, NEW o \in Owners,
             \/ AcquireSource(s, o) \/ CompleteSource(s, o)
             \/ FailSource(s, o) \/ HeartbeatSource(s, o)
      PROVE  TruthInv(db')
  BY <1>3, SourceTruthStep DEF AcquireSource, CompleteSource, FailSource, HeartbeatSource
<1>4. ASSUME NEW k \in Runs, NEW o \in Owners,
             \/ Claim(k, o) \/ Bind(k, o) \/ FinishRun(k, o) \/ HeartbeatRun(k, o)
      PROVE  TruthInv(db')
  BY <1>0, <1>4, ClaimTruth, BindTruth, FinishRunTruth, RunHeartbeatTruth
     DEF Claim, Bind, FinishRun, HeartbeatRun
<1>5. ASSUME NEW k \in Runs, NEW o \in Owners, TimeoutAttempts(k, o) PROVE TruthInv(db')
  <2>1. PICK a \in Artifacts : TRUE
    BY <1>5 DEF TimeoutAttempts, HasRunningAttempt
  <2> QED BY <1>0, <1>5, <2>1, AttemptTruth DEF TimeoutAttempts
<1>6. ASSUME NEW k \in Runs, NEW o \in Owners, NEW a \in Artifacts,
             StartAttempt(k, a, o) \/ FinishAttempt(k, a, o)
      PROVE  TruthInv(db')
  BY <1>0, <1>6, AttemptTruth DEF StartAttempt, FinishAttempt
<1> QED BY <1>1, <1>2, <1>3, <1>4, <1>5, <1>6 DEF Next, Tick, Advance, vars

-----------------------------------------------------------------------------
(* Invariants *)

IInv == now \in Nat /\ DbInv(db)

\* The inductive invariant: types, one active run, settled logs, and for an
\* active run a binding that matches its status and can be replayed.
THEOREM Inductive == Spec => []IInv
<1>1. Init => IInv
  BY EmptyDatabaseInv DEF Init, IInv
<1>2. IInv /\ [Next]_vars => IInv'
  BY StoreStep DEF IInv
<1> QED BY <1>1, <1>2, PTL DEF Spec

\* The type invariant of the three tables.
THEOREM TypeCorrect == Spec => []TypeOK
<1>1. IInv => TypeOK
  BY DEF IInv, DbInv, TypeOK
<1> QED BY <1>1, Inductive, PTL

\* The durable invariant of 026: across every dedupe key one run is active.
THEOREM OneRunActive == Spec => []OneActiveRun
<1>1. IInv => OneActiveRun
  BY DEF IInv, DbInv, OneActive, OneActiveRun
<1> QED BY <1>1, Inductive, PTL

\* No takeover, recovery or sweep leaves an attempt running, and a certified
\* attempt is the last of its artifact.
THEOREM LogsSettled == Spec => []AttemptLogs
<1>1. IInv => AttemptLogs
  BY DEF IInv, DbInv, RunInv, LogSettled, LogIdle, AttemptLogs
<1> QED BY <1>1, Inductive, PTL

\* An active run that is bound can replay its cut.
THEOREM Pinned == Spec => []SourcePinned
<1>1. IInv => SourcePinned
  BY DEF IInv, DbInv, RunInv, Active, SourcePinned
<1> QED BY <1>1, Inductive, PTL

\* A terminal run says what its attempts show, whoever ended it: its owner, a
\* claim that recovered it or the retention job.
THEOREM OutcomesTold == Spec => []OutcomeTruthful
<1>1. Init => TruthInv(db)
  BY EmptyDatabaseTruth DEF Init
<1>2. IInv /\ TruthInv(db) /\ [Next]_vars => TruthInv(db)'
  BY TruthStep DEF IInv
<1>3. TruthInv(db) => OutcomeTruthful
  BY DEF TruthInv, Truthful, OutcomeTruthful
<1> QED BY <1>1, <1>2, <1>3, Inductive, PTL DEF Spec

-----------------------------------------------------------------------------
(* Action properties *)

\* A run whose lease is live keeps its owner and ends only by its finish.
THEOREM LiveRun == Spec => LiveRunUndisturbed
<1>1. IInv /\ [Next]_vars =>
        [\A k \in Runs :
            Active(db, k) /\ db.run[k].leased > now =>
                /\ db'.run[k].owner = db.run[k].owner
                /\ ~Active(db', k) =>
                       db'.attempts[k] = db.attempts[k] /\ ~HasRunningAttempt(db, k)]_vars
  BY StoreStep DEF IInv, Respects, KeepsLive
<1> QED BY <1>1, Inductive, PTL DEF Spec, LiveRunUndisturbed

\* A run that succeeded, or changed nothing, is final.
THEOREM SuccessStays == Spec => SuccessIsFinal
<1>1. IInv /\ [Next]_vars =>
        [\A k \in Runs :
            db.run[k].status = "terminal" /\ db.run[k].outcome \in {"succeeded", "no_change"} =>
                db'.run[k] = db.run[k] /\ db'.attempts[k] = db.attempts[k]]_vars
  BY StoreStep DEF IInv, Respects, KeepsSuccess, Sealed
<1> QED BY <1>1, Inductive, PTL DEF Spec, SuccessIsFinal

\* The binding of a run implements the write-once register.
THEOREM BindingRefinement == Spec => ImplementsBinding
<1>1. Init => Binding!CRInit
  BY DEF Init, EmptyDatabase, AbsentRun, BoundCut, Binding!CRInit
<1>2. IInv /\ [Next]_vars => [Binding!CRNext]_BoundCut
  <2> SUFFICES ASSUME IInv, [Next]_vars PROVE [Binding!CRNext]_BoundCut
    OBVIOUS
  <2>1. CASE KeepsBindings(db, db')
    BY <2>1 DEF KeepsBindings, KeepsBinding, BoundCut
  <2>2. ASSUME NEW k \in Runs, NEW s \in SourceIds, NEW c \in Cuts,
               db.run[k].source = NoSource, db'.run[k].source = s, db'.run[k].cut = c,
               \A j \in Runs \ {k} : KeepsBinding(db, db', j)
        PROVE  Binding!CRNext
    <3>1. s # NoSource
      BY HydrationRpcAssumption
    <3>2. BoundCut[k] = NoCut /\ BoundCut' = [BoundCut EXCEPT ![k] = <<s, c>>]
      BY <2>2, <3>1 DEF KeepsBinding, BoundCut
    <3> QED BY <3>2 DEF Binding!CRNext, Binding!Publish
  <2> QED BY <2>1, <2>2, StoreStep DEF IInv
<1> QED BY <1>1, <1>2, Inductive, PTL DEF Spec, ImplementsBinding, Binding!CRSpec

-----------------------------------------------------------------------------
(* The store implements the source table on its own: what SourceExecution   *)
(* proves of that table is true of the table the runs are bound to.         *)

\* The RPCs of the table are the same in both modules.
LEMMA SameRpcs ==
    ASSUME NEW src, NEW s, NEW o, NEW t
    PROVE  /\ Loads!TxnStarts = TxnStarts
           /\ Loads!AfterAcquire(src, s, o, t) = AfterAcquire(src, s, o, t)
           /\ \A c \in Cuts : Loads!AfterComplete(src, s, o, c, t) = AfterComplete(src, s, o, c, t)
           /\ Loads!AfterFail(src, s, o, t) = AfterFail(src, s, o, t)
           /\ Loads!AfterSourceHeartbeat(src, s, o, t) = AfterSourceHeartbeat(src, s, o, t)
<1>1. Loads!TxnStarts = TxnStarts
  BY DEF Loads!TxnStarts, TxnStarts
<1>2. Loads!HoldsSource(src, s, o, t) <=> HoldsSource(src, s, o, t)
  BY DEF Loads!HoldsSource, HoldsSource
<1>3. Loads!Reaped(src, t) = Reaped(src, t)
  BY Zenon DEF Loads!Reaped, Reaped
<1>4. /\ Loads!CanAcquire(Reaped(src, t), s) <=> CanAcquire(Reaped(src, t), s)
      /\ Loads!RunningRow(o, t + SourceLeaseLen) = RunningRow(o, t + SourceLeaseLen)
  BY Zenon DEF Loads!CanAcquire, CanAcquire, Loads!SourceMutexFree, SourceMutexFree,
               Loads!RunningRow, RunningRow
<1>5. Loads!AfterAcquire(src, s, o, t) = AfterAcquire(src, s, o, t)
  BY <1>2, <1>3, <1>4, Zenon DEF Loads!AfterAcquire, AfterAcquire
<1>6. /\ \A c \in Cuts : Loads!AfterComplete(src, s, o, c, t) = AfterComplete(src, s, o, c, t)
      /\ Loads!AfterFail(src, s, o, t) = AfterFail(src, s, o, t)
      /\ Loads!AfterSourceHeartbeat(src, s, o, t) = AfterSourceHeartbeat(src, s, o, t)
  BY <1>2, Zenon DEF Loads!AfterComplete, AfterComplete, Loads!AfterFail, AfterFail,
               Loads!AfterSourceHeartbeat, AfterSourceHeartbeat
<1> QED BY <1>1, <1>5, <1>6

\* The RPCs of a run read the source table and never write it.
LEMMA RunRpcsKeepSource ==
    ASSUME DbInv(db), NEW k \in Runs, NEW o \in Owners,
           \/ Claim(k, o) \/ Bind(k, o) \/ TimeoutAttempts(k, o)
           \/ FinishRun(k, o) \/ HeartbeatRun(k, o)
           \/ \E a \in Artifacts : StartAttempt(k, a, o) \/ FinishAttempt(k, a, o)
    PROVE  UNCHANGED <<now, db.source>>
<1>0. db \in Database
  BY DEF DbInv
<1>1. CASE Claim(k, o)
  <2>1. AfterRetire(db, k).source = db.source /\ AfterRetire(db, k) \in Database
    BY AfterRetireInv DEF DbInv
  <2> QED BY <1>0, <1>1, <2>1 DEF Claim, AfterClaim, WithRun, Database
<1>2. CASE Bind(k, o)
  BY <1>0, <1>2 DEF Bind, AfterBind, WithRun, Database
<1>3. CASE TimeoutAttempts(k, o)
  BY <1>0, <1>3 DEF TimeoutAttempts, AfterTimeoutAttempts, Database
<1>4. CASE FinishRun(k, o)
  BY <1>0, <1>4 DEF FinishRun, AfterFinishRun, WithRun, Database
<1>5. CASE HeartbeatRun(k, o)
  BY <1>0, <1>5 DEF HeartbeatRun, AfterRunHeartbeat, WithRun, Database
<1>6. ASSUME NEW a \in Artifacts, StartAttempt(k, a, o) \/ FinishAttempt(k, a, o)
      PROVE  UNCHANGED <<now, db.source>>
  BY <1>0, <1>6 DEF StartAttempt, FinishAttempt, AfterStart, AfterFinishAttempt, Database
<1> QED BY <1>1, <1>2, <1>3, <1>4, <1>5, <1>6

\* Retention discards one payload or none.
LEMMA PruneDiscards ==
    ASSUME DbInv(db), NEW s \in SourceIds, Prune(s)
    PROVE  Loads!Discard(s) \/ UNCHANGED <<now, db.source>>
<1>1. PICK t \in TxnStarts : Prunable(db, s, t) /\ db' = AfterPrune(db, s, t)
  BY DEF Prune
<1> DEFINE expired == {k \in BoundTo(db, s) : Active(db, k) /\ db.run[k].leased <= t}
           logs == [k \in Runs |-> IF k \in expired THEN Settled(db, k) ELSE db.attempts[k]]
           rows == [k \in Runs |-> IF k \in expired THEN Ended(db.run[k], "timed_out")
                                                   ELSE db.run[k]]
           d == [db EXCEPT !.attempts = logs, !.run = rows]
<1>2. \/ db' = d
      \/ db' = [d EXCEPT !.source[s] = [@ EXCEPT !.payload = "pruned"]]
  BY <1>1 DEF AfterPrune
<1> HIDE DEF logs, rows
<1>3. /\ db.source \in SourceTable
      /\ d.source = db.source
      /\ [d EXCEPT !.source[s] = [@ EXCEPT !.payload = "pruned"]].source =
             [db.source EXCEPT ![s].payload = "pruned"]
  BY DEF DbInv, Database, SourceTable, SourceRow
<1> HIDE DEF d
<1>4. /\ now' = now
      /\ db.source[s].status = "completed"
      /\ db.source[s].payload = "kept"
  BY <1>1 DEF Prune, Prunable
<1> QED BY <1>2, <1>3, <1>4 DEF Loads!Discard

\* Every step of the store is a step of the source table, or leaves it alone.
THEOREM SourceRefinement == Spec => ImplementsSourceExecution
<1>1. Init => Loads!SourceInit
  BY DEF Init, EmptyDatabase, Loads!SourceInit, Loads!AbsentRow, AbsentRow
<1>2. IInv /\ [Next]_vars => [Loads!SourceNext]_(Loads!sourceVars)
  <2> SUFFICES ASSUME IInv, [Next]_vars PROVE Loads!SourceNext \/ UNCHANGED <<now, db.source>>
    BY DEF Loads!sourceVars
  <2>0. DbInv(db) /\ db \in Database
    BY DEF IInv, DbInv
  <2>1. CASE Tick
    BY <2>1 DEF Tick, Advance, Loads!SourceNext, Loads!SourceTick, Loads!Advance
  <2>2. ASSUME NEW s \in SourceIds, Prune(s)
        PROVE  Loads!SourceNext \/ UNCHANGED <<now, db.source>>
    BY <2>0, <2>2, PruneDiscards DEF Loads!SourceNext
  <2>3. ASSUME NEW s \in SourceIds, NEW o \in Owners, AcquireSource(s, o)
        PROVE  Loads!Acquire(s, o)
    <3>1. PICK t \in TxnStarts : db' = [db EXCEPT !.source = AfterAcquire(db.source, s, o, t)]
      BY <2>3 DEF AcquireSource
    <3>2. db'.source = Loads!AfterAcquire(db.source, s, o, t) /\ t \in Loads!TxnStarts
      BY <2>0, <3>1, SameRpcs DEF Database
    <3> QED BY <2>3, <3>2 DEF AcquireSource, Loads!Acquire
  <2>4. ASSUME NEW s \in SourceIds, NEW o \in Owners, CompleteSource(s, o)
        PROVE  Loads!Complete(s, o)
    <3>1. PICK t \in TxnStarts, c \in Cuts :
             db' = [db EXCEPT !.source = AfterComplete(db.source, s, o, c, t)]
      BY <2>4 DEF CompleteSource
    <3>2. db'.source = Loads!AfterComplete(db.source, s, o, c, t) /\ t \in Loads!TxnStarts
      BY <2>0, <3>1, SameRpcs DEF Database
    <3> QED BY <2>4, <3>2 DEF CompleteSource, Loads!Complete
  <2>5. ASSUME NEW s \in SourceIds, NEW o \in Owners, FailSource(s, o)
        PROVE  Loads!Fail(s, o)
    <3>1. PICK t \in TxnStarts : db' = [db EXCEPT !.source = AfterFail(db.source, s, o, t)]
      BY <2>5 DEF FailSource
    <3>2. db'.source = Loads!AfterFail(db.source, s, o, t) /\ t \in Loads!TxnStarts
      BY <2>0, <3>1, SameRpcs DEF Database
    <3> QED BY <2>5, <3>2 DEF FailSource, Loads!Fail
  <2>6. ASSUME NEW s \in SourceIds, NEW o \in Owners, HeartbeatSource(s, o)
        PROVE  Loads!Heartbeat(s, o)
    <3>1. PICK t \in TxnStarts : db' = [db EXCEPT !.source = AfterSourceHeartbeat(db.source, s, o, t)]
      BY <2>6 DEF HeartbeatSource
    <3>2. db'.source = Loads!AfterSourceHeartbeat(db.source, s, o, t) /\ t \in Loads!TxnStarts
      BY <2>0, <3>1, SameRpcs DEF Database
    <3> QED BY <2>6, <3>2 DEF HeartbeatSource, Loads!Heartbeat
  <2>7. ASSUME NEW k \in Runs, NEW o \in Owners,
               \/ Claim(k, o) \/ Bind(k, o) \/ TimeoutAttempts(k, o)
               \/ FinishRun(k, o) \/ HeartbeatRun(k, o)
               \/ \E a \in Artifacts : StartAttempt(k, a, o) \/ FinishAttempt(k, a, o)
        PROVE  UNCHANGED <<now, db.source>>
    BY <2>0, <2>7, RunRpcsKeepSource
  <2>8. CASE UNCHANGED vars
    BY <2>8 DEF vars
  <2> QED BY <2>1, <2>2, <2>3, <2>4, <2>5, <2>6, <2>7, <2>8 DEF Next, Loads!SourceNext
<1> QED BY <1>1, <1>2, Inductive, PTL DEF Spec, ImplementsSourceExecution, Loads!SourceSpec

==============================================================================
