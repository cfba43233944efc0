----------------------------- MODULE LeaseProofs -----------------------------
(***************************************************************************)
(* The lease of a run, in the process that holds it (LeaseHeartbeat) and in *)
(* the database, where a claim or retention takes it (ClaimRecovery).       *)
(***************************************************************************)
EXTENDS LeaseHeartbeat, ClaimRecovery, TLAPS

-----------------------------------------------------------------------------
(***************************************************************************)
(* LeaseHeartbeat.  A run that halts for a lost lease has lost its own, for *)
(* every length of the lease.  The invariant follows the loss from the      *)
(* database to the orchestrator: a "false" on its way to the tick and an    *)
(* entry in `lost' both mean that nothing is left of the lease, and what is *)
(* lost cannot come back, because only a lease that is still held is        *)
(* renewed.                                                                 *)
(***************************************************************************)

\* The run lease is lost wherever somebody takes it for lost.
LossIsReal ==
    /\ left \in [Names -> Nat]
    /\ answer # "none" => queue # <<>>
    /\ answer = "false" /\ Head(queue) = RunName => left[RunName] = 0
    /\ RunName \in lost => left[RunName] = 0
    /\ task = "halted" => RunName \in lost

\* Nothing is lost when the task starts.
LEMMA LossInit == TaskInit => LossIsReal
BY LeaseHeartbeatAssumption DEF TaskInit, LossIsReal, Names

\* No call of the orchestrator, no step of the timer and no answer of the
\* database reports a loss that did not happen.
LEMMA LossStep == LossIsReal /\ [TaskNext]_taskVars => LossIsReal'
<1> SUFFICES ASSUME LossIsReal, [TaskNext]_taskVars PROVE LossIsReal'
  OBVIOUS
<1> USE LeaseHeartbeatAssumption DEF LossIsReal, Names
<1>1. CASE RegisterSource
  BY <1>1 DEF RegisterSource
<1>2. CASE NoSourceLease
  BY <1>2 DEF NoSourceLease
<1>3. CASE EndSource
  BY <1>3 DEF EndSource
<1>4. CASE Release
  BY <1>4 DEF Release
<1>5. CASE Halt
  BY <1>5 DEF Halt, MustHalt
<1>6. CASE Stop
  BY <1>6 DEF Stop
<1>7. CASE SealRun
  BY <1>7 DEF SealRun
<1>8. CASE Clock
  BY <1>8 DEF Clock
<1>9. CASE Beat
  BY <1>9 DEF Beat
<1>10. CASE Evaluate
  BY <1>10 DEF Evaluate, RenewedTask
<1>11. CASE Throw
  BY <1>11 DEF Throw
<1>12. CASE Deliver
  BY <1>12 DEF Deliver
<1>13. CASE UNCHANGED taskVars
  BY <1>13 DEF taskVars
<1> QED
  BY <1>1, <1>2, <1>3, <1>4, <1>5, <1>6, <1>7, <1>8, <1>9, <1>10, <1>11, <1>12, <1>13 DEF TaskNext

\* Only the loss of its own lease stops a run at an artifact boundary: a source
\* lease that ended, or an answer that came late, never does.
THEOREM HaltsForItsOwnLease == TaskSpec => []HaltsOnlyWhenLost
<1>1. LossIsReal => HaltsOnlyWhenLost
  BY DEF LossIsReal, HaltsOnlyWhenLost
<1> QED
  BY LossInit, LossStep, <1>1, PTL DEF TaskSpec

-----------------------------------------------------------------------------
(* How long the lease of a live task lasts *)

\* The renewal of the run lease is under way and the database has not seen it.
InFlight == queue # <<>> /\ Head(queue) = RunName /\ answer = "none"

\* Beats that are owed: one about to fire, one whose renewal is on its way.
ToFire == IF due THEN 1 ELSE 0
OnItsWay == IF InFlight THEN 1 ELSE 0

\* What a Map of the two names, and a tick over it, may hold.
RunOnly == <<RunName>>
SourceOnly == <<SourceName>>
Both == <<RunName, SourceName>>
Maps == {<<>>, RunOnly, SourceOnly, Both}

\* While the timer is on, what has gone of the lease since its renewal was either
\* missed or is still owed, and a lease that is not lost is renewed by each tick.
BeatsAccount ==
    /\ renewals \in Maps
    /\ queue \in Maps
    /\ missed \in Nat
    /\ task = "source" => renewals \in {<<>>, RunOnly}
    /\ TimerOn =>
          /\ left[RunName] > 0 =>
                /\ renewals \in {RunOnly, Both}
                /\ LeaseBeats <= left[RunName] + missed + ToFire + OnItsWay
          /\ left[RunName] = 0 => LeaseBeats <= missed + 2

KeptInv == LossIsReal /\ BeatsAccount

LEMMA AppendToOne == ASSUME NEW a, NEW b PROVE Append(<<a>>, b) = <<a, b>>
<1>1. Append(<<a>>, b) \in Seq({a, b}) /\ Len(Append(<<a>>, b)) = 2
  <2>1. <<a>> \in Seq({a, b}) /\ Len(<<a>>) = 1
    OBVIOUS
  <2>2. \A s \in Seq({a, b}) :
            Append(s, b) \in Seq({a, b}) /\ Len(Append(s, b)) = Len(s) + 1
    OBVIOUS
  <2> QED BY <2>1, <2>2
<1>2. Append(<<a>>, b)[1] = a
  OBVIOUS
<1>3. Append(<<a>>, b)[2] = b
  OBVIOUS
<1>4. \A s \in Seq({a, b}) : Len(s) = 2 => s = <<s[1], s[2]>>
  OBVIOUS
<1> QED BY <1>1, <1>2, <1>3, <1>4

LEMMA AppendToEmpty == ASSUME NEW b PROVE Append(<<>>, b) = <<b>>
OBVIOUS

LEMMA TailOfOne == ASSUME NEW a PROVE Tail(<<a>>) = <<>>
OBVIOUS

LEMMA TailOfTwo == ASSUME NEW a, NEW b PROVE Tail(<<a, b>>) = <<b>>
OBVIOUS

LEMMA ShortSeqs ==
    ASSUME NEW a, NEW b
    PROVE  /\ Tail(<<a>>) = <<>>
           /\ Tail(<<a, b>>) = <<b>>
           /\ Append(<<>>, b) = <<b>>
           /\ Append(<<a>>, b) = <<a, b>>
           /\ Head(<<a>>) = a /\ Head(<<a, b>>) = a
           /\ Len(<<a>>) = 1 /\ Len(<<a, b>>) = 2 /\ <<a, b>>[2] = b
           /\ <<a>> # <<>> /\ <<a, b>> # <<>> /\ <<a>> # <<a, b>>
BY AppendToOne, AppendToEmpty, TailOfOne, TailOfTwo

\* The four Maps, told apart, and what a deletion leaves of each.
LEMMA NamesOf ==
    /\ RunName # SourceName
    /\ <<>> # RunOnly /\ <<>> # SourceOnly /\ <<>> # Both
    /\ RunOnly # SourceOnly /\ RunOnly # Both
    /\ SourceOnly # Both
    /\ Head(RunOnly) = RunName /\ Head(Both) = RunName
    /\ Head(SourceOnly) = SourceName
    /\ Tail(RunOnly) = <<>> /\ Tail(SourceOnly) = <<>>
    /\ Tail(Both) = SourceOnly
    /\ Append(<<>>, SourceName) = SourceOnly
    /\ Append(RunOnly, SourceName) = Both
    /\ Without(<<>>, SourceName) = <<>> /\ Without(<<>>, RunName) = <<>>
    /\ Without(RunOnly, SourceName) = RunOnly /\ Without(RunOnly, RunName) = <<>>
    /\ Without(SourceOnly, SourceName) = <<>>
    /\ Without(SourceOnly, RunName) = SourceOnly
    /\ Without(Both, SourceName) = RunOnly
    /\ Without(Both, RunName) = SourceOnly
<1>1. RunName # SourceName
  BY LeaseHeartbeatAssumption
<1>2. <<>> # RunOnly /\ <<>> # SourceOnly /\ <<>> # Both
  BY ShortSeqs DEF RunOnly, SourceOnly, Both
<1>3. RunOnly # SourceOnly /\ RunOnly # Both
      /\ SourceOnly # Both
  <2>1. Head(RunOnly) = RunName /\ Head(SourceOnly) = SourceName
        /\ Head(Both) = RunName
    BY ShortSeqs DEF RunOnly, SourceOnly, Both
  <2>2. RunOnly # Both
    BY ShortSeqs DEF RunOnly, Both
  <2> QED BY <1>1, <2>1, <2>2
<1>4. Head(RunOnly) = RunName /\ Head(Both) = RunName
      /\ Head(SourceOnly) = SourceName
  BY ShortSeqs DEF RunOnly, SourceOnly, Both
<1>5. Tail(RunOnly) = <<>> /\ Tail(SourceOnly) = <<>>
      /\ Tail(Both) = SourceOnly
  BY ShortSeqs DEF RunOnly, SourceOnly, Both
<1>6. Append(<<>>, SourceName) = SourceOnly
      /\ Append(RunOnly, SourceName) = Both
  BY ShortSeqs DEF RunOnly, SourceOnly, Both
<1>7. Without(<<>>, SourceName) = <<>> /\ Without(<<>>, RunName) = <<>>
  BY DEF Without
<1>8. Without(RunOnly, SourceName) = RunOnly /\ Without(RunOnly, RunName) = <<>>
      /\ Without(SourceOnly, SourceName) = <<>>
      /\ Without(SourceOnly, RunName) = SourceOnly
  BY <1>1, <1>2, <1>4, <1>5, ShortSeqs DEF Without, RunOnly, SourceOnly, Both
<1>9. Without(Both, SourceName) = RunOnly
      /\ Without(Both, RunName) = SourceOnly
  BY <1>1, <1>2, <1>4, <1>5, ShortSeqs DEF Without, RunOnly, SourceOnly, Both
<1> QED BY <1>1, <1>2, <1>3, <1>4, <1>5, <1>6, <1>7, <1>8, <1>9

LEMMA KeptInit == TaskInit => KeptInv
<1> SUFFICES ASSUME TaskInit PROVE BeatsAccount
  BY LossInit DEF KeptInv
<1>1. renewals = RunOnly /\ queue = <<>> /\ missed = 0 /\ left[RunName] = LeaseBeats
  BY DEF TaskInit, RunOnly, Names
<1>2. ToFire \in Nat /\ OnItsWay \in Nat
  BY DEF ToFire, OnItsWay
<1> QED BY <1>1, <1>2, LeaseHeartbeatAssumption DEF BeatsAccount, Maps

\* Each beat, renewal and failure moves one unit of the account.
LEMMA KeptStep == KeptInv /\ [TaskNext]_taskVars => KeptInv'
<1> SUFFICES ASSUME KeptInv, [TaskNext]_taskVars PROVE BeatsAccount'
  BY LossStep DEF KeptInv
<1> USE DEF KeptInv, BeatsAccount, Names
<1>0. /\ LeaseBeats \in Nat
      /\ left \in [Names -> Nat] /\ left[RunName] \in Nat
      /\ RunName # SourceName
      /\ ToFire \in {0, 1} /\ OnItsWay \in {0, 1}
      /\ ToFire' \in {0, 1} /\ OnItsWay' \in {0, 1}
  BY LeaseHeartbeatAssumption DEF LossIsReal, ToFire, OnItsWay
<1>a. ASSUME UNCHANGED <<queue, answer, due>> PROVE ToFire' = ToFire /\ OnItsWay' = OnItsWay
  BY <1>a DEF ToFire, OnItsWay, InFlight
<1>b. answer # "none" => OnItsWay = 0
  BY DEF OnItsWay, InFlight
<1>1. CASE RegisterSource
  <2>1. renewals' \in Maps /\ (renewals = RunOnly => renewals' = Both) /\ renewals \in {<<>>, RunOnly}
    BY <1>1, NamesOf DEF RegisterSource, Maps
  <2> QED BY <1>0, <1>a, <1>1, <2>1, NamesOf DEF RegisterSource, TimerOn
<1>2. CASE NoSourceLease
  BY <1>0, <1>a, <1>2 DEF NoSourceLease, TimerOn
<1>3. CASE EndSource
  BY <1>0, <1>a, <1>3 DEF EndSource, TimerOn
<1>4. CASE Release
  <2>1. renewals' \in Maps /\ (TimerOn' => renewals' = Without(renewals, SourceName))
    BY <1>4, NamesOf DEF Release, Maps, TimerOn
  <2>2. renewals \in {RunOnly, Both} => Without(renewals, SourceName) = RunOnly
    BY NamesOf
  <2> QED BY <1>0, <1>a, <1>4, <2>1, <2>2 DEF Release, TimerOn
<1>5. CASE Halt
  BY <1>5 DEF Halt, Maps, TimerOn
<1>6. CASE Stop
  BY <1>6 DEF Stop, Maps, TimerOn
<1>7. CASE SealRun
  BY <1>7 DEF SealRun, TimerOn
<1>8. CASE Clock
  <2>1. ToFire = 0 /\ OnItsWay' = OnItsWay /\ (TimerOn => ToFire' = 1)
    BY <1>8 DEF Clock, ToFire, OnItsWay, InFlight
  <2>2. /\ left'[RunName] = IF left[RunName] = 0 THEN 0 ELSE left[RunName] - 1
        /\ UNCHANGED <<task, renewals, queue, missed>>
    BY <1>8 DEF Clock
  <2> QED BY <1>0, <2>1, <2>2 DEF TimerOn
<1>9. CASE Beat
  <2>1. ToFire = 1 /\ ToFire' = 0 /\ UNCHANGED <<task, renewals, answer, left>>
    BY <1>9 DEF Beat, ToFire
  <2>2. CASE queue = <<>>
    <3>1. OnItsWay = 0 /\ missed' = missed /\ answer = "none"
      BY <1>9, <2>2 DEF Beat, OnItsWay, InFlight, LossIsReal
    <3>2. queue' \in Maps /\ (TimerOn => queue' = renewals)
      BY <1>9, <2>2 DEF Beat, Maps
    <3>3. TimerOn /\ renewals \in {RunOnly, Both} => OnItsWay' = 1
      BY <2>1, <3>1, <3>2, NamesOf DEF OnItsWay, InFlight
    <3> QED BY <1>0, <2>1, <3>1, <3>2, <3>3 DEF TimerOn
  <2>3. CASE queue # <<>>
    <3>1. OnItsWay' = OnItsWay /\ queue' = queue /\ missed' = Missed
      BY <1>9, <2>3 DEF Beat, OnItsWay, InFlight
    <3> QED BY <1>0, <2>1, <3>1 DEF TimerOn, Missed
  <2> QED BY <2>2, <2>3
<1>10. CASE Evaluate
  <2>1. ToFire' = ToFire /\ OnItsWay' = 0 /\ UNCHANGED <<task, renewals, queue>>
    BY <1>10 DEF Evaluate, ToFire, OnItsWay, InFlight
  <2>2. CASE Head(queue) = RunName
    <3>1. \/ left'[RunName] = LeaseBeats /\ missed' = 0 /\ left[RunName] > 0
          \/ UNCHANGED <<left, missed>> /\ ~(left[RunName] > 0)
      BY <1>0, <1>10, <2>2 DEF Evaluate, RenewedTask
    <3> QED BY <1>0, <2>1, <3>1 DEF TimerOn
  <2>3. CASE Head(queue) # RunName
    <3>1. OnItsWay = 0
      BY <2>3 DEF OnItsWay, InFlight
    <3>2. left'[RunName] = left[RunName] /\ missed' = missed
      BY <1>0, <1>10, <2>3 DEF Evaluate
    <3> QED BY <1>0, <2>1, <3>1, <3>2 DEF TimerOn
  <2> QED BY <2>2, <2>3
<1>11. CASE Throw
  <2>1. ToFire' = ToFire /\ OnItsWay' = 0 /\ UNCHANGED <<task, renewals, queue, left>>
    BY <1>11 DEF Throw, ToFire, OnItsWay, InFlight
  <2>2. missed' = IF OnItsWay = 1 THEN Missed ELSE missed
    BY <1>11 DEF Throw, OnItsWay, InFlight
  <2> QED BY <1>0, <2>1, <2>2 DEF TimerOn, Missed
<1>12. CASE Deliver
  <2>1. answer # "none" /\ answer' = "none" /\ UNCHANGED <<task, left, due, missed>>
    BY <1>12 DEF Deliver
  <2>2. queue' \in {<<>>, SourceOnly}
    BY <1>12, <2>1, NamesOf DEF Deliver, LossIsReal, Maps
  <2>3. OnItsWay = 0 /\ OnItsWay' = 0 /\ ToFire' = ToFire
    BY <1>b, <2>1, <2>2, NamesOf DEF OnItsWay, InFlight, ToFire
  <2>4. \/ renewals' = renewals
        \/ renewals' = Without(renewals, SourceName)
        \/ renewals' = Without(renewals, RunName) /\ left[RunName] = 0
    <3>1. Head(queue) \in {RunName, SourceName}
      BY <2>1, NamesOf DEF LossIsReal, Maps
    <3> QED BY <1>12, <3>1 DEF Deliver, AfterLoss, Kept, LossIsReal
  <2>5. /\ renewals' \in Maps
        /\ renewals \in {<<>>, RunOnly} => renewals' \in {<<>>, RunOnly}
    BY <2>4, NamesOf DEF Maps
  <2>6. left[RunName] > 0 /\ renewals \in {RunOnly, Both} => renewals' \in {RunOnly, Both}
    BY <1>0, <2>4, NamesOf
  <2>7. queue' \in Maps
    BY <2>2 DEF Maps
  <2> QED BY <1>0, <2>1, <2>3, <2>5, <2>6, <2>7 DEF TimerOn
<1>13. CASE UNCHANGED taskVars
  BY <1>0, <1>a, <1>13 DEF taskVars, TimerOn
<1> QED
  BY <1>1, <1>2, <1>3, <1>4, <1>5, <1>6, <1>7, <1>8, <1>9, <1>10, <1>11, <1>12, <1>13 DEF TaskNext

\* A live task loses its run lease only by missing all but two of its beats in a
\* row: a lease longer than two intervals survives what happens to the source
\* lease, an answer that is late and a renewal that throws now and then.
THEOREM LeaseIsKept == TaskSpec => []LeaseKept
<1>1. KeptInv => LeaseKept
  BY DEF KeptInv, LossIsReal, BeatsAccount, LeaseKept, Names
<1> QED
  BY KeptInit, KeptStep, <1>1, PTL DEF TaskSpec

-----------------------------------------------------------------------------
(***************************************************************************)
(* ClaimRecovery.  For every set of artifacts, every lease and every length *)
(* of time: a run that claim, its owner or retention ended has no attempt  *)
(* cut short and the outcome its attempts show, whatever the statements of *)
(* the others commit between two of its own.                               *)
(*                                                                         *)
(* The claim counts attempts it has not committed and ends the run two     *)
(* statements later.  What it counted is still true then because the rows  *)
(* it timed out are locked (Reserved), a bound source is locked before any *)
(* attempt could be started (Locks), and a run that was not bound yet has  *)
(* no attempt at all: that is what `bound as observed' in its update is    *)
(* for (ClaimCounts).  Retention relies on the same locks and on a lease   *)
(* that never gets shorter (LeaseGrows).                                   *)
(***************************************************************************)

Over == run.status = "terminal"

\* An attempt that claim or retention has timed out, but not committed, is
\* still running for everybody else, and it is timed out by one of them.
Reserved ==
    /\ ByClaim \subseteq Running
    /\ prune.retired \subseteq Running
    /\ ByClaim \intersect prune.retired = {}
    /\ prune.pc # "run" => prune.retired = {}

\* The locks on the source.
Locks ==
    /\ SourceShared => ~SourceExclusive /\ payload = "kept"
    /\ ~(claim.locked /\ prune.pc \in {"attempts", "run"})
    /\ claim.pc \in {"reread", "attempts", "count", "run"} /\ claim.observed => claim.locked

\* A run that is not bound has not begun to work.
Unbound == ~run.bound => /\ run.status # "running"
                         /\ \A a \in Artifacts : attempts[a] = "none"

\* What the claim counted is still so when it ends the run.
ClaimCounts ==
    ~Over /\ run.bound = claim.observed =>
        /\ claim.pc \in {"count", "run"} => Running \subseteq claim.retired
        /\ claim.pc = "run" => claim.outcome = RecoveredOutcome(TimedOut(claim.retired))

\* The same for the run that retention ends.
PruneCounts ==
    prune.pc = "run" /\ run.bound /\ Expired(prune.t) => Running \subseteq prune.retired

\* A renewal under way gives at least the lease there is.
LeaseGrows ==
    /\ beat.pc = "begun" => beat.t <= clock
    /\ ~Over => run.leased <= LeaseLen + (IF beat.pc = "begun" THEN beat.t ELSE clock)

\* A claim that was acquired without ending the run found it ended.
TakesNext == claim.pc = "take" \/ claim.acquired => Over

IInv ==
    /\ TypeOK
    /\ Reserved
    /\ Locks
    /\ Unbound
    /\ ClaimCounts
    /\ PruneCounts
    /\ LeaseGrows
    /\ TakesNext
    /\ EndsWhole
    /\ SourceKept

-----------------------------------------------------------------------------
(* Types *)

ClaimRow == [ pc       : {"idle", "look", "top", "reread", "attempts", "count", "run", "take", "done"},
              t        : 0..MaxTime,
              active   : RunRow,
              observed : BOOLEAN,
              locked   : BOOLEAN,
              retired  : SUBSET Artifacts,
              outcome  : Outcome,
              acquired : BOOLEAN ]

\* The outcome of a run that ended is one of the five.
LEMMA OutcomeType ==
    ASSUME NEW latest
    PROVE  Aggregate(latest) \in Outcome /\ RecoveredOutcome(latest) \in Outcome
BY DEF Aggregate, RecoveredOutcome, Outcome

LEMMA TimedOutType ==
    ASSUME TypeOK, NEW as
    PROVE  TimedOut(as) \in [Artifacts -> Attempt]
BY DEF TypeOK, TimedOut, Attempt

LEMMA EndedType ==
    ASSUME TypeOK, NEW outcome \in Outcome
    PROVE  /\ Ended(outcome) \in RunRow
           /\ Ended(outcome).status = "terminal"
           /\ Ended(outcome).outcome = outcome
           /\ Ended(outcome).bound = run.bound
<1>1. 0 \in 0..(MaxTime + LeaseLen)
  BY ClaimRecoveryAssumption
<1> QED BY <1>1 DEF TypeOK, Ended, RunRow

\* What a look at a run changes of the claim.
LEMMA LookType ==
    ASSUME TypeOK, NEW row \in RunRow
    PROVE  /\ Look(row) \in ClaimRow
           /\ Look(row).pc = (IF row.status = "terminal" THEN "take" ELSE "top")
           /\ Look(row).active = row
           /\ Look(row).t = claim.t
           /\ Look(row).observed = claim.observed
           /\ Look(row).locked = claim.locked
           /\ Look(row).retired = claim.retired
           /\ Look(row).acquired = claim.acquired
BY DEF TypeOK, Look, ClaimRow

\* The claim that is over holds no lock and has committed what it retired.
LEMMA DoneType ==
    ASSUME TypeOK, NEW acquired \in BOOLEAN
    PROVE  /\ Done(acquired) \in ClaimRow
           /\ Done(acquired).pc = "done"
           /\ Done(acquired).t = claim.t
           /\ ~Done(acquired).locked
           /\ ~Done(acquired).observed
           /\ Done(acquired).acquired = acquired
<1>1. NoRow \in RunRow /\ "none" \in Outcome
  BY ClaimRecoveryAssumption DEF NoRow, RunRow, Outcome
<1> QED BY <1>1 DEF TypeOK, Done, ClaimRow

LEMMA IdleType == /\ Idle.pc = "idle"
                  /\ Idle \in [ pc : {"idle", "begun", "locked"}, t : 0..MaxTime,
                                rpc : Rpc, artifact : Artifacts ]
BY ClaimRecoveryAssumption DEF Idle, Rpc

LEMMA TypeInit == Init => TypeOK
<1> SUFFICES ASSUME Init PROVE TypeOK
  OBVIOUS
<1>1. 0 \in 0..MaxTime /\ LeaseLen \in 0..(MaxTime + LeaseLen) /\ 0 \in 0..(MaxTime + LeaseLen)
  BY ClaimRecoveryAssumption
<1>2. run \in RunRow /\ NoRow \in RunRow
  BY <1>1 DEF Init, RunRow, NoRow, Outcome
<1> QED BY <1>1, <1>2, IdleType DEF Init, TypeOK, Attempt, Outcome

\* The claim keeps the types.
LEMMA ClaimTypeStep == TypeOK /\ (ClaimBegin \/ ClaimStep) => TypeOK'
<1> SUFFICES ASSUME TypeOK, ClaimBegin \/ ClaimStep
             PROVE  /\ claim' \in ClaimRow
                    /\ run' \in RunRow
                    /\ attempts' \in [Artifacts -> Attempt]
                    /\ UNCHANGED <<clock, payload, main, beat, prune>>
  BY DEF TypeOK, ClaimRow
<1>0. /\ claim \in ClaimRow
      /\ run \in RunRow
      /\ attempts \in [Artifacts -> Attempt]
      /\ clock \in 0..MaxTime
      /\ Running \subseteq Artifacts
      /\ TimedOut(claim.retired) \in [Artifacts -> Attempt]
      /\ Look(run) \in ClaimRow
      /\ Done(TRUE) \in ClaimRow
      /\ Done(FALSE) \in ClaimRow
  BY TimedOutType, LookType, DoneType DEF TypeOK, ClaimRow, Running
<1> USE <1>0 DEF ClaimGoes, rows
<1>1. CASE ClaimBegin
  BY <1>1 DEF ClaimBegin, ClaimRow
<1>2. CASE ClaimLook
  BY <1>2 DEF ClaimLook
<1>3. CASE ClaimTop
  BY <1>3 DEF ClaimTop, ClaimRefused, ClaimRow, RunRow
<1>4. CASE ClaimReread
  BY <1>4 DEF ClaimReread, ClaimRefused, ClaimRow
<1>5. CASE ClaimRetireAttempts
  BY <1>5 DEF ClaimRetireAttempts, ClaimRow
<1>6. CASE ClaimCount
  BY <1>6, OutcomeType DEF ClaimCount, ClaimRow
<1>7. CASE ClaimRetireRun
  <2>1. Ended(claim.outcome) \in RunRow
    BY EndedType DEF ClaimRow
  <2> QED BY <1>7, <2>1 DEF ClaimRetireRun
<1>8. CASE ClaimTake
  BY <1>8 DEF ClaimTake
<1> QED BY <1>1, <1>2, <1>3, <1>4, <1>5, <1>6, <1>7, <1>8 DEF ClaimStep

\* So do the RPCs of the owner.
LEMMA MainTypeStep == TypeOK /\ (Begin \/ MainStep) => TypeOK'
<1> SUFFICES ASSUME TypeOK, Begin \/ MainStep PROVE TypeOK'
  OBVIOUS
<1> DEFINE OwnerRow == [ pc : {"idle", "begun", "locked"}, t : 0..MaxTime,
                         rpc : Rpc, artifact : Artifacts ]
<1>0. /\ run \in RunRow
      /\ attempts \in [Artifacts -> Attempt]
      /\ payload \in {"kept", "pruned"}
      /\ main \in OwnerRow
      /\ \A pc \in {"locked", "idle"} : MainGoes(pc) => main' \in OwnerRow
  BY IdleType DEF TypeOK, MainGoes
<1>1. ASSUME /\ main' \in OwnerRow
             /\ run' \in RunRow
             /\ attempts' \in [Artifacts -> Attempt]
             /\ UNCHANGED <<clock, payload, claim, beat, prune>>
      PROVE  TypeOK'
  BY <1>1 DEF TypeOK
<1>2. CASE Begin
  BY <1>0, <1>1, <1>2 DEF Begin, TypeOK, rows
<1>3. CASE LockSource
  BY <1>0, <1>1, <1>3 DEF LockSource, MainGoes, rows
<1>4. CASE LockRun
  BY <1>0, <1>1, <1>4 DEF LockRun, MainGoes, rows
<1>5. CASE Bind
  <2>1. run' \in RunRow
    BY <1>0, <1>5 DEF Bind, RunRow
  <2> QED BY <1>0, <1>1, <1>5, <2>1 DEF Bind, MainGoes
<1>6. CASE Start
  <2>1. attempts' \in [Artifacts -> Attempt]
    BY <1>0, <1>6 DEF Start, Attempt
  <2> QED BY <1>0, <1>1, <1>6, <2>1 DEF Start, MainGoes
<1>7. CASE FinishAttempt
  <2>1. attempts' \in [Artifacts -> Attempt]
    BY <1>0, <1>7 DEF FinishAttempt, Attempt, Certified
  <2> QED BY <1>0, <1>1, <1>7, <2>1 DEF FinishAttempt, MainGoes
<1>8. CASE TimeoutAttempts
  BY <1>0, <1>1, <1>8, TimedOutType DEF TimeoutAttempts, MainGoes
<1>9. CASE FinishRun
  <2>1. run' \in RunRow
    BY <1>0, <1>9, OutcomeType, EndedType DEF FinishRun
  <2> QED BY <1>0, <1>1, <1>9, <2>1 DEF FinishRun, MainGoes
<1> QED BY <1>2, <1>3, <1>4, <1>5, <1>6, <1>7, <1>8, <1>9 DEF MainStep

\* And the heartbeat, the retention job and the clock.
LEMMA OtherTypeStep ==
    TypeOK /\ (Tick \/ BeatBegin \/ Heartbeat \/ PruneBegin \/ PruneStep) => TypeOK'
<1> SUFFICES ASSUME TypeOK, Tick \/ BeatBegin \/ Heartbeat \/ PruneBegin \/ PruneStep
             PROVE  TypeOK'
  OBVIOUS
<1> USE DEF TypeOK, rows
<1>1. CASE Tick
  BY <1>1, ClaimRecoveryAssumption DEF Tick
<1>2. CASE BeatBegin
  BY <1>2 DEF BeatBegin
<1>3. CASE Heartbeat
  <2>1. run' \in RunRow
    BY <1>3, ClaimRecoveryAssumption DEF Heartbeat, Renewed, RunRow
  <2>2. beat' \in [ pc : {"idle", "begun"}, t : 0..MaxTime ]
    BY <1>3, ClaimRecoveryAssumption DEF Heartbeat
  <2> QED BY <1>3, <2>1, <2>2 DEF Heartbeat
<1>4. PruneDone \in [ pc : {"idle", "begun", "attempts", "run", "done"}, t : 0..MaxTime,
                      retired : SUBSET Artifacts ]
  BY ClaimRecoveryAssumption DEF PruneDone
<1>5. CASE PruneBegin
  BY <1>5 DEF PruneBegin, PruneGoes
<1>6. CASE PruneLock
  BY <1>4, <1>6 DEF PruneLock, PruneGoes
<1>7. CASE PruneAttempts
  BY <1>7 DEF PruneAttempts, PruneGoes, Running
<1>8. CASE PruneRun
  <2>1. "timed_out" \in Outcome
    BY DEF Outcome
  <2>2. Ended("timed_out") \in RunRow /\ TimedOut(prune.retired) \in [Artifacts -> Attempt]
    BY <2>1, EndedType, TimedOutType
  <2> QED BY <1>4, <1>8, <2>2 DEF PruneRun, PruneGoes
<1> QED BY <1>1, <1>2, <1>3, <1>5, <1>6, <1>7, <1>8 DEF PruneStep

LEMMA TypeStep == TypeOK /\ [Next]_vars => TypeOK'
<1> SUFFICES ASSUME TypeOK, [Next]_vars PROVE TypeOK'
  OBVIOUS
<1>1. CASE UNCHANGED vars
  BY <1>1 DEF TypeOK, vars, rows
<1> QED BY <1>1, ClaimTypeStep, MainTypeStep, OtherTypeStep DEF Next

\* Every row keeps its type.
THEOREM TypeCorrect == Spec => []TypeOK
BY TypeInit, TypeStep, PTL DEF Spec

-----------------------------------------------------------------------------
(* The claim *)

Untyped ==
    /\ Reserved
    /\ Locks
    /\ Unbound
    /\ ClaimCounts
    /\ PruneCounts
    /\ LeaseGrows
    /\ TakesNext
    /\ EndsWhole
    /\ SourceKept

\* What the claim leaves alone stays as it was.
LEMMA RowsKept ==
    ASSUME IInv, UNCHANGED <<clock, rows, main, beat, prune>>
    PROVE  Unbound' /\ PruneCounts' /\ LeaseGrows' /\ EndsWhole' /\ SourceKept'
BY DEF IInv, rows, Unbound, PruneCounts, LeaseGrows, EndsWhole, SourceKept, Over, Running,
       Expired, Aggregate

\* To commit attempts that time out is to end them and nothing else.
LEMMA TimesOut ==
    ASSUME TypeOK, NEW as \in SUBSET Artifacts, as \subseteq Running, attempts' = TimedOut(as)
    PROVE  /\ Running' = Running \ as
           /\ Running = {} => attempts' = attempts
BY DEF TypeOK, Running, TimedOut

\* A claim that commits without ending the run, and is acquired only if somebody
\* else has ended it.
LEMMA ClaimCommits ==
    ASSUME IInv, claim.pc # "done", NEW acquired \in BOOLEAN, acquired => Over,
           attempts' = TimedOut(claim.retired), claim' = Done(acquired),
           UNCHANGED <<clock, run, payload, main, beat, prune>>
    PROVE  Untyped'
<1> USE DEF IInv
<1>1. /\ Running' = Running \ claim.retired
      /\ Running = {} => attempts' = attempts
      /\ claim'.pc = "done" /\ ~claim'.locked /\ ~claim'.observed
      /\ claim'.acquired = acquired
  <2>1. claim.retired \in SUBSET Artifacts /\ claim.retired \subseteq Running
    BY DEF TypeOK, Reserved, ByClaim
  <2> QED BY <2>1, TimesOut, DoneType
<1>2. Reserved'
  BY <1>1 DEF Reserved, ByClaim
<1>3. Locks' /\ ClaimCounts' /\ TakesNext'
  BY <1>1 DEF Locks, SourceShared, SourceExclusive, ClaimCounts, TakesNext, Over
<1>4. Unbound' /\ EndsWhole'
  BY <1>1 DEF Unbound, EndsWhole, Running, TypeOK
<1>5. PruneCounts' /\ LeaseGrows' /\ SourceKept'
  BY <1>1 DEF PruneCounts, Expired, LeaseGrows, Over, SourceKept
<1> QED BY <1>2, <1>3, <1>4, <1>5 DEF Untyped

\* The loop goes round.
LEMMA ClaimLooks ==
    ASSUME IInv, claim.pc # "done", claim' = Look(run),
           UNCHANGED <<clock, rows, main, beat, prune>>
    PROVE  Untyped'
<1> USE DEF IInv, rows
<1>1. /\ claim'.pc = IF Over THEN "take" ELSE "top"
      /\ claim'.retired = claim.retired
      /\ claim'.locked = claim.locked
      /\ claim'.acquired = claim.acquired
  BY LookType DEF TypeOK, Over
<1>2. Reserved' /\ Locks'
  BY <1>1 DEF Reserved, ByClaim, Running, Locks, SourceShared, SourceExclusive
<1>3. ClaimCounts' /\ TakesNext'
  BY <1>1 DEF ClaimCounts, TakesNext, Over
<1> QED BY <1>2, <1>3, RowsKept DEF Untyped

LEMMA ClaimBeginInv == IInv /\ ClaimBegin => Untyped'
<1> SUFFICES ASSUME IInv, ClaimBegin PROVE Untyped'
  OBVIOUS
<1> USE DEF IInv, ClaimBegin, ClaimGoes, rows
<1>1. /\ claim'.pc = "look"
      /\ claim'.retired = claim.retired
      /\ claim'.locked = claim.locked
      /\ claim'.acquired = claim.acquired
  BY DEF TypeOK
<1>2. Reserved' /\ Locks'
  BY <1>1 DEF Reserved, ByClaim, Running, Locks, SourceShared, SourceExclusive
<1>3. ClaimCounts' /\ TakesNext'
  BY <1>1 DEF ClaimCounts, TakesNext, Over
<1> QED BY <1>2, <1>3, RowsKept DEF Untyped

LEMMA ClaimTopInv == IInv /\ ClaimTop => Untyped'
<1> SUFFICES ASSUME IInv, ClaimTop PROVE Untyped'
  OBVIOUS
<1> USE DEF IInv, ClaimTop, ClaimGoes
<1>1. CASE ClaimRefused
  BY <1>1, ClaimCommits DEF ClaimRefused
<1>2. CASE ~ClaimRefused
  <2>1. /\ claim'.pc = "reread"
        /\ claim'.observed = claim.active.bound
        /\ claim'.locked = (claim.locked \/ claim.active.bound)
        /\ claim'.retired = claim.retired
        /\ claim'.acquired = claim.acquired
        /\ claim.active.bound => claim.locked \/ SourceFree
        /\ UNCHANGED <<clock, rows, main, beat, prune>>
    BY <1>2 DEF TypeOK
  <2> USE <2>1 DEF rows
  <2>2. Reserved'
    BY DEF Reserved, ByClaim, Running
  <2>3. Locks'
    BY DEF Locks, SourceFree, SourceShared, SourceExclusive
  <2>4. ClaimCounts' /\ TakesNext'
    BY DEF ClaimCounts, TakesNext, Over
  <2> QED BY <2>2, <2>3, <2>4, RowsKept DEF Untyped
<1> QED BY <1>1, <1>2

LEMMA ClaimRereadInv == IInv /\ ClaimReread => Untyped'
<1> SUFFICES ASSUME IInv, ClaimReread PROVE Untyped'
  OBVIOUS
<1> USE DEF IInv, ClaimReread, ClaimGoes
<1>1. CASE ClaimRefused
  BY <1>1, ClaimCommits DEF ClaimRefused
<1>2. CASE claim' = Look(run) /\ UNCHANGED <<clock, rows, main, beat, prune>>
  BY <1>2, ClaimLooks
<1>3. CASE /\ claim' = [claim EXCEPT !.active = run, !.pc = "attempts"]
           /\ UNCHANGED <<clock, rows, main, beat, prune>>
  <2>1. /\ claim'.pc = "attempts"
        /\ claim'.observed = claim.observed
        /\ claim'.locked = claim.locked
        /\ claim'.retired = claim.retired
        /\ claim'.acquired = claim.acquired
        /\ UNCHANGED <<clock, rows, main, beat, prune>>
    BY <1>3 DEF TypeOK
  <2> USE <2>1 DEF rows
  <2>2. Reserved' /\ Locks'
    BY DEF Reserved, ByClaim, Running, Locks, SourceShared, SourceExclusive
  <2>3. ClaimCounts' /\ TakesNext'
    BY DEF ClaimCounts, TakesNext, Over
  <2> QED BY <2>2, <2>3, RowsKept DEF Untyped
<1> QED BY <1>1, <1>2, <1>3

\* From here on the running attempts are the claim's.
LEMMA ClaimRetireAttemptsInv == IInv /\ ClaimRetireAttempts => Untyped'
<1> SUFFICES ASSUME IInv, ClaimRetireAttempts PROVE Untyped'
  OBVIOUS
<1> USE DEF IInv, ClaimRetireAttempts, ClaimGoes, rows
<1>1. /\ claim'.pc = "count"
      /\ claim'.observed = claim.observed
      /\ claim'.locked = claim.locked
      /\ claim'.retired = claim.retired \union Running
      /\ claim'.acquired = claim.acquired
  BY DEF TypeOK
<1>2. Reserved' /\ Locks'
  BY <1>1 DEF Reserved, ByClaim, Running, Locks, SourceShared, SourceExclusive
<1>3. ClaimCounts' /\ TakesNext'
  BY <1>1 DEF ClaimCounts, TakesNext, Over, Running
<1> QED BY <1>2, <1>3, RowsKept DEF Untyped

\* The outcome is counted over attempts that are not committed yet.
LEMMA ClaimCountInv == IInv /\ ClaimCount => Untyped'
<1> SUFFICES ASSUME IInv, ClaimCount PROVE Untyped'
  OBVIOUS
<1> USE DEF IInv, ClaimCount, ClaimGoes, rows
<1>1. /\ claim'.pc = "run"
      /\ claim'.observed = claim.observed
      /\ claim'.locked = claim.locked
      /\ claim'.retired = claim.retired
      /\ claim'.acquired = claim.acquired
      /\ claim'.outcome = RecoveredOutcome(TimedOut(claim.retired))
  BY DEF TypeOK
<1>2. Reserved' /\ Locks'
  BY <1>1 DEF Reserved, ByClaim, Running, Locks, SourceShared, SourceExclusive
<1>3. TimedOut(claim.retired)' = TimedOut(claim.retired)
  BY <1>1 DEF TimedOut
<1>4. ClaimCounts' /\ TakesNext'
  BY <1>1, <1>3 DEF ClaimCounts, TakesNext, Over, Running
<1> QED BY <1>2, <1>4, RowsKept DEF Untyped

\* The claim ends the run with the outcome it counted two statements before.
LEMMA ClaimRetireRunInv == IInv /\ ClaimRetireRun => Untyped'
<1> SUFFICES ASSUME IInv, ClaimRetireRun PROVE Untyped'
  OBVIOUS
<1> USE DEF IInv, ClaimRetireRun, ClaimGoes
<1>1. CASE ~Retires
  BY <1>1, ClaimLooks
<1>2. CASE Retires
  <2>1. /\ ~Over
        /\ Running = claim.retired
        /\ prune.retired = {}
        /\ claim.outcome = RecoveredOutcome(TimedOut(claim.retired))
    BY <1>2 DEF Retires, Expired, Over, ClaimCounts, Reserved, ByClaim
  <2>2. /\ Running' = {}
        /\ Running = {} => attempts' = attempts
    BY <1>2, <2>1, TimesOut DEF TypeOK
  <2>3. /\ run'.status = "terminal"
        /\ run'.outcome = claim.outcome
        /\ run'.bound = run.bound
    BY <1>2, EndedType DEF TypeOK
  <2>4. claim'.pc = "done" /\ ~claim'.locked /\ claim'.acquired
    BY <1>2, DoneType
  <2> USE <2>1, <2>2, <2>3, <2>4
  <2>5. Reserved' /\ TakesNext'
    BY <1>2 DEF Reserved, ByClaim, TakesNext, Over
  <2>6. Locks'
    BY <1>2 DEF Locks, SourceShared, SourceExclusive
  <2>7. Unbound'
    BY <1>2 DEF Unbound, Running, TypeOK
  <2>8. EndsWhole'
    BY <1>2 DEF EndsWhole, RecoveredOutcome
  <2>9. ClaimCounts' /\ PruneCounts' /\ LeaseGrows' /\ SourceKept'
    BY <1>2 DEF ClaimCounts, PruneCounts, Expired, LeaseGrows, Over, SourceKept
  <2> QED BY <2>5, <2>6, <2>7, <2>8, <2>9 DEF Untyped
<1> QED BY <1>1, <1>2

LEMMA ClaimInv == IInv /\ (ClaimBegin \/ ClaimStep) => Untyped'
<1>1. IInv /\ ClaimLook => Untyped'
  BY ClaimLooks DEF ClaimLook, ClaimGoes
<1>2. IInv /\ ClaimTake => Untyped'
  BY ClaimCommits DEF ClaimTake, ClaimGoes, IInv, TakesNext
<1> QED BY <1>1, <1>2, ClaimBeginInv, ClaimTopInv, ClaimRereadInv, ClaimRetireAttemptsInv,
           ClaimCountInv, ClaimRetireRunInv DEF ClaimStep

-----------------------------------------------------------------------------
(* The owner *)

\* A step of the owner that changes no row disturbs the locks only.
LEMMA OwnerWaits ==
    ASSUME IInv, Locks', UNCHANGED <<clock, rows, claim, beat, prune>>
    PROVE  Untyped'
<1> USE DEF IInv, rows
<1>1. Reserved' /\ Unbound' /\ EndsWhole'
  BY DEF Reserved, ByClaim, Running, Unbound, EndsWhole, Aggregate
<1>2. TimedOut(claim.retired)' = TimedOut(claim.retired)
  BY DEF TimedOut
<1>3. ClaimCounts' /\ PruneCounts'
  BY <1>2 DEF ClaimCounts, PruneCounts, Expired, Over, Running
<1>4. LeaseGrows' /\ TakesNext' /\ SourceKept'
  BY DEF LeaseGrows, TakesNext, SourceKept, Over
<1> QED BY <1>1, <1>3, <1>4 DEF Untyped

LEMMA OwnerLocksInv == IInv /\ (Begin \/ LockSource \/ LockRun) => Untyped'
<1> SUFFICES ASSUME IInv, Begin \/ LockSource \/ LockRun PROVE Untyped'
  OBVIOUS
<1>1. CASE Begin
  <2>1. Locks'
    BY <1>1 DEF Begin, rows, IInv, Locks, SourceShared, SourceExclusive
  <2> QED BY <1>1, <2>1, OwnerWaits DEF Begin
<1>2. CASE LockSource
  <2>1. main'.pc = "locked" => payload = "kept"
    BY <1>2, IdleType DEF LockSource, MainGoes
  <2>2. Locks'
    BY <1>2, <2>1 DEF LockSource, MainGoes, rows, IInv, Locks, SourceShared, SourceExclusive
  <2> QED BY <1>2, <2>2, OwnerWaits DEF LockSource, MainGoes
<1>3. CASE LockRun
  <2>1. main'.pc = "locked" => main'.rpc = "finish_run"
    BY <1>3, IdleType DEF LockRun, MainGoes, IInv, TypeOK
  <2>2. Locks'
    BY <1>3, <2>1 DEF LockRun, MainGoes, rows, IInv, Locks, SourceShared, SourceExclusive
  <2> QED BY <1>3, <2>2, OwnerWaits DEF LockRun, MainGoes
<1> QED BY <1>1, <1>2, <1>3

\* The owner gives its locks back.
LEMMA OwnerReleases ==
    ASSUME IInv, main' = Idle, UNCHANGED <<claim, prune>>
    PROVE  Locks'
BY IdleType DEF IInv, Locks, SourceShared, SourceExclusive

\* A run is bound under the shared lock of its source, so that no claim that
\* has seen it bound, and no retention, is at work on it.
LEMMA BindInv == IInv /\ Bind => Untyped'
<1> SUFFICES ASSUME IInv, Bind PROVE Untyped'
  OBVIOUS
<1> USE DEF IInv
<1>1. Locks' /\ main' = Idle /\ UNCHANGED <<clock, attempts, payload, claim, beat, prune>>
  BY OwnerReleases DEF Bind, MainGoes
<1>2. CASE run' = run
  BY <1>1, <1>2, OwnerWaits DEF rows
<1>3. CASE run' # run
  <2>1. /\ ~Over
        /\ run'.bound /\ run'.status = "running" /\ run'.leased = run.leased
        /\ ~claim.locked /\ prune.pc \notin {"attempts", "run"}
        /\ payload = "kept"
        /\ claim.pc \in {"count", "run"} => ~claim.observed
    BY <1>3 DEF Bind, Live, Over, Locks, SourceShared, SourceExclusive, TypeOK, RunRow
  <2> USE <1>1, <2>1
  <2>2. Reserved' /\ Unbound' /\ EndsWhole'
    BY DEF Reserved, ByClaim, Running, Unbound, EndsWhole
  <2>3. ClaimCounts' /\ PruneCounts'
    BY DEF ClaimCounts, PruneCounts
  <2>4. LeaseGrows' /\ TakesNext' /\ SourceKept'
    BY DEF LeaseGrows, TakesNext, SourceKept, Over
  <2> QED BY <2>2, <2>3, <2>4 DEF Untyped
<1> QED BY <1>2, <1>3

\* So is an attempt started.
LEMMA StartInv == IInv /\ Start => Untyped'
<1> SUFFICES ASSUME IInv, Start PROVE Untyped'
  OBVIOUS
<1> USE DEF IInv
<1>1. Locks' /\ main' = Idle /\ UNCHANGED <<clock, run, payload, claim, beat, prune>>
  BY OwnerReleases DEF Start, MainGoes
<1>2. CASE attempts' = attempts
  BY <1>1, <1>2, OwnerWaits DEF rows
<1>3. CASE attempts' # attempts
  <2>1. /\ ~Over
        /\ run.bound
        /\ Running \subseteq Running'
        /\ ~claim.locked /\ prune.pc \notin {"attempts", "run"}
        /\ claim.pc \in {"count", "run"} => ~claim.observed
    BY <1>3 DEF Start, Live, Over, Locks, SourceShared, SourceExclusive, TypeOK, Unbound, Running
  <2> USE <1>1, <2>1
  <2>2. Reserved' /\ Unbound' /\ EndsWhole'
    BY DEF Reserved, ByClaim, Unbound, EndsWhole, Over
  <2>3. ClaimCounts' /\ PruneCounts'
    BY DEF ClaimCounts, PruneCounts
  <2>4. LeaseGrows' /\ TakesNext' /\ SourceKept'
    BY DEF LeaseGrows, TakesNext, SourceKept, Over
  <2> QED BY <2>2, <2>3, <2>4 DEF Untyped
<1> QED BY <1>2, <1>3

\* The owner ends running attempts that nobody has timed out.  A claim that has
\* counted has timed out all there are.
LEMMA OwnerEnds ==
    ASSUME IInv, NEW as, as \subseteq Running, as # {}, ~Locked(as), run.status = "running",
           Running' = Running \ as, main' = Idle,
           UNCHANGED <<clock, run, payload, claim, beat, prune>>
    PROVE  Untyped'
<1> USE DEF IInv
<1>1. Locks'
  BY OwnerReleases
<1>2. Reserved'
  BY DEF Reserved, ByClaim, Locked
<1>3. ClaimCounts' /\ PruneCounts'
  BY DEF ClaimCounts, PruneCounts, Expired, Over, Locked, ByClaim
<1>4. Unbound' /\ EndsWhole'
  BY DEF Unbound, EndsWhole
<1>5. LeaseGrows' /\ TakesNext' /\ SourceKept'
  BY DEF LeaseGrows, TakesNext, SourceKept, Over
<1> QED BY <1>1, <1>2, <1>3, <1>4, <1>5 DEF Untyped

LEMMA FinishAttemptInv == IInv /\ FinishAttempt => Untyped'
<1> SUFFICES ASSUME IInv, FinishAttempt PROVE Untyped'
  OBVIOUS
<1>1. /\ main' = Idle
      /\ UNCHANGED <<clock, run, payload, claim, beat, prune>>
      /\ main.artifact \in Artifacts
      /\ attempts \in [Artifacts -> Attempt]
  BY DEF FinishAttempt, MainGoes, IInv, TypeOK
<1>2. CASE UNCHANGED attempts
  BY <1>1, <1>2, OwnerWaits, OwnerReleases DEF rows
<1>3. CASE ~UNCHANGED attempts
  <2>1. /\ run.status = "running" /\ main.artifact \in Running
        /\ ~Locked({main.artifact})
        /\ \E outcome \in {"failed", "no_change", "written"} :
               attempts' = [attempts EXCEPT ![main.artifact] = outcome]
    BY <1>3 DEF FinishAttempt
  <2>2. Running' = Running \ {main.artifact}
    BY <1>1, <2>1 DEF Running
  <2> QED BY <1>1, <2>1, <2>2, OwnerEnds
<1> QED BY <1>2, <1>3

LEMMA TimeoutAttemptsInv == IInv /\ TimeoutAttempts => Untyped'
<1> SUFFICES ASSUME IInv, TimeoutAttempts PROVE Untyped'
  OBVIOUS
<1>1. main' = Idle /\ UNCHANGED <<clock, run, payload, claim, beat, prune>>
  BY DEF TimeoutAttempts, MainGoes
<1>2. CASE UNCHANGED attempts
  BY <1>1, <1>2, OwnerWaits, OwnerReleases DEF rows
<1>3. CASE ~UNCHANGED attempts
  <2>1. run.status = "running" /\ attempts' = TimedOut(Running) /\ ~Locked(Running)
    BY <1>3 DEF TimeoutAttempts
  <2>2. Running' = Running \ Running /\ Running # {}
    BY <1>3, <2>1, TimesOut DEF IInv, Running
  <2> QED BY <1>1, <2>1, <2>2, OwnerEnds
<1> QED BY <1>2, <1>3

LEMMA FinishRunInv == IInv /\ FinishRun => Untyped'
<1> SUFFICES ASSUME IInv, FinishRun PROVE Untyped'
  OBVIOUS
<1> USE DEF IInv
<1>1. Locks' /\ main' = Idle /\ UNCHANGED <<clock, attempts, payload, claim, beat, prune>>
  BY OwnerReleases DEF FinishRun, MainGoes
<1>2. CASE Running # {}
  BY <1>1, <1>2, OwnerWaits DEF rows, FinishRun
<1>3. CASE Running = {}
  <2>1. /\ run'.status = "terminal"
        /\ run'.outcome = Aggregate(attempts)
        /\ run'.bound = run.bound
    BY <1>3, OutcomeType, EndedType DEF FinishRun
  <2>2. Running' = Running /\ Aggregate(attempts)' = Aggregate(attempts)
    BY <1>1 DEF Running, Aggregate
  <2> USE <1>1, <2>1, <2>2
  <2>3. Reserved' /\ Unbound' /\ EndsWhole'
    BY <1>3 DEF Reserved, ByClaim, Unbound, EndsWhole
  <2>4. ClaimCounts' /\ PruneCounts' /\ LeaseGrows' /\ TakesNext' /\ SourceKept'
    BY DEF ClaimCounts, PruneCounts, Expired, LeaseGrows, TakesNext, SourceKept, Over
  <2> QED BY <2>3, <2>4 DEF Untyped
<1> QED BY <1>2, <1>3

LEMMA MainInv == IInv /\ (Begin \/ MainStep) => Untyped'
BY OwnerLocksInv, BindInv, StartInv, FinishAttemptInv, TimeoutAttemptsInv, FinishRunInv
   DEF MainStep

-----------------------------------------------------------------------------
(* The heartbeat, the retention job and the clock *)

\* A renewal gives at least the lease there is, so no run expires by it.
LEMMA BeatInv == IInv /\ (BeatBegin \/ Heartbeat) => Untyped'
<1> SUFFICES ASSUME IInv, BeatBegin \/ Heartbeat PROVE Untyped'
  OBVIOUS
<1> USE DEF IInv
<1>1. /\ UNCHANGED <<clock, attempts, payload, claim, main, prune>>
      /\ run'.status = run.status
      /\ run'.outcome = run.outcome
      /\ run'.bound = run.bound
      /\ ~Over => run.leased <= run'.leased
      /\ ~Over => run'.leased <= LeaseLen + (IF beat'.pc = "begun" THEN beat'.t ELSE clock)
      /\ beat'.pc = "begun" => beat'.t <= clock
  <2>1. /\ run \in RunRow /\ beat.t \in Nat /\ clock \in Nat /\ LeaseLen \in Nat
        /\ run.leased \in Nat
    BY ClaimRecoveryAssumption DEF TypeOK, RunRow
  <2>2. CASE BeatBegin
    BY <2>1, <2>2 DEF BeatBegin, rows, LeaseGrows
  <2>3. CASE Heartbeat
    BY <2>1, <2>3 DEF Heartbeat, Renewed, Live, LeaseGrows, RunRow, Over
  <2> QED BY <2>2, <2>3
<1>2. Reserved' /\ Locks'
  BY <1>1 DEF Reserved, ByClaim, Running, Locks, SourceShared, SourceExclusive
<1>3. Unbound' /\ EndsWhole'
  BY <1>1 DEF Unbound, EndsWhole, Running, Aggregate
<1>4. TimedOut(claim.retired)' = TimedOut(claim.retired)
  BY <1>1 DEF TimedOut
<1>5. ClaimCounts'
  BY <1>1, <1>4 DEF ClaimCounts, Over, Running
<1>6. PruneCounts'
  <2>1. run.leased \in Nat /\ run'.leased \in Nat /\ prune.t \in Nat
    BY TypeStep, ClaimRecoveryAssumption DEF Next, TypeOK, RunRow
  <2> QED BY <1>1, <2>1 DEF PruneCounts, Expired, Over, Running
<1>7. LeaseGrows' /\ TakesNext' /\ SourceKept'
  BY <1>1 DEF LeaseGrows, TakesNext, SourceKept, Over
<1> QED BY <1>2, <1>3, <1>5, <1>6, <1>7 DEF Untyped

\* Before it ends anything the retention job changes no row.
LEMMA PruneWaits ==
    ASSUME IInv, Reserved', Locks', PruneCounts', UNCHANGED <<clock, rows, claim, main, beat>>
    PROVE  Untyped'
<1> USE DEF IInv, rows
<1>1. Unbound' /\ EndsWhole'
  BY DEF Unbound, EndsWhole, Running, Aggregate
<1>2. TimedOut(claim.retired)' = TimedOut(claim.retired)
  BY DEF TimedOut
<1>3. ClaimCounts'
  BY <1>2 DEF ClaimCounts, Over, Running
<1>4. LeaseGrows' /\ TakesNext' /\ SourceKept'
  BY DEF LeaseGrows, TakesNext, SourceKept, Over
<1> QED BY <1>1, <1>3, <1>4 DEF Untyped

LEMMA PruneLocksInv == IInv /\ (PruneBegin \/ PruneLock \/ PruneAttempts) => Untyped'
<1> SUFFICES ASSUME IInv, PruneBegin \/ PruneLock \/ PruneAttempts PROVE Untyped'
  OBVIOUS
<1> USE DEF IInv, PruneGoes, rows
<1>1. CASE PruneBegin
  <2>1. prune'.pc = "begun" /\ prune'.retired = {}
    BY <1>1 DEF PruneBegin, TypeOK, Reserved
  <2>2. Reserved' /\ Locks' /\ PruneCounts'
    BY <1>1, <2>1 DEF PruneBegin, Reserved, ByClaim, Running, Locks, SourceShared,
                      SourceExclusive, PruneCounts
  <2> QED BY <1>1, <2>2, PruneWaits DEF PruneBegin
<1>2. CASE PruneLock
  <2>1. /\ prune'.pc \in {"attempts", "done"} /\ prune'.retired = {}
        /\ prune'.pc = "attempts" => SourceFree
    BY <1>2 DEF PruneLock, PruneDone, TypeOK, Reserved
  <2>2. Reserved' /\ PruneCounts'
    BY <1>2, <2>1 DEF PruneLock, Reserved, ByClaim, Running, PruneCounts
  <2>3. Locks'
    BY <1>2, <2>1 DEF PruneLock, Locks, SourceShared, SourceExclusive, SourceFree
  <2> QED BY <1>2, <2>2, <2>3, PruneWaits DEF PruneLock
<1>3. CASE PruneAttempts
  <2>1. /\ prune'.pc = "run" /\ prune'.t = prune.t
        /\ prune'.retired = IF run.bound /\ Expired(prune.t) THEN Running ELSE {}
        /\ prune'.retired \intersect ByClaim = {}
    BY <1>3 DEF PruneAttempts, TypeOK
  <2>2. Reserved' /\ PruneCounts'
    BY <1>3, <2>1 DEF PruneAttempts, Reserved, ByClaim, Running, PruneCounts, Expired
  <2>3. Locks'
    BY <1>3, <2>1 DEF PruneAttempts, Locks, SourceShared, SourceExclusive
  <2> QED BY <1>3, <2>2, <2>3, PruneWaits DEF PruneAttempts
<1> QED BY <1>1, <1>2, <1>3

\* Retention ends the run, if it is still expired, and discards the payload of
\* a source that nobody who is not over needs.
LEMMA PruneRunInv == IInv /\ PruneRun => Untyped'
<1> SUFFICES ASSUME IInv, PruneRun PROVE Untyped'
  OBVIOUS
<1> USE DEF IInv, PruneGoes
<1>1. /\ UNCHANGED <<clock, claim, main, beat>>
      /\ prune'.pc = "done" /\ prune'.retired = {}
      /\ prune.pc = "run"
  BY DEF PruneRun, PruneDone
<1>2. /\ Running' = Running \ prune.retired
      /\ Running = {} => attempts' = attempts
  <2>1. prune.retired \in SUBSET Artifacts /\ prune.retired \subseteq Running
    BY DEF TypeOK, Reserved
  <2> QED BY <2>1, TimesOut DEF PruneRun
<1>3. \/ run' = run /\ ~(run.bound /\ Expired(prune.t))
      \/ /\ run.bound /\ Expired(prune.t)
         /\ run'.status = "terminal" /\ run'.outcome = "timed_out" /\ run'.bound
         /\ Running' = {}
  <2>1. "timed_out" \in Outcome
    BY DEF Outcome
  <2> QED BY <1>1, <1>2, <2>1, EndedType DEF PruneRun, PruneCounts
<1> USE <1>1, <1>2
<1>4. Reserved' /\ Locks'
  BY DEF Reserved, ByClaim, Locks, SourceShared, SourceExclusive
<1>5. Unbound' /\ EndsWhole'
  BY <1>3 DEF Unbound, EndsWhole, Running
<1>6. ClaimCounts'
  <2>1. CASE run.bound
    BY <1>3, <2>1 DEF ClaimCounts, Locks
  <2>2. CASE ~run.bound
    <3>1. Running = {}
      BY <2>2 DEF Unbound, Running
    <3>2. TimedOut(claim.retired)' = TimedOut(claim.retired)
      BY <3>1 DEF TimedOut
    <3> QED BY <1>3, <2>2, <3>1, <3>2 DEF ClaimCounts, Over
  <2> QED BY <2>1, <2>2
<1>7. PruneCounts' /\ LeaseGrows' /\ TakesNext'
  BY <1>3 DEF PruneCounts, LeaseGrows, TakesNext, Over
<1>8. SourceKept'
  BY <1>3 DEF SourceKept, PruneRun, Discards
<1> QED BY <1>4, <1>5, <1>6, <1>7, <1>8 DEF Untyped

LEMMA TickInv == IInv /\ (Tick \/ UNCHANGED vars) => Untyped'
<1> SUFFICES ASSUME IInv, Tick \/ UNCHANGED vars PROVE Untyped'
  OBVIOUS
<1>1. /\ UNCHANGED <<rows, claim, main, beat, prune>>
      /\ clock \in Nat /\ clock' \in Nat /\ clock <= clock'
      /\ beat.t \in Nat /\ run.leased \in Nat /\ LeaseLen \in Nat
  BY ClaimRecoveryAssumption DEF Tick, vars, IInv, TypeOK, RunRow
<1> USE <1>1 DEF IInv, rows
<1>2. Reserved' /\ Locks' /\ Unbound' /\ EndsWhole'
  BY DEF Reserved, ByClaim, Running, Locks, SourceShared, SourceExclusive, Unbound, EndsWhole,
         Aggregate
<1>3. TimedOut(claim.retired)' = TimedOut(claim.retired)
  BY DEF TimedOut
<1>4. ClaimCounts' /\ PruneCounts'
  BY <1>3 DEF ClaimCounts, PruneCounts, Expired, Over, Running
<1>5. LeaseGrows' /\ TakesNext' /\ SourceKept'
  BY DEF LeaseGrows, TakesNext, SourceKept, Over
<1> QED BY <1>2, <1>4, <1>5 DEF Untyped

-----------------------------------------------------------------------------
(* The theorems *)

LEMMA InvInit == Init => IInv
<1> SUFFICES ASSUME Init PROVE IInv
  OBVIOUS
<1>1. TypeOK
  BY TypeInit
<1>2. /\ Running = {} /\ ByClaim = {}
      /\ LeaseLen \in Nat
  BY ClaimRecoveryAssumption DEF Init, Running, ByClaim
<1>3. Reserved /\ Locks /\ Unbound
  BY <1>2 DEF Init, Reserved, Locks, SourceShared, SourceExclusive, Idle, Unbound
<1>4. ClaimCounts /\ PruneCounts /\ LeaseGrows /\ TakesNext /\ EndsWhole /\ SourceKept
  BY <1>2 DEF Init, ClaimCounts, PruneCounts, LeaseGrows, TakesNext, EndsWhole, SourceKept, Over
<1> QED BY <1>1, <1>3, <1>4 DEF IInv

LEMMA InvStep == IInv /\ [Next]_vars => IInv'
<1> SUFFICES ASSUME IInv, [Next]_vars PROVE TypeOK' /\ Untyped'
  BY DEF IInv, Untyped
<1>1. TypeOK'
  BY TypeStep DEF IInv
<1>2. Untyped'
  BY ClaimInv, MainInv, BeatInv, PruneLocksInv, PruneRunInv, TickInv DEF Next, PruneStep
<1> QED BY <1>1, <1>2

\* The inductive invariant.
THEOREM Inductive == Spec => []IInv
BY InvInit, InvStep, PTL DEF Spec

\* Whoever ended the run, it is ended whole: no attempt cut short, and the
\* outcome its attempts show, or timed_out.
THEOREM EndedWhole == Spec => []EndsWhole
<1>1. IInv => EndsWhole
  BY DEF IInv
<1> QED BY <1>1, Inductive, PTL

\* Retention never takes the payload from a run that is not over.
THEOREM PayloadKept == Spec => []SourceKept
<1>1. IInv => SourceKept
  BY DEF IInv
<1> QED BY <1>1, Inductive, PTL

\* The claim gets past a run only when it is over or its lease has passed.
LEMMA AcquiresExpired ==
    ASSUME IInv, [Next]_vars, claim'.acquired, Live(claim.t)
    PROVE  FALSE
<1>0. /\ claim \in ClaimRow /\ run \in RunRow
      /\ ~Over /\ ~Expired(claim.t)
      /\ ~claim.acquired /\ claim.pc # "take"
  <2>1. run.leased \in Nat /\ claim.t \in Nat
    BY ClaimRecoveryAssumption DEF IInv, TypeOK, RunRow
  <2> QED BY <2>1 DEF IInv, TypeOK, ClaimRow, Live, Expired, Over, TakesNext
<1>1. \A row \in RunRow : Look(row).acquired = claim.acquired
  BY LookType DEF IInv
<1>2. ~Done(FALSE).acquired
  BY DoneType DEF IInv
<1>3. CASE ClaimBegin \/ ClaimLook \/ ClaimTop
  BY <1>0, <1>1, <1>2, <1>3 DEF ClaimBegin, ClaimLook, ClaimTop, ClaimRefused, ClaimGoes, ClaimRow
<1>4. CASE ClaimReread \/ ClaimRetireAttempts \/ ClaimCount
  BY <1>0, <1>1, <1>2, <1>4 DEF ClaimReread, ClaimRetireAttempts, ClaimCount, ClaimRefused,
                                ClaimGoes, ClaimRow
<1>5. CASE ClaimRetireRun \/ ClaimTake
  BY <1>0, <1>1, <1>5 DEF ClaimRetireRun, ClaimTake, Retires, ClaimGoes
<1>6. CASE UNCHANGED claim
  BY <1>0, <1>6
<1> QED BY <1>3, <1>4, <1>5, <1>6
        DEF Next, ClaimStep, MainStep, PruneStep, Tick, Begin, LockSource, LockRun, Bind, Start,
            FinishAttempt, TimeoutAttempts, FinishRun, MainGoes, BeatBegin, Heartbeat, PruneBegin,
            PruneLock, PruneAttempts, PruneRun, PruneGoes, vars

\* A heartbeat that was committed between two statements of the claim keeps its
\* run.
THEOREM RenewedKept == Spec => RenewedRunKept
<1>1. IInv /\ [Next]_vars =>
        [claim'.acquired /\ Live(claim.t) => run'.status # "terminal"]_vars
  BY AcquiresExpired
<1> QED BY <1>1, Inductive, PTL DEF Spec, RenewedRunKept

=============================================================================
