---------------------------- MODULE LeaseHeartbeat ----------------------------
(***************************************************************************)
(* createLeaseHeartbeat (lease-heartbeat.ts) as one hydration task uses it: *)
(* the run lease is registered for the whole task, the source lease while   *)
(* the cut is loaded, and stop() is called before the run is sealed.        *)
(*                                                                          *)
(* Time is relative: left[n] is what is left of a lease, in intervals of    *)
(* the timer, so that a behaviour may go on for ever in finitely many       *)
(* states.  The event loop is not blocked: a beat that is due fires before  *)
(* the clock goes on.  A renewal may take any time: the database evaluates  *)
(* it in Evaluate and its answer reaches the tick in Deliver.               *)
(***************************************************************************)
EXTENDS Naturals, Sequences

CONSTANTS
    RunName,        \* RUN_LEASE_NAME
    SourceName,     \* SOURCE_LEASE_NAME
    LeaseBeats      \* lease seconds over the interval of the timer

ASSUME LeaseHeartbeatAssumption ==
    /\ RunName # SourceName
    /\ LeaseBeats \in Nat \ {0}

Names == {RunName, SourceName}

VARIABLES
    task,       \* where the orchestrator is
    renewals,   \* the registered names, in the order of the Map
    lost,       \* lostLeases()
    queue,      \* what the tick under way still renews; <<>> is ticking = false
    answer,     \* the database's answer to the renewal of Head(queue)
    left,       \* what is left of each lease; 0 is expired, or no longer leased
    due,        \* the timer is about to fire
    missed      \* beats that failed or were skipped since the run lease was renewed

taskVars == <<task, renewals, lost, queue, answer, left, due, missed>>

Main == {"source", "loading", "persisted", "load_failed", "loop", "sealing", "sealed",
         "halted", "failed"}

TaskTypeOK ==
    /\ task \in Main
    /\ renewals \in {<<>>, <<RunName>>, <<SourceName>>, <<RunName, SourceName>>}
    /\ lost \in SUBSET Names
    /\ queue \in {<<>>, <<RunName>>, <<SourceName>>, <<RunName, SourceName>>}
    /\ answer \in {"none", "true", "false", "error"}
    /\ left \in [Names -> 0..LeaseBeats]
    /\ due \in BOOLEAN
    /\ missed \in 0..(LeaseBeats + 1)

\* The interval timer runs until stop().
TimerOn == task \in {"source", "loading", "persisted", "load_failed", "loop"}

\* Map.delete() on a Map of at most two names: the other name stays.
Without(seq, n) ==
    IF seq # <<>> /\ Head(seq) = n THEN Tail(seq)
    ELSE IF Len(seq) = 2 /\ seq[2] = n THEN <<Head(seq)>>
    ELSE seq

Missed == IF missed > LeaseBeats THEN missed ELSE missed + 1

-----------------------------------------------------------------------------
(* The orchestrator *)

\* The run lease was renewed once and registered before the timer's first beat.
TaskInit ==
    /\ task = "source"
    /\ renewals = <<RunName>>
    /\ lost = {}
    /\ queue = <<>>
    /\ answer = "none"
    /\ left = [n \in Names |-> IF n = RunName THEN LeaseBeats ELSE 0]
    /\ due = FALSE
    /\ missed = 0

\* register(): the name goes to the end of the Map and its loss is forgotten.
RegisterSource ==
    /\ task = "source"
    /\ task' = "loading"
    /\ left' = [left EXCEPT ![SourceName] = LeaseBeats]
    /\ renewals' = Append(renewals, SourceName)
    /\ lost' = lost \ {SourceName}
    /\ UNCHANGED <<queue, answer, due, missed>>

\* A bound run replays its cut, an overlap adopts one: no source lease.
NoSourceLease ==
    /\ task = "source"
    /\ task' = "loop"
    /\ UNCHANGED <<renewals, lost, queue, answer, left, due, missed>>

\* The completion, or the failure, of the source ends its lease.
EndSource ==
    /\ task = "loading"
    /\ \/ left[SourceName] > 0 /\ task' = "persisted"
       \/ task' = "load_failed"
    /\ left' = [left EXCEPT ![SourceName] = 0]
    /\ UNCHANGED <<renewals, lost, queue, answer, due, missed>>

\* The function register() returned.
Release ==
    /\ task \in {"persisted", "load_failed"}
    /\ task' = IF task = "persisted" THEN "loop" ELSE "failed"
    /\ renewals' = IF task = "persisted" THEN Without(renewals, SourceName) ELSE <<>>
    /\ lost' = lost \ {SourceName}
    /\ UNCHANGED <<queue, answer, left, due, missed>>

\* Mutant: any lost lease halts the run.
MustHaltOnAny == lost # {}

\* Only the run's own lease governs the right to keep writing.
MustHalt == RunName \in lost

\* stop() and what follows: the halt at an artifact boundary, or the seal.
Halt ==
    /\ task = "loop"
    /\ MustHalt
    /\ task' = "halted"
    /\ renewals' = <<>>
    /\ UNCHANGED <<lost, queue, answer, left, due, missed>>

Stop ==
    /\ task = "loop"
    /\ task' = "sealing"
    /\ renewals' = <<>>
    /\ UNCHANGED <<lost, queue, answer, left, due, missed>>

\* finish_run nulls the lease.
SealRun ==
    /\ task = "sealing"
    /\ task' = IF left[RunName] > 0 THEN "sealed" ELSE "failed"
    /\ left' = [left EXCEPT ![RunName] = 0]
    /\ UNCHANGED <<renewals, lost, queue, answer, due, missed>>

-----------------------------------------------------------------------------
(* The timer and its tick *)

\* One interval goes by.
Clock ==
    /\ ~due
    /\ left' = [n \in Names |-> IF left[n] = 0 THEN 0 ELSE left[n] - 1]
    /\ due' = TimerOn
    /\ UNCHANGED <<task, renewals, lost, queue, answer, missed>>

\* The timer fires: a tick under way makes this one return at once.
Beat ==
    /\ due
    /\ due' = FALSE
    /\ IF queue = <<>>
       THEN queue' = (IF TimerOn THEN renewals ELSE <<>>) /\ UNCHANGED missed
       ELSE missed' = Missed /\ UNCHANGED queue
    /\ UNCHANGED <<task, renewals, lost, answer, left>>

\* Mutant: the lease grows from its end.
RenewedTaskFromEnd(n) == left[n] + LeaseBeats

\* A renewed lease runs from now.
RenewedTask(n) == LeaseBeats

\* The database renews the lease if it is still held.
Evaluate ==
    /\ queue # <<>>
    /\ answer = "none"
    /\ LET n == Head(queue)
       IN  IF left[n] > 0
           THEN /\ answer' = "true"
                /\ left' = [left EXCEPT ![n] = RenewedTask(n)]
                /\ missed' = IF n = RunName THEN 0 ELSE missed
           ELSE answer' = "false" /\ UNCHANGED <<left, missed>>
    /\ UNCHANGED <<task, renewals, lost, queue, due>>

\* The renewal throws, before or after it was evaluated.
Throw ==
    /\ queue # <<>>
    /\ answer \in {"none", "true", "false"}
    /\ answer' = "error"
    /\ missed' = IF Head(queue) = RunName /\ answer = "none" THEN Missed ELSE missed
    /\ UNCHANGED <<task, renewals, lost, queue, left, due>>

\* Mutant: one lost lease stops every renewal.
AfterLossStopAll(n) == <<>>

\* A lost lease is not renewed any more, the others are.
AfterLoss(n) == Without(renewals, n)

\* Mutant: a renewal that throws is dropped like a lost one, but not recorded.
KeptNever(n) == Without(renewals, n)

\* A renewal that throws is tried again by the next tick.
Kept(n) == renewals

\* The tick goes on with the answer.
Deliver ==
    /\ \/ /\ answer = "false"
          /\ lost' = lost \union {Head(queue)}
          /\ renewals' = AfterLoss(Head(queue))
       \/ /\ answer = "error"
          /\ renewals' = Kept(Head(queue))
          /\ UNCHANGED lost
       \/ /\ answer = "true"
          /\ UNCHANGED <<renewals, lost>>
    /\ queue' = Tail(queue)
    /\ answer' = "none"
    /\ UNCHANGED <<task, left, due, missed>>

TaskNext ==
    \/ RegisterSource \/ NoSourceLease \/ EndSource \/ Release
    \/ Halt \/ Stop \/ SealRun
    \/ Clock \/ Beat \/ Evaluate \/ Throw \/ Deliver

TaskSpec == TaskInit /\ [][TaskNext]_taskVars

\* The timer of a live process fires, and a tick goes on.  A renewal that throws
\* is a transient failure: of the run's renewals, not all of them throw.
RunAnswered == queue # <<>> /\ Head(queue) = RunName /\ answer # "error"

Fairness ==
    /\ WF_taskVars(Clock) /\ WF_taskVars(Beat)
    /\ WF_taskVars(Evaluate \/ Throw) /\ WF_taskVars(Deliver)
    /\ SF_taskVars(RunAnswered /\ Evaluate) /\ SF_taskVars(RunAnswered /\ Deliver)

TaskFairSpec == TaskSpec /\ Fairness

-----------------------------------------------------------------------------
(* What holds *)

\* A live task keeps its run lease unless it missed LeaseBeats - 2 beats in a
\* row: a lost source lease, a release or a failed renewal costs it nothing.
LeaseKept == TimerOn /\ left[RunName] = 0 => missed + 2 >= LeaseBeats

\* A run that halts at an artifact boundary for a lost lease has lost its own:
\* the loss of the source lease, real or seen late, never stops it.
HaltsOnlyWhenLost == task = "halted" => left[RunName] = 0

\* A task whose run lease is gone learns of it, unless it ends first.
LossRecorded ==
    TimerOn /\ left[RunName] = 0 ~> RunName \in lost \/ ~TimerOn

=============================================================================
