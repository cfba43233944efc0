----------------------------- MODULE SourceLease -----------------------------
(***************************************************************************)
(* The table recruiting_ops_source_executions (migration 023, heartbeat of *)
(* migration 030) as a value, and each of its RPCs as a function from the  *)
(* table before the call to the table after it.                            *)
(*                                                                         *)
(* A row is the durable record of one load of the reporting source.  The   *)
(* RPCs are plpgsql functions that run in one transaction each, and        *)
(* SQL's now() is the time at which that transaction started: every        *)
(* operator takes that time as t, and the callers let t lag the clock.     *)
(*                                                                         *)
(* The module has no variables, so that the source table can be checked on *)
(* its own (SourceExecution) and composed with the hydration runs that     *)
(* bind its rows (HydrationStore).                                         *)
(***************************************************************************)
EXTENDS Integers

CONSTANTS
    SourceIds,      \* source_execution_id values
    Owners,         \* owner_token values
    Cuts,           \* source cuts: the payload with its HMAC fingerprint
    NoOwner,        \* owner of a row that does not exist
    NoCut,          \* content of a row that holds none
    SourceLeaseLen  \* p_lease_seconds, in ticks of the clock

ASSUME SourceLeaseAssumption ==
    /\ NoOwner \notin Owners
    /\ NoCut \notin Cuts
    /\ SourceLeaseLen \in Nat \ {0}

\* "absent" is a row not yet inserted; the other three are the CHECK of 023.
SourceStatus == {"absent", "running", "completed", "failed"}

\* "kept" is a non-null source_payload with its schema version and checksum,
\* "pruned" is source_payload_pruned_at set and the other three null.
PayloadState == {"none", "kept", "pruned"}

SourceRow == [ status  : SourceStatus,
               owner   : Owners \union {NoOwner},
               leased  : Nat,
               cut     : Cuts \union {NoCut},
               payload : PayloadState ]

SourceTable == [SourceIds -> SourceRow]

AbsentRow == [ status |-> "absent", owner |-> NoOwner, leased |-> 0,
               cut |-> NoCut, payload |-> "none" ]

RunningRow(o, until) == [ status |-> "running", owner |-> o, leased |-> until,
                          cut |-> NoCut, payload |-> "none" ]

\* The row is running, o owns it and its lease has not passed at time t.
HoldsSource(src, s, o, t) ==
    /\ src[s].status = "running"
    /\ src[s].owner = o
    /\ src[s].leased > t

\* Mutant: the reap forgets to compare the lease with now().
ReapedEarly(src, t) ==
    [s \in SourceIds |->
        IF src[s].status = "running"
        THEN [src[s] EXCEPT !.status = "failed", !.leased = t]
        ELSE src[s]]

\* reap_stale_recruiting_ops_source_execution_leases: every running row whose
\* lease has passed becomes failed.
Reaped(src, t) ==
    [s \in SourceIds |->
        IF src[s].status = "running" /\ src[s].leased <= t
        THEN [src[s] EXCEPT !.status = "failed", !.leased = t]
        ELSE src[s]]

\* idx_recruiting_ops_source_execution_active admits one more running row.
SourceMutexFree(src) == \A s \in SourceIds : src[s].status # "running"

\* Mutant: the insert and the re-run ignore the one-active-lease index.
CanAcquireWithoutIndex(src, s) == src[s].status \in {"absent", "failed"}

\* Mutant: the re-run drops `status = 'failed'', so a completed id is re-run.
CanAcquireCompleted(src, s) == SourceMutexFree(src)

\* After the reap, a failed row is re-run and a missing row is inserted, each
\* only when the partial unique index admits it.
CanAcquire(src, s) ==
    /\ src[s].status \in {"absent", "failed"}
    /\ SourceMutexFree(src)

\* acquire_recruiting_ops_source_execution returns the caller's row.
Acquires(src, s, o, t) ==
    \/ HoldsSource(src, s, o, t)
    \/ CanAcquire(Reaped(src, t), s)

AfterAcquire(src, s, o, t) ==
    IF HoldsSource(src, s, o, t) THEN src
    ELSE IF CanAcquire(Reaped(src, t), s)
         THEN [Reaped(src, t) EXCEPT ![s] = RunningRow(o, t + SourceLeaseLen)]
         ELSE Reaped(src, t)

\* complete_recruiting_ops_source_execution writes the cut under a live lease;
\* replaying the same completion returns the stored row.
AfterComplete(src, s, o, c, t) ==
    IF HoldsSource(src, s, o, t)
    THEN [src EXCEPT ![s] = [@ EXCEPT !.status = "completed", !.cut = c,
                                      !.payload = "kept"]]
    ELSE src

Completes(src, s, o, c, t) ==
    \/ HoldsSource(src, s, o, t)
    \/ /\ src[s].status = "completed"
       /\ src[s].owner = o
       /\ src[s].cut = c
       /\ src[s].payload = "kept"

\* fail_recruiting_ops_source_execution asks for the owner, not for a live
\* lease; a row that is already failed is left as it is.
AfterFail(src, s, o, t) ==
    IF src[s].status = "running" /\ src[s].owner = o
    THEN [src EXCEPT ![s] = [@ EXCEPT !.status = "failed", !.leased = t]]
    ELSE src

\* heartbeat_recruiting_ops_source_execution extends a lease still held.
AfterSourceHeartbeat(src, s, o, t) ==
    IF HoldsSource(src, s, o, t)
    THEN [src EXCEPT ![s].leased = t + SourceLeaseLen]
    ELSE src

\* A completed row whose payload is still there: what bind, start and reclaim
\* of a hydration run look for before they rely on the row.
Replayable(src, s, c) ==
    /\ src[s].status = "completed"
    /\ src[s].cut = c
    /\ src[s].payload = "kept"

=============================================================================
