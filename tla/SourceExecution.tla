--------------------------- MODULE SourceExecution ---------------------------
(***************************************************************************)
(* The reporting-source lease on its own: any number of loaders (owner     *)
(* tokens) call the RPCs of migrations 023 and 030 in any order, late,     *)
(* twice, or never again (a crash is a loader that makes no more calls).   *)
(***************************************************************************)
EXTENDS StoreClock

VARIABLE source \* the rows of recruiting_ops_source_executions

sourceVars == <<now, source>>

SourceTypeOK ==
    /\ now \in Nat
    /\ source \in SourceTable

SourceInit ==
    /\ now = 0
    /\ source = [s \in SourceIds |-> AbsentRow]

SourceTick == Advance /\ UNCHANGED source

Acquire(s, o) ==
    /\ \E t \in TxnStarts : source' = AfterAcquire(source, s, o, t)
    /\ UNCHANGED now

Complete(s, o) ==
    /\ \E t \in TxnStarts, c \in Cuts : source' = AfterComplete(source, s, o, c, t)
    /\ UNCHANGED now

Fail(s, o) ==
    /\ \E t \in TxnStarts : source' = AfterFail(source, s, o, t)
    /\ UNCHANGED now

Heartbeat(s, o) ==
    /\ \E t \in TxnStarts : source' = AfterSourceHeartbeat(source, s, o, t)
    /\ UNCHANGED now

Reap ==
    /\ \E t \in TxnStarts : source' = Reaped(source, t)
    /\ UNCHANGED now

\* The payload column of a completed row may be discarded, and nothing else
\* (the trigger protect_recruiting_ops_source_execution lets only this through).
Discard(s) ==
    /\ source[s].status = "completed"
    /\ source[s].payload = "kept"
    /\ source' = [source EXCEPT ![s].payload = "pruned"]
    /\ UNCHANGED now

SourceNext ==
    \/ SourceTick
    \/ Reap
    \/ \E s \in SourceIds : Discard(s)
    \/ \E s \in SourceIds, o \in Owners :
          Acquire(s, o) \/ Complete(s, o) \/ Fail(s, o) \/ Heartbeat(s, o)

SourceSpec == SourceInit /\ [][SourceNext]_sourceVars

-----------------------------------------------------------------------------
(* Properties *)

\* One active reporting source load across every process using this store:
\* the partial unique index of 023 holds after every RPC, whatever loaders
\* crashed, came back late, or raced a reap.
OneRunning ==
    \A a, b \in SourceIds :
        source[a].status = "running" /\ source[b].status = "running" => a = b

\* While the clock has not reached the lease of a running load, no other
\* owner takes the row over and no other execution starts: only the owner's
\* own completion, failure or heartbeat changes it.
LiveLeaseExcludes ==
    [][\A s \in SourceIds :
          source[s].status = "running" /\ source[s].leased > now =>
              /\ source'[s].owner = source[s].owner
              /\ \A r \in SourceIds \ {s} :
                     source'[r].status = "running" => source[r].status = "running"]_sourceVars

\* The cut published under an execution id, as a loader replaying it sees it.
PublishedCut ==
    [s \in SourceIds |->
        IF source[s].status = "completed" THEN source[s].cut ELSE NoCut]

Register == INSTANCE CutRegister
    WITH Ids <- SourceIds, Values <- Cuts, Unset <- NoCut, published <- PublishedCut

\* The table implements a write-once register per execution id: a late
\* completion, a failure after a lost response, a re-acquire of the same
\* deterministic id, or the pruning of payloads never changes a published cut.
ImplementsCutRegister == Register!CRSpec

=============================================================================
