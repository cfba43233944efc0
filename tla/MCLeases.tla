------------------------------- MODULE MCLeases -------------------------------
(***************************************************************************)
(* Leases where they are granted, in the table of source executions         *)
(* (SourceExecution), and where they are renewed, in the process of a task  *)
(* (LeaseHeartbeat).  The table meets any number of callers and a task any  *)
(* answer of the table, so that each side is explored on its own: a         *)
(* behaviour is of one side, and the other stands still.                    *)
(***************************************************************************)
EXTENDS LeaseHeartbeat, SourceExecution

VARIABLE side   \* where the leases are watched

MCInit ==
    /\ TaskInit /\ SourceInit
    /\ side \in {"table", "process"}

InTable(step) == side = "table" /\ step /\ UNCHANGED <<side, taskVars>>

InProcess(step) == side = "process" /\ step /\ UNCHANGED <<side, sourceVars>>

MCNext == InTable(SourceNext) \/ InProcess(TaskNext)

leaseVars == <<side, taskVars, sourceVars>>

\* Fairness of LeaseHeartbeat, on its side.
MCFairness ==
    /\ WF_leaseVars(InProcess(Clock)) /\ WF_leaseVars(InProcess(Beat))
    /\ WF_leaseVars(InProcess(Evaluate \/ Throw)) /\ WF_leaseVars(InProcess(Deliver))
    /\ SF_leaseVars(InProcess(RunAnswered /\ Evaluate))
    /\ SF_leaseVars(InProcess(RunAnswered /\ Deliver))

MCFairSpec == MCInit /\ [][MCNext]_leaseVars /\ MCFairness

=============================================================================
