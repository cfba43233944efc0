----------------------------- MODULE StoreClock -----------------------------
(***************************************************************************)
(* The database clock as the RPCs see it.  SQL's now() is the time at which *)
(* the transaction started, so an update may compare a lease with a time   *)
(* that has passed.                                                        *)
(***************************************************************************)
EXTENDS SourceLease

CONSTANTS
    MaxTime,    \* bound of the clock
    TxnSpan     \* how far a transaction's now() may lag the clock

ASSUME StoreClockAssumption == MaxTime \in Nat /\ TxnSpan \in Nat

VARIABLE now    \* the database clock

\* The values now() can have in a transaction whose effect happens at `now'.
TxnStarts == {t \in 0..now : t + TxnSpan >= now}

\* Time passes.
Advance ==
    /\ now < MaxTime
    /\ now' = now + 1

=============================================================================
