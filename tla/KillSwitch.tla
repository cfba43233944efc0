------------------------------ MODULE KillSwitch ------------------------------
(***************************************************************************)
(* The durable staging kill switch: an append-only table of events, read as *)
(* the latest event by the time its author stamped it with, and the         *)
(* operator script that records an event and reads it back                  *)
(* (durable-safety-store.ts, staging-kill-switch.ts,                        *)
(* staging-kill-switch-operator.ts, 019_recruiting_ops_safety_stores.sql).   *)
(*                                                                          *)
(* One scope, the one the script writes.  Operators stamp events with the   *)
(* clocks of their own machines; rows may also arrive outside the script.   *)
(***************************************************************************)
EXTENDS Naturals, FiniteSets

CONSTANTS
    Operators,      \* invocations of the script
    MaxTime,        \* bound on the clock
    Skew            \* how far the clock of an operator may be off

VARIABLES
    now,        \* the clock of the writer
    events,     \* recruiting_ops_kill_switch_events
    runs        \* the invocations

switch == <<now, events, runs>>

\* The script derives event_id, the primary key, from the stamp alone.
Event == [at : Nat, engaged : BOOLEAN, script : BOOLEAN, by : Operators \union {"setup"}]

Run == [ pc      : {"idle", "record", "readBack", "confirmed", "unconfirmed"},
         at      : Nat,
         engaged : BOOLEAN,
         seen    : SUBSET Event ]     \* history: the table its confirmation read

SwitchTypeOK ==
    /\ now \in Nat
    /\ events \subseteq Event
    /\ runs \in [Operators -> Run]

\* The event a write's permit was issued under.
SwitchInit ==
    /\ now = 0
    /\ events = {[at |-> 0, engaged |-> FALSE, script |-> TRUE, by |-> "setup"]}
    /\ runs = [o \in Operators |->
                  [pc |-> "idle", at |-> 0, engaged |-> FALSE, seen |-> {}]]

-----------------------------------------------------------------------------

\* Mutant: of events at the same instant any may count.
OvertakesByTime(e, d) == e.at >= d.at

\* Strictly newer wins, and ENGAGED wins a tie.
Overtakes(e, d) == e.at > d.at \/ (e.at = d.at /\ (e.engaged \/ ~d.engaged))

\* readKillSwitchStates: the state of the scope is one of these; of equals the
\* order of the rows decides.
Latest == {e \in events : \A d \in events : Overtakes(e, d)}

\* evaluateStagingKillSwitchStates: only an explicit DISENGAGED, not dated in
\* the future, is clear.
Clear == \E e \in Latest : ~e.engaged /\ e.at <= now

Row(o) == [at |-> runs[o].at, engaged |-> runs[o].engaged, script |-> TRUE, by |-> o]

Ran(o, pc) == runs' = [runs EXCEPT ![o].pc = pc]

Stamps == {t \in 0..(MaxTime + Skew) : t + Skew >= now /\ t <= now + Skew}

\* The operator's machine stamps the event.
Stamp(o) ==
    /\ runs[o].pc = "idle"
    /\ \E at \in Stamps, engaged \in BOOLEAN :
          runs' = [runs EXCEPT ![o] = [@ EXCEPT !.pc = "record", !.at = at, !.engaged = engaged]]
    /\ UNCHANGED <<now, events>>

\* recordKillSwitchEvent: an id that is taken is refused, by the lookup or by
\* the primary key; the insert may also throw, before or after it took effect.
Record(o) ==
    /\ runs[o].pc = "record"
    /\ \/ /\ ~\E e \in events : e.script /\ e.at = runs[o].at
          /\ events' = events \union {Row(o)}
          /\ \E pc \in {"readBack", "unconfirmed"} : Ran(o, pc)
       \/ Ran(o, "unconfirmed") /\ UNCHANGED events
    /\ UNCHANGED now

\* The script confirms only a state it has read back; otherwise, or when the
\* read throws, it says that the update was not confirmed.
ReadBack(o) ==
    /\ runs[o].pc = "readBack"
    /\ \/ /\ Row(o) \in Latest
          /\ runs' = [runs EXCEPT ![o] = [@ EXCEPT !.pc = "confirmed", !.seen = events]]
       \/ Ran(o, "unconfirmed")
    /\ UNCHANGED <<now, events>>

\* A row that arrives outside the script, at any instant.
ByHand(o) ==
    /\ runs[o].pc = "idle"
    /\ \E at \in Stamps, engaged \in BOOLEAN :
          events' = events \union {[at |-> at, engaged |-> engaged, script |-> FALSE, by |-> o]}
    /\ Ran(o, "unconfirmed")
    /\ UNCHANGED now

Tick == now < MaxTime /\ now' = now + 1 /\ UNCHANGED <<events, runs>>

SwitchNext == Tick \/ \E o \in Operators : Stamp(o) \/ Record(o) \/ ReadBack(o) \/ ByHand(o)

SwitchSpec == SwitchInit /\ [][SwitchNext]_switch

-----------------------------------------------------------------------------

\* Somebody took the engagement of o back: a DISENGAGED event with a later
\* stamp was inserted after o's confirmation.
TakenBack(o) ==
    \E d \in events \ runs[o].seen : ~d.engaged /\ d.at > runs[o].at

\* An engagement the script confirmed holds: whatever the clocks of the
\* operators, the order in which their rows arrive and the time that passes,
\* the switch is clear again only if somebody took it back.  Events that were
\* in the table before, dated in the future or tied with it, do not clear it.
ConfirmedEngageHolds ==
    \A o \in Operators :
        runs[o].pc = "confirmed" /\ runs[o].engaged /\ Clear => TakenBack(o)

=============================================================================
