-------------------------------- MODULE Sweeps --------------------------------
(***************************************************************************)
(* The agency sweep and the referral sweep (sweep-agency.ts,                *)
(* sweep-referral.ts) and the route that starts the former.  Both read      *)
(* Greenhouse, compare it with what the database holds and write            *)
(* sweep_items and alert_ledger in statements of their own; only the        *)
(* agency sweep keeps submissions and takes an advisory lock.  The rows of  *)
(* the two are disjoint, so a behaviour is of one kind.                     *)
(*                                                                          *)
(* All applications are of one email address.  An invocation may overlap    *)
(* with others, any statement of it may fail, before or after it took       *)
(* effect, and it may be killed at its maximum duration.                    *)
(***************************************************************************)
EXTENDS Naturals

CONSTANTS
    Apps,       \* applications
    Agencies,   \* source ids of agency_source_registry
    NoAgency,   \* an application without a source
    Runs,       \* invocations of the cron route
    NoRun,
    MaxFaults   \* bound on statements that fail and invocations that are killed

ASSUME SweepsAssumption == NoRun \notin Runs

VARIABLES
    kind,       \* the sweep
    pinned,     \* the sweep runs over a session-pinned connection
    writeback,  \* the columns of migration 005 are in use
    source,     \* the agency of each application
    history,    \* applications whose address has applied without an agency
    greenhouse, \* what Greenhouse shows of each application
    locked,     \* invocations whose session holds the advisory lock
    status,     \* sweep_runs
    subs,       \* agency_submissions
    items,      \* sweep_items: the invocations that recorded an application
    ledger,     \* alert_ledger: the invocation whose time is first_alerted_at
    run,        \* the local state of the invocations
    faults      \* faults so far

world == <<kind, pinned, writeback, source, history>>
tables == <<status, subs, items, ledger>>
vars == <<world, greenhouse, locked, tables, run, faults>>

\* "review" is Application Review, where a referral raises an alert.
Stages == {"absent", "review", "moved"}

\* by: the invocations that wrote the row.
Submission == [by : SUBSET Runs, conflict : BOOLEAN]

PC == { "idle", "create", "fetch", "tracked", "check", "alerted", "subs", "items",
        "alerts", "again", "complete", "fail", "release", "done", "killed" }

\* todo: applications to check; rows: submissions to store; found: conflicts or
\* referrals; alertable: those of found that raise an alert; due: those without
\* one in the ledger.  after (invocations that had ended at the start), unread
\* (applications whose duplicate check got no answer) and blind (the ledger read
\* got none) are history.
Run == [ pc : PC, todo : SUBSET Apps, rows : SUBSET Apps, found : SUBSET Apps,
         alertable : SUBSET Apps, due : SUBSET Apps, after : SUBSET Runs,
         unread : SUBSET Apps, blind : BOOLEAN ]

TypeOK ==
    /\ kind \in {"agency", "referral"} /\ pinned \in BOOLEAN /\ writeback \in BOOLEAN
    /\ source \in [Apps -> Agencies \union {NoAgency}] /\ history \subseteq Apps
    /\ greenhouse \in [Apps -> Stages]
    /\ locked \subseteq Runs
    /\ status \in [Runs -> {"none", "running", "completed", "failed"}]
    /\ subs \in [Apps -> Submission]
    /\ items \in [Apps -> SUBSET Runs]
    /\ ledger \in [Apps -> Runs \union {NoRun}]
    /\ run \in [Runs -> Run]
    /\ faults \in 0..MaxFaults

Idle == [ pc |-> "idle", todo |-> {}, rows |-> {}, found |-> {}, alertable |-> {},
          due |-> {}, after |-> {}, unread |-> {}, blind |-> FALSE ]

Init ==
    /\ \/ /\ kind = "agency"
          /\ pinned \in BOOLEAN /\ writeback \in BOOLEAN
          /\ source \in [Apps -> Agencies \union {NoAgency}]
          /\ history \in SUBSET Apps
       \/ /\ kind = "referral"
          /\ pinned = FALSE /\ writeback = FALSE
          /\ source = [a \in Apps |-> NoAgency]
          /\ history = {}
    /\ greenhouse = [a \in Apps |-> "absent"]
    /\ locked = {} /\ status = [r \in Runs |-> "none"]
    /\ subs = [a \in Apps |-> [by |-> {}, conflict |-> FALSE]]
    /\ items = [a \in Apps |-> {}] /\ ledger = [a \in Apps |-> NoRun]
    /\ run = [r \in Runs |-> Idle]
    /\ faults = 0

-----------------------------------------------------------------------------

At(r, pc) == run[r].pc = pc
Ended == {r \in Runs : run[r].pc \in {"done", "killed"}}
Becomes(r, row) == run' = [run EXCEPT ![r] = row]
Moves(r, pc) == Becomes(r, [run[r] EXCEPT !.pc = pc])
Fault == faults < MaxFaults /\ faults' = faults + 1
Happens(fault) == IF fault THEN Fault ELSE UNCHANGED faults
Goes(r, pc) == Moves(r, pc) /\ UNCHANGED faults
Tracked == {a \in Apps : subs[a].by # {}}
Alerted == {a \in Apps : ledger[a] # NoRun}

\* A statement fails: it has taken effect or it has not.
Throws(r) == Moves(r, "fail") /\ Fault

\* Mutant: the lock is granted whoever holds it.
GrantsAlways == TRUE

\* pg_try_advisory_lock.  On pooled connections the lock of another invocation
\* may be on the backend that answers, or be gone.
Grants == pinned => locked = {}

\* The route reaps rows of invocations that died long ago, if their update works;
\* then the sweep takes the lock.  It is skipped when the lock is held or its
\* function is missing.  The referral sweep has no lock.
Start(r) ==
    /\ At(r, "idle")
    /\ \E dead \in SUBSET {d \in Ended : kind = "agency" /\ status[d] = "running"} :
          status' = [d \in Runs |-> IF d \in dead THEN "failed" ELSE status[d]]
    /\ \/ /\ kind = "agency" => Grants
          /\ locked' = IF kind = "agency" THEN locked \union {r} ELSE locked
          /\ Becomes(r, [run[r] EXCEPT !.pc = "create", !.after = Ended])
          /\ UNCHANGED faults
       \/ kind = "agency" /\ Goes(r, "done") /\ UNCHANGED locked
    /\ UNCHANGED <<world, greenhouse, subs, items, ledger>>

\* What follows an error outside the reach of the run row, and every end.
Closing == IF kind = "agency" THEN "release" ELSE "done"

CreateRun(r) ==
    /\ At(r, "create")
    /\ \E failed, written \in BOOLEAN :
          /\ failed \/ written
          /\ status' = IF written THEN [status EXCEPT ![r] = "running"] ELSE status
          /\ Moves(r, IF failed THEN Closing ELSE "fetch")
          /\ Happens(failed)
    /\ UNCHANGED <<world, greenhouse, locked, subs, items, ledger>>

\* What Greenhouse shows of the window (and of the census of referrals): any of
\* the applications that have arrived.
Window == SUBSET {a \in Apps : greenhouse[a] # "absent"}

FetchApplications(r) ==
    /\ At(r, "fetch") /\ kind = "agency"
    /\ \/ \E seen \in Window :
             /\ IF seen = {} THEN Moves(r, "complete")
                ELSE Becomes(r, [run[r] EXCEPT !.pc = "tracked", !.todo = seen])
             /\ UNCHANGED faults
       \/ Throws(r)
    /\ UNCHANGED <<world, greenhouse, locked, tables>>

\* Every referral is an item; one outside Application Review is "actioned" and
\* raises no alert.
FetchReferrals(r) ==
    /\ At(r, "fetch") /\ kind = "referral"
    /\ \/ \E seen \in Window :
             /\ IF seen = {} THEN Moves(r, "complete")
                ELSE Becomes(r, [run[r] EXCEPT !.pc = "alerted", !.found = seen,
                                    !.alertable = {a \in seen : greenhouse[a] = "review"}])
             /\ UNCHANGED faults
       \/ Throws(r)
    /\ UNCHANGED <<world, greenhouse, locked, tables>>

\* newApplications
ReadTracked(r) ==
    /\ At(r, "tracked")
    /\ \/ /\ Becomes(r, [run[r] EXCEPT !.pc = "check", !.todo = @ \ Tracked])
          /\ UNCHANGED faults
       \/ Throws(r)
    /\ UNCHANGED <<world, greenhouse, locked, tables>>

\* Mutant: eq in the place of neq.
OfTheSameAgency(a) == {b \in Tracked : source[a] \in {source[b], NoAgency}}

\* The rows of the address that the duplicate check of a compares a with: neq
\* leaves out a's own agency and the rows that have none.
OfAnotherAgency(a) ==
    {b \in Tracked : source[a] = NoAgency \/ source[b] \notin {source[a], NoAgency}}

\* A new application: rows of another agency (an error of this read counts as
\* none), else a history without an agency.  Without a source and before 005 its
\* row is skipped.  A throw, or a candidate Greenhouse does not return, leaves the
\* application out.
Check(r, a) ==
    /\ At(r, "check") /\ a \in run[r].todo
    /\ \/ \E answered \in BOOLEAN :
             /\ Becomes(r, [run[r] EXCEPT
                   !.todo = @ \ {a},
                   !.rows = IF source[a] = NoAgency /\ ~writeback THEN @ ELSE @ \union {a},
                   !.found = IF a \in history \/ (answered /\ OfAnotherAgency(a) # {})
                             THEN @ \union {a} ELSE @,
                   !.unread = IF answered THEN @ ELSE @ \union {a}])
             /\ Happens(~answered)
       \/ Becomes(r, [run[r] EXCEPT !.todo = @ \ {a}]) /\ Fault
    /\ UNCHANGED <<world, greenhouse, locked, tables>>

\* Mutant: the conflicts of skipped rows are kept.
EveryConflict(r) == run[r].found

\* conflictsToPersist drops the conflicts of skipped rows.
ConflictsToPersist(r) == run[r].found \intersect run[r].rows

\* The ledger read; its error counts as an empty ledger.
ReadLedger(r) ==
    /\ \/ At(r, "check") /\ run[r].todo = {}
       \/ At(r, "alerted")
    /\ LET found == IF kind = "agency" THEN ConflictsToPersist(r) ELSE run[r].found
           alertable == IF kind = "agency" THEN found ELSE run[r].alertable
       IN  \E blind \in BOOLEAN :
             /\ Becomes(r, [run[r] EXCEPT
                   !.pc = IF kind = "agency" THEN "subs" ELSE "items",
                   !.found = found, !.alertable = alertable, !.blind = blind,
                   !.due = IF blind THEN alertable ELSE alertable \ Alerted])
             /\ Happens(blind)
    /\ UNCHANGED <<world, greenhouse, locked, tables>>

StoreSubmissions(r) ==
    /\ At(r, "subs")
    /\ \/ /\ subs' = [a \in Apps |->
                 IF a \notin run[r].rows THEN subs[a]
                 ELSE [by |-> subs[a].by \union {r}, conflict |-> a \in run[r].found]]
          /\ Goes(r, "items") \/ (run[r].rows # {} /\ Throws(r))
       \/ run[r].rows # {} /\ Throws(r) /\ UNCHANGED subs
    /\ UNCHANGED <<world, greenhouse, locked, status, items, ledger>>

InsertItems(r) ==
    /\ At(r, "items")
    /\ \/ /\ items' = [a \in Apps |-> IF a \in run[r].found THEN items[a] \union {r} ELSE items[a]]
          /\ Goes(r, "alerts") \/ (run[r].found # {} /\ Throws(r))
       \/ run[r].found # {} /\ Throws(r) /\ UNCHANGED items
    /\ UNCHANGED <<world, greenhouse, locked, status, subs, ledger>>

\* Mutant: every alert of the sweep is upserted, in the ledger or not.
UpsertAlertable(r) ==
    /\ At(r, "alerts")
    /\ ledger' = [a \in Apps |-> IF a \in run[r].alertable THEN r ELSE ledger[a]]
    /\ Goes(r, IF kind = "agency" THEN "complete" ELSE "again")
    /\ UNCHANGED <<world, greenhouse, locked, status, subs, items>>

\* The upsert writes first_alerted_at of a row that exists as well.
UpsertAlerts(r) ==
    /\ At(r, "alerts")
    /\ \/ /\ ledger' = [a \in Apps |-> IF a \in run[r].due THEN r ELSE ledger[a]]
          /\ \/ Goes(r, IF kind = "agency" THEN "complete" ELSE "again")
             \/ run[r].due # {} /\ Throws(r)
       \/ run[r].due # {} /\ Throws(r) /\ UNCHANGED ledger
    /\ UNCHANGED <<world, greenhouse, locked, status, subs, items>>

\* last_alerted_at of the referrals alerted before.
BumpAlerts(r) ==
    /\ At(r, "again")
    /\ Goes(r, "complete") \/ (run[r].alertable # run[r].due /\ Throws(r))
    /\ UNCHANGED <<world, greenhouse, locked, tables>>

MarkRunCompleted(r) ==
    /\ At(r, "complete")
    /\ \/ status' = [status EXCEPT ![r] = "completed"] /\ (Goes(r, Closing) \/ Throws(r))
       \/ Throws(r) /\ UNCHANGED status
    /\ UNCHANGED <<world, greenhouse, locked, subs, items, ledger>>

\* The catch block; an error of the update is only logged.
MarkRunFailed(r) ==
    /\ At(r, "fail")
    /\ \E failed \in BOOLEAN :
          /\ status' = IF failed THEN status ELSE [status EXCEPT ![r] = "failed"]
          /\ Moves(r, Closing)
          /\ Happens(failed)
    /\ UNCHANGED <<world, greenhouse, locked, subs, items, ledger>>

\* The finally block: releasing is best effort.
Release(r) ==
    /\ At(r, "release")
    /\ \E failed \in BOOLEAN :
          /\ locked' = IF failed THEN locked ELSE locked \ {r}
          /\ Moves(r, "done")
          /\ Happens(failed)
    /\ UNCHANGED <<world, greenhouse, tables>>

Kill(r) ==
    /\ run[r].pc \notin {"idle", "done", "killed"}
    /\ Moves(r, "killed") /\ Fault
    /\ UNCHANGED <<world, greenhouse, locked, tables>>

\* A session ends with its invocation; a pooled one loses its lock at any time.
SessionEnds(r) ==
    /\ r \in locked /\ (pinned => r \in Ended)
    /\ locked' = locked \ {r}
    /\ UNCHANGED <<world, greenhouse, tables, run, faults>>

\* Applications arrive; referrals leave Application Review and come back to it.
Greenhouse(a) ==
    /\ \E stage \in Stages \ {"absent", greenhouse[a]} :
          /\ kind = "agency" => stage = "review"
          /\ greenhouse' = [greenhouse EXCEPT ![a] = stage]
    /\ UNCHANGED <<world, locked, tables, run, faults>>

Step(r) ==
    \/ Start(r) \/ CreateRun(r) \/ FetchApplications(r) \/ FetchReferrals(r) \/ ReadTracked(r)
    \/ (\E a \in Apps : Check(r, a))
    \/ ReadLedger(r) \/ StoreSubmissions(r) \/ InsertItems(r) \/ UpsertAlerts(r)
    \/ BumpAlerts(r) \/ MarkRunCompleted(r) \/ MarkRunFailed(r) \/ Release(r)
    \/ Kill(r) \/ SessionEnds(r)

Next == (\E r \in Runs : Step(r)) \/ (\E a \in Apps : Greenhouse(a))

Spec == Init /\ [][Next]_vars

-----------------------------------------------------------------------------

Overlap(r, q) == r # q /\ r \notin run[q].after /\ q \notin run[r].after

\* What the tables say of an application agrees, whatever statement failed: an
\* alert has an item and an item of the agency sweep a submission (the orphan of
\* sweep-agency.ts:155), and an invocation recorded as completed has written
\* everything it found.
RecordsAgree ==
    /\ \A a \in Apps : /\ ledger[a] # NoRun => items[a] # {}
                       /\ kind = "agency" /\ items[a] # {} => a \in Tracked
    /\ \A r \in Runs : status[r] = "completed" =>
          /\ \A a \in run[r].rows : r \in subs[a].by
          /\ \A a \in run[r].found : r \in items[a]
          /\ run[r].alertable \subseteq Alerted

\* Over a session-pinned connection the advisory lock keeps an application from
\* being stored, or reported, by two invocations (sweep-agency.ts:22).
StoredOnceWhenPinned ==
    kind = "agency" /\ pinned =>
        \A a \in Apps, r, q \in Runs :
            {r, q} \subseteq subs[a].by \/ {r, q} \subseteq items[a] => r = q

\* Two agencies submitted one address and neither row is marked: both came in
\* one sweep, or in two that overlapped, or the read of the duplicate check of
\* one of them failed (sweep-agency.ts:4).
CrossAgencyCaught ==
    \A a, b \in Tracked :
        /\ source[a] # source[b] /\ NoAgency \notin {source[a], source[b]}
        /\ ~subs[a].conflict /\ ~subs[b].conflict
        => \E r \in subs[a].by, q \in subs[b].by :
              r = q \/ Overlap(r, q) \/ a \in run[r].unread \/ b \in run[q].unread

\* The time an alert came into existence (first_alerted_at, which the routing
\* start line of notification-delivery.ts:684 compares) changes only when the
\* ledger read of the writing invocation failed, or two invocations overlapped.
RedatedOnlyUnderFault ==
    [][\A a \in Apps :
          ledger[a] # NoRun /\ ledger'[a] # ledger[a] =>
              run[ledger'[a]].blind \/ Overlap(ledger[a], ledger'[a])]_vars

=============================================================================
