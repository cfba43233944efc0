-------------------------- MODULE NotificationOutbox --------------------------
(***************************************************************************)
(* The notification outbox (006_notification_delivery.sql) and the          *)
(* notify-drain cron that fills it from the alert ledger, claims its rows   *)
(* under a lease and sends them to Slack (notification-delivery.ts).        *)
(*                                                                          *)
(* An intent is a deduplication key.  Time is relative: what is left of a   *)
(* lease, of a backoff and of an invocation's maxDuration.  A statement of  *)
(* the database is one step; a statement or a call that throws outside the  *)
(* send's try block ends the invocation, and so does the platform when the  *)
(* invocation is killed: Die is all of these, before or after the commit.   *)
(***************************************************************************)
EXTENDS Integers, FiniteSets

CONSTANTS
    Alerts,         \* alert_ledger rows of one sweep type
    Intents,        \* deduplication keys: an alert at one tier
    AlertOf,        \* the alert an intent speaks for
    Drains,         \* invocations of the cron that may overlap
    BatchLimit,     \* rows claimed by one drain
    LeaseLen,       \* leaseSeconds
    MaxDuration,    \* the route's maxDuration
    MaxAttempts,    \* max_attempts
    BackoffBase,
    BackoffCap,
    NoIntent

ASSUME NotificationOutboxAssumption ==
    /\ AlertOf \in [Intents -> Alerts]
    /\ BatchLimit \in Nat \ {0}
    /\ LeaseLen \in Nat
    /\ MaxDuration \in Nat
    /\ MaxDuration <= LeaseLen
    /\ MaxAttempts \in Nat \ {0}
    /\ BackoffBase \in Nat
    /\ BackoffCap \in Nat
    /\ NoIntent \notin Intents

VARIABLES
    alert,      \* the ledger: none, open or resolved
    tier,       \* the intent that the alert's current tier asks for
    outbox,     \* notification_outbox
    recorded,   \* intents with a sent row in notification_delivery_attempts
    posted,     \* messages Slack accepted, counted up to 2
    drain,      \* the invocations
    unrecorded, \* history: accepted, but not known to be when last tried
    stale,      \* history: resolved while no invocation held the intent
    dropped     \* history: held on its last attempt by an invocation that ended

ledger == <<alert, tier>>
vars == <<alert, tier, outbox, recorded, posted, drain, unrecorded, stale, dropped>>

Status == {"absent", "pending", "sending", "sent", "failed", "suppressed"}

\* left is -1 when the lease has ended, and 0 when there is none.
OutboxRow == [status : Status, left : -1..LeaseLen, attempts : 0..MaxAttempts, wait : 0..BackoffCap]

PC == {"idle", "upsert", "reap", "claim", "load", "loop", "sent_insert", "sent_stamp", "failed"}

DrainRow == [pc : PC, age : 0..MaxDuration, gate : BOOLEAN, intents : SUBSET Intents,
             batch : SUBSET Intents, exhausted : SUBSET Intents, resolved : SUBSET Alerts,
             row : Intents \union {NoIntent}]

IdleDrain == [pc |-> "idle", age |-> 0, gate |-> FALSE, intents |-> {}, batch |-> {},
              exhausted |-> {}, resolved |-> {}, row |-> NoIntent]

TypeOK ==
    /\ alert \in [Alerts -> {"none", "open", "resolved"}]
    /\ tier \in [Alerts -> Intents \union {NoIntent}]
    /\ outbox \in [Intents -> OutboxRow]
    /\ recorded \in SUBSET Intents
    /\ posted \in [Intents -> 0..2]
    /\ drain \in [Drains -> DrainRow]
    /\ unrecorded \in SUBSET Intents
    /\ stale \in SUBSET Intents
    /\ dropped \in SUBSET Intents

Init ==
    /\ alert = [a \in Alerts |-> "none"]
    /\ tier = [a \in Alerts |-> NoIntent]
    /\ outbox = [i \in Intents |-> [status |-> "absent", left |-> 0, attempts |-> 0, wait |-> 0]]
    /\ recorded = {}
    /\ posted = [i \in Intents |-> 0]
    /\ drain = [d \in Drains |-> IdleDrain]
    /\ unrecorded = {}
    /\ stale = {}
    /\ dropped = {}

\* What an invocation has claimed and not settled.
Held(d) == (drain[d].batch \union {drain[d].row}) \ {NoIntent}

Min2(m, n) == IF m < n THEN m ELSE n

-----------------------------------------------------------------------------
(* The sweeps, the operator and time *)

\* A sweep finds an application at a tier and enters its alert.
Raise(i) ==
    /\ tier[AlertOf[i]] # i
    /\ tier' = [tier EXCEPT ![AlertOf[i]] = i]
    /\ alert' = [alert EXCEPT ![AlertOf[i]] = IF @ = "none" THEN "open" ELSE @]
    /\ UNCHANGED <<outbox, recorded, posted, drain, unrecorded, stale, dropped>>

\* checkResolutions: the application was acted on.
Resolve(a) ==
    /\ alert[a] = "open"
    /\ alert' = [alert EXCEPT ![a] = "resolved"]
    /\ stale' = stale \union {i \in Intents : AlertOf[i] = a /\ \A d \in Drains : i \notin Held(d)}
    /\ UNCHANGED <<tier, outbox, recorded, posted, drain, unrecorded, dropped>>

\* The platform lets no invocation live beyond maxDuration.
Tick ==
    /\ \A d \in Drains : drain[d].pc # "idle" => drain[d].age < MaxDuration
    /\ drain' = [d \in Drains |->
                   IF drain[d].pc = "idle" THEN drain[d] ELSE [drain[d] EXCEPT !.age = @ + 1]]
    /\ outbox' = [i \in Intents |->
                   [outbox[i] EXCEPT
                      !.left = IF outbox[i].status = "sending" /\ @ >= 0 THEN @ - 1 ELSE @,
                      !.wait = IF @ > 0 THEN @ - 1 ELSE @]]
    /\ UNCHANGED <<ledger, recorded, posted, unrecorded, stale, dropped>>

\* NOTIFY_REFERRAL_SEND is as deployed.  enqueuePending reads the outbox and the
\* ledger: the intents of its alerts, at their current tier, that are not there.
Start(d) ==
    /\ drain[d].pc = "idle"
    /\ \E send \in BOOLEAN :
          drain' = [drain EXCEPT ![d] =
                      [IdleDrain EXCEPT !.pc = "upsert", !.gate = send,
                                        !.intents = {i \in Intents : /\ tier[AlertOf[i]] = i
                                                                     /\ outbox[i].status = "absent"}]]
    /\ UNCHANGED <<ledger, outbox, recorded, posted, unrecorded, stale, dropped>>

\* Killed, crashed, or out of drain() with an error: what it holds stays claimed.
Die(d) ==
    /\ drain[d].pc # "idle"
    /\ unrecorded' = IF drain[d].pc \in {"sent_insert", "sent_stamp"}
                     THEN unrecorded \union {drain[d].row} ELSE unrecorded
    /\ dropped' = dropped \union (Held(d) \intersect drain[d].exhausted)
    /\ drain' = [drain EXCEPT ![d] = IdleDrain]
    /\ UNCHANGED <<ledger, outbox, recorded, posted, stale>>

-----------------------------------------------------------------------------
(* enqueuePending *)

Inserted == [status |-> "pending", left |-> 0, attempts |-> 0, wait |-> 0]

\* Mutant: the upsert overwrites a row that another invocation inserted.
InsertsAlways(i) == TRUE

\* ignoreDuplicates: a key that exists by now is left alone.
Inserts(i) == outbox[i].status = "absent"

Upsert(d) ==
    /\ drain[d].pc = "upsert"
    /\ outbox' = [i \in Intents |->
                    IF i \in drain[d].intents /\ Inserts(i) THEN Inserted ELSE outbox[i]]
    /\ drain' = [drain EXCEPT ![d].pc = "reap", ![d].intents = {}]
    /\ UNCHANGED <<ledger, recorded, posted, unrecorded, stale, dropped>>

-----------------------------------------------------------------------------
(* reap and claim *)

\* Mutant: leased_until <= now().
ReapableAtEnd(i) == outbox[i].status = "sending" /\ outbox[i].left <= 0

\* leased_until < now()
Reapable(i) == outbox[i].status = "sending" /\ outbox[i].left < 0

\* The route reaps, and drain() reaps again at once: the later one does it all.
Reap(d) ==
    /\ drain[d].pc = "reap"
    /\ outbox' = [i \in Intents |->
                    IF Reapable(i) THEN [outbox[i] EXCEPT !.status = "pending", !.left = 0]
                    ELSE outbox[i]]
    /\ drain' = [drain EXCEPT ![d].pc = "claim"]
    /\ UNCHANGED <<ledger, recorded, posted, unrecorded, stale, dropped>>

Claimable == {i \in Intents : outbox[i].status = "pending" /\ outbox[i].wait = 0}

\* claim_notification_outbox: up to the limit, whichever of the due rows come
\* first.  attempt_count counts up to MaxAttempts, which is all it is compared to.
Claim(d) ==
    /\ drain[d].pc = "claim"
    /\ \E batch \in SUBSET Claimable :
          /\ Cardinality(batch) = Min2(Cardinality(Claimable), BatchLimit)
          /\ outbox' = [i \in Intents |->
                          IF i \in batch
                          THEN [outbox[i] EXCEPT !.status = "sending", !.left = LeaseLen,
                                                 !.attempts = Min2(@ + 1, MaxAttempts)]
                          ELSE outbox[i]]
          /\ drain' = [drain EXCEPT ![d] =
                         IF batch = {} THEN IdleDrain
                         ELSE [@ EXCEPT
                                 !.pc = "load", !.batch = batch,
                                 !.exhausted = {i \in batch : outbox[i].attempts + 1 >= MaxAttempts}]]
    /\ UNCHANGED <<ledger, recorded, posted, unrecorded, stale, dropped>>

\* Mutant: nobody looks at the ledger again.
NoneResolved == {}

ResolvedAlerts == {a \in Alerts : alert[a] = "resolved"}

\* loadResolvedLedgerKeys, once for the batch.
Load(d) ==
    /\ drain[d].pc = "load"
    /\ drain' = [drain EXCEPT ![d].pc = "loop", ![d].resolved = ResolvedAlerts]
    /\ UNCHANGED <<ledger, outbox, recorded, posted, unrecorded, stale, dropped>>

-----------------------------------------------------------------------------
(* drainOne *)

Take(d, i, pc) ==
    drain' = [drain EXCEPT ![d].pc = pc, ![d].row = i, ![d].batch = @ \ {i}]

\* On to the next claimed row, if there is one.
Rest(r) == IF r.batch = {} THEN IdleDrain ELSE [r EXCEPT !.pc = "loop", !.row = NoIntent]

Settled(d) == drain' = [drain EXCEPT ![d] = Rest(@)]

\* stampOutbox: by id, whatever the row's status is by now.
Stamp(i, row) == outbox' = [outbox EXCEPT ![i] = row]

\* Resolved since, or the gate is off: no message, the attempt and the stamp.
Suppress(d) ==
    /\ drain[d].pc = "loop"
    /\ \E i \in drain[d].batch :
          /\ AlertOf[i] \in drain[d].resolved \/ ~drain[d].gate
          /\ drain' = [drain EXCEPT ![d] = Rest([drain[d] EXCEPT !.batch = @ \ {i}])]
          /\ Stamp(i, [outbox[i] EXCEPT !.status = "suppressed", !.left = 0])
    /\ UNCHANGED <<ledger, recorded, posted, unrecorded, stale, dropped>>

\* postSlackDm: accepted, accepted with the answer lost, or refused.
Post(d) ==
    /\ drain[d].pc = "loop"
    /\ \E i \in drain[d].batch :
          /\ AlertOf[i] \notin drain[d].resolved
          /\ drain[d].gate
          /\ \/ /\ Take(d, i, "sent_insert")
                /\ posted' = [posted EXCEPT ![i] = Min2(@ + 1, 2)]
                /\ unrecorded' = unrecorded \ {i}
             \/ /\ Take(d, i, "failed")
                /\ posted' = [posted EXCEPT ![i] = Min2(@ + 1, 2)]
                /\ unrecorded' = unrecorded \union {i}
             \/ /\ Take(d, i, "failed")
                /\ UNCHANGED <<posted, unrecorded>>
    /\ UNCHANGED <<ledger, outbox, recorded, stale, dropped>>

\* recordSentAttempt: the attempt row, then the stamp.
RecordSent(d) ==
    /\ drain[d].pc = "sent_insert"
    /\ recorded' = recorded \union {drain[d].row}
    /\ drain' = [drain EXCEPT ![d].pc = "sent_stamp"]
    /\ UNCHANGED <<ledger, outbox, posted, unrecorded, stale, dropped>>

Sent(r) == [r EXCEPT !.status = "sent", !.left = 0]

StampSent(d) ==
    /\ drain[d].pc = "sent_stamp"
    /\ Stamp(drain[d].row, Sent(outbox[drain[d].row]))
    /\ Settled(d)
    /\ UNCHANGED <<ledger, recorded, posted, unrecorded, stale, dropped>>

\* Inside the try block: a record of the accepted message that throws, before or
\* after its commit, is handled as a failed send.
RecordThrows(d) ==
    /\ \/ /\ drain[d].pc = "sent_insert"
          /\ recorded' = recorded \union {drain[d].row} \/ UNCHANGED recorded
          /\ UNCHANGED outbox
       \/ /\ drain[d].pc = "sent_stamp"
          /\ Stamp(drain[d].row, Sent(outbox[drain[d].row])) \/ UNCHANGED outbox
          /\ UNCHANGED recorded
    /\ drain' = [drain EXCEPT ![d].pc = "failed"]
    /\ unrecorded' = unrecorded \union {drain[d].row}
    /\ UNCHANGED <<ledger, posted, stale, dropped>>

\* The count is the claim's, so the first failure waits for the base.
Backoff(n) == Min2(BackoffBase * 2 ^ (IF n = 0 THEN 0 ELSE n - 1), BackoffCap)

\* Mutant: an intent is given up one attempt early.
GivesUpEarly(i, exhausted) == outbox[i].attempts + 1 >= MaxAttempts

\* attempt_count, as claimed, has reached max_attempts.
GivesUp(i, exhausted) == i \in exhausted

\* recordFailedAttempt: the intent is over, or it is due again after the backoff.
RecordFailed(d) ==
    /\ drain[d].pc = "failed"
    /\ LET i == drain[d].row
       IN  \/ /\ GivesUp(i, drain[d].exhausted)
              /\ Stamp(i, [outbox[i] EXCEPT !.status = "failed", !.left = 0])
           \/ /\ ~GivesUp(i, drain[d].exhausted)
              /\ Stamp(i, [outbox[i] EXCEPT !.status = "pending", !.left = 0,
                                            !.wait = Backoff(outbox[i].attempts)])
    /\ Settled(d)
    /\ UNCHANGED <<ledger, recorded, posted, unrecorded, stale, dropped>>

Step(d) ==
    \/ Upsert(d) \/ Reap(d) \/ Claim(d) \/ Load(d)
    \/ Suppress(d) \/ Post(d) \/ RecordSent(d) \/ StampSent(d) \/ RecordThrows(d)
    \/ RecordFailed(d)

Next ==
    \/ \E i \in Intents : Raise(i)
    \/ \E a \in Alerts : Resolve(a)
    \/ Tick
    \/ \E d \in Drains : Start(d) \/ Die(d) \/ Step(d)

Spec == Init /\ [][Next]_vars

-----------------------------------------------------------------------------
(* Properties *)

\* "A live drain's lease never expires under it": what an invocation has claimed
\* and not yet turned to is sending under a lease that has not ended.
LeaseOutlivesDrain ==
    \A d \in Drains : \A i \in drain[d].batch :
        outbox[i].status = "sending" /\ outbox[i].left >= 0

\* Slack is sent an intent again only if an invocation that sent it did not get
\* to know, or to record, that it was accepted: overlapping invocations, reaped
\* leases and repeated scans of the ledger never send one twice.
ResentOnlyAfterFault ==
    [][\A i \in Intents : posted[i] > 0 /\ i \notin unrecorded => posted'[i] = posted[i]]_vars

\* An alert that was resolved while no invocation held its intent is not sent any
\* more, however the intent was left.
ResolvedNotSent == [][\A i \in stale : posted'[i] = posted[i]]_vars

\* An intent that reads sent was accepted by Slack and has its attempt row, one
\* that reads failed used up its attempts, and one that is due after its last
\* attempt, the claim has no bound, was dropped by an invocation that ended.
OutboxTruthful ==
    \A i \in Intents :
        /\ outbox[i].status = "sent" => posted[i] > 0 /\ i \in recorded
        /\ outbox[i].status = "failed" => outbox[i].attempts = MaxAttempts
        /\ outbox[i].status = "pending" /\ outbox[i].attempts = MaxAttempts => i \in dropped

=============================================================================
