# Verification of the recruiting analytics platform

TLA+ modules, TLC configurations and TLAPS proofs for the recruiting-operations
platform in this repository. Greenhouse data is extracted, joined and
classified; sweeps put alerts into Postgres; a durable outbox notifies people; a
leased, resumable orchestration writes into copies of Google Sheets and
documents; a monthly report is e-mailed to two recipients.

Everything is translated from the code (the plpgsql functions in
`supabase/migrations`, TypeScript in `lib` and `app`), never from a document's
words. Where the two disagree the code is modelled and section 8 says so.
`PROJECT.json` names the source lines behind every definition.

## 1. Inventory of the system

| | Component | State it keeps | Operations | Hard behaviour | What makes it correct |
|---|---|---|---|---|---|
| A | Source execution lease (migrations 023, 025, 030, `source-execution-store.ts`) | a row per source load: status, owner, lease, replayable cut | acquire, reap, complete, fail, heartbeat, payload discard | racing loaders, late completions, lost responses, `now()` frozen at the start of a transaction | one load at a time; a live lease excludes; a published cut never changes |
| B | Hydration run store (024, 026, 027, 028, 030, `hydration-orchestration-store.ts`) | runs, artifact attempts | claim with recovery, bind, start, finish and time out of attempts, finish run, heartbeat, retention | takeover of an expired run, recovery of another key's run, retention racing both, statements of one claim interleaved with other transactions | one active run; outcomes match the attempts; certified work is not repeated; a live run is not disturbed; an active run can replay its cut |
| C | Hydration orchestrator (`staging-hydration-orchestrator.ts`, `lease-heartbeat.ts`) | progress of a Cloud Run task, heartbeat registrations | claim, load or replay, resume, execute, persist, finish, tick | a crash at any await, a request that commits late, a zombie task, a beat that overlaps the next | every mutation of the document is accounted for, and none follows another whose count was stored; reports are true; a task ends; a lost lease is noticed |
| D | Employee referral report (029, `employee-referral-report-*.ts`, `email-notify.ts`) | revisions, two recipient slots each, correction proposals | prepare and claim, start and finalize an attempt, provider event, deadline, drift, promotion | overlapping invocations, the provider's 24-hour memory of a key, events out of order, a correction while an old message is on its way | nobody is mailed twice or late unawares; attention always has an obligation behind it; what was delivered stays so |
| E | Notification outbox (006, 008, `notification-delivery.ts`, `notify-drain`) | intents with lease and attempts, audit rows | enqueue, reap, claim, send, record, back off, suppress | at-least-once sending, killed invocations, an alert resolved meanwhile | a live drain keeps its lease; a resend has a fault behind it; rows tell the truth |
| F | Sweeps (001, 002, 007, `sweep-*.ts`) | submissions, items, alert ledger, run rows | fetch, check, insert, upsert, reap, resolve | a session lock over a pooled connection, two sweeps reading before either writes, three tables written by three statements, reads whose error counts as empty | the tables agree whatever statement failed; an alert's first time moves only under a fault; a cross-agency duplicate is caught |
| G | Identity and agency resolution (005, `identity-resolver.ts`, `agency-resolver.ts`) | overrides, resolutions, review queue | resolve, reconcile | conflicting evidence | precedence as stated |
| H | Greenhouse client (`greenhouse-client.ts`) | shared token, cursor | authorised get, pages, retry | one token refresh shared by requests with different deadlines | no request fails for another's deadline |
| I | Year-to-date extraction and conflicts (003, 004, `ytd-*.ts`) | snapshot rows | normalise, detect and settle conflicts | precedence | pure functions |
| J | Guarded Google writes (`delivery/*staging*`) | permit, document revision | plan, permit, re-read, write, certify, roll back | people editing between check and write, a commit whose answer is lost or that arrives late, a Drive version that trails the content | no edit that was visible is overwritten; a result says what was applied |
| K | Control plane (019, 020, kill switch, autonomy, ledger) | append-only events | record, read back, evaluate, promote | events stamped by skewed clients, ties, rows by hand | a confirmed engagement stops writes until somebody takes it back |
| L | Cadence and watchdogs | none | slot due, overdue | weekday boundaries | every slot is looked at |
| M | Metrics, renderers, pages, scripts, registries | none | read, aggregate, render | none a model would reach | - |

How they interact. A hydration task (C) claims a run (B), loads or replays its
cut (A), executes each artifact through the guarded writes (J) under the switch
(K), stores every attempt (B) and seals the run. The heartbeat (C) renews both
leases meanwhile; retention prunes the payloads of A with a look at B. Sweeps
(F) write alerts that the outbox (E) scans; E resolves recipients and calls
Slack. The report runner (D) and the watchdog share the ledger of 029 and Resend.

## 2. Modules

| Module | Stands for | Extended or instanced by |
|---|---|---|
| `CutRegister` | abstract: a write-once register per id | `SourceExecution`, `HydrationStore` (refinements) |
| `SourceLease` | the RPCs of A as operators on the table | `StoreClock`, `HydrationRpc` |
| `StoreClock` | the database clock of A and B and the lag of `now()` | `SourceExecution`, `HydrationStore` |
| `SourceExecution` | A under any callers | `MCLeases`, `HydrationStore` (refinement), `HydrationProofs` |
| `HydrationRpc` | the RPCs of B as operators on three tables (A's included) | `HydrationStore`, `HydrationRun`, `HydrationTheorems` |
| `HydrationStore` | B under any callers, with retention | `MCHydrationStore`, `HydrationProofs` |
| `HydrationRun` | tasks of C, await by await, on B | `MCHydrationRun`, `HydrationRunProofs` |
| `LeaseHeartbeat` | the timer of C and the two leases it renews | `MCLeases`, `LeaseProofs` |
| `EltWrite` | the guarded write of the document of J | `MCGuardedWrites` |
| `KillSwitch` | the switch of K: table, operator script, what a writer reads | `SheetWrite` |
| `SheetWrite` | the guarded writes of values and of structure of J, under the switch | `SheetWriteProofs` |
| `MCGuardedWrites` | J: one guarded write, of a document or of a spreadsheet | `GuardedWritesProofs` |
| `ClaimRecovery` | `claim`'s recovery of B, split at its row locks | `LeaseProofs` |
| `NotificationOutbox` | E | `MCNotificationOutbox`, `DeliveryProofs` |
| `ReferralDelivery` | D | `MCReferralDelivery`, `DeliveryProofs` |
| `Sweeps` | F: both sweeps, the lock, the reaper | `MCSweeps`, `SweepsProofs` |

### How state and actions correspond

*SourceLease, SourceExecution.* `source` is the table of 023. An RPC is one
action because each is one transaction that serialises on the row or on the
partial unique index. The clock is an integer; `now()` of a transaction is its
start, so each action takes a time up to `TxnSpan` behind the clock. Validation
of formats is left out. Payload discard is the one change the trigger lets
through on a completed row.

*HydrationRpc, HydrationStore.* A database value `db` has the fields `source`,
`run` and `attempts`; each RPC is a predicate between two such values, so that
the store (any client), the orchestrator (one client) and the proofs share them.
Certification evidence (027, 028) is reduced to an attempt being certified or
not. Every RPC is one atomic step here; `ClaimRecovery` opens the only one where
that matters. In `HydrationRun` the lease of a source reap, 3600 s in the code,
is `RunLeaseLen`: both are longer than any step. `HydrationStore` implements
`SourceExecution` with `db.source` for its table (`ImplementsSourceExecution`):
no RPC of B, retention included, does to a source what A does not allow.

*HydrationRun.* `task[p].pc` names the await a task is at. A call may be lost
before it commits, lose its answer after it, or stay in `net` and commit late;
`MaxFaults` bounds these. An exception in the main `try` leads to `failRun`,
modelled as the same steps with `failing` set. A Cloud Run task is retried only
after its previous try is over (`PreviousTryOver`), under the same owner token;
another execution has another. A request is a record of everything its task
knows; `Commit` shows which of it the RPC is passed. `executeArtifact` is one step with every result
it can report, including a mutation that is applied after the call returned. An
attempt that fails after its batch went out ends with its count or with null
(`Broken`): only a `StagingEltDocWriteExecutionError` carries the count, any other
exception of the runner and everything thrown out of it is stored without one.
`counted` and `unknown` follow the document's attempts, the only ones whose count is
a fence, and a null reads there as no mutation.

*LeaseHeartbeat.* Time is relative: `left[n]` is what is left of a lease in
timer intervals, so behaviours can be infinite in finitely many states. A
renewal is evaluated by the database and answered some time later; ticks may
overlap. Loads register and release the source lease; `stop` precedes sealing.
`MCLeases` explores the table of A and the task side by side: a behaviour is of one,
and a task expects no more of the table than any answer to a renewal.

*EltWrite.* One call of `writeStagingEltDocument` among editors, a Drive version
that trails the content, and a transport whose `batchUpdate` may be applied
although the call threw, or later. A stable read (two equal reads between two
equal versions) is one step, since revision and version only grow. The
permission fence is one of the reasons for which a read throws. A preimage that
verifies after a transport error does not exclude a late commit; the count
reported then fences the retry, which is what `CountCovers` states.

*KillSwitch.* The table of 019 as a set of events, each stamped by the clock of
the operator's machine, up to `Skew` off. The script derives the primary key
from the stamp, so two operators of one instant collide; it reads the table back
before it says "confirmed". `Latest` is the set of events that none overtakes:
among equals the order of the rows decides, so a writer may see either. One
scope; a broader one only adds reasons to block.

*SheetWrite.* One call of `writeStagingSheetValues` or of
`normalizeStagingSheetStructure`. The Sheets API has no revision fence, so a
batch is applied to whatever it meets, at once or later. The workbook is two
values: what the plan replaces (`own`) and all else the code compares (`rest`).
Each read of a round is an action of its own between two reads of the Drive
version. A person's edit is the only way to `edited`; a batch that met something
else leaves `bad`. `fenced` remembers what Drive showed at the last check before
the forward batch, which is all the code could have known.

*MCGuardedWrites.* An artifact is a document or a spreadsheet: a behaviour takes
the steps of one of the two and the other stands still. `SheetWrite` is
instanced with its variables renamed, through `SheetWriteProofs`, so that its
theorems are available for the composition.

*Sweeps.* Each statement of a sweep is an action that may fail before or after
its effect; reads whose error the code ignores have an empty answer as an
outcome. A behaviour is of one kind of sweep, since their rows are disjoint. All
applications are of one e-mail address: only those are compared with each other.
`subs[a].by` and `items[a]` hold the invocations that wrote the row and
`ledger[a]` the one whose time is `first_alerted_at`. Over a pinned connection the
advisory lock is held until release or the end of the session; over the pool it
may vanish at any time and be granted twice. `after`, `unread` and `blind` are
history. The resolution pass writes columns that no property reads and is left
out; the outbox has the resolution of an alert.

*ClaimRecovery.* READ COMMITTED, each statement an action guarded by the row
locks it needs, for one expired run bound to one source, against the owner's own
RPCs (called one after another), its heartbeat (in parallel) and retention. The
source is old enough for retention. A claim of the same key, one guarded
UPDATE, is not in this module.

*NotificationOutbox.* A row has its remaining lease and back-off. An invocation
works through a batch; a killed one stops before or after the commit of the
statement in flight. Audit rows other than `sent` are left out; two reaps in a
row are one step; `attempts` saturates at `MaxAttempts`, and `dropped` remembers which
intents were held on their last attempt by an invocation that ended. Escalation e-mail,
cutover and recruiter routing are off by default and left out.

*ReferralDelivery.* `run`, `slot`, `proposal` are the tables of 029. Each RPC is
written as what it makes of a value of the three (`Refresh`, `Conflict`,
`Expire`, `ResolveUnsafe`, `ClaimSlots`), committed in one step: an advisory lock on the
period makes it atomic. `dispatch` is where an invocation is with each slot it
claimed. Statuses and causes the code treats alike are one. The provider drops a
repetition of a key it accepted less than `Window` (24 h) ago. `Margin` is the
five minutes before its end at which retries stop. From the `now()` of
`start_provider_attempt` to the provider's acceptance any time may pass: the code
bounds it by the 700 s of the phase, more than the margin, and does not look at the
24 hours again. A POST without an answer may be `adrift`, accepted after the
invocation has finalized it as ambiguous; one whose invocation was killed stays
`started`. `misjudged` and `overran` are history: the slots for which an attempt was
taken as failed too early, and those a repetition reached later than the margin.
`recovery_eligible_at` is taken as passed (more behaviours, not fewer). The
request fingerprint is a function of payload and recipients, so a replay that
conflicts with neither meets the frozen fingerprint. An old revision is only
replayed as it was frozen: a conflict there reaches no status but its own.
Events are enumerated in any order because the watchdog records what it read
earlier. `attempt` stands for the lease token of a claim.

## 3. Runs

Each run explores the whole state graph and must pass, unless noted.

| Run | Question | Bounds |
|---|---|---|
| `leases` | two loaders racing for two ids: exclusion, refinement of the register; in a task, renewals that fail, hang or answer late | table: 2 ids, 2 owners, 2 cuts, lease 2, clock 5, lag 1; task: lease of 4 intervals |
| `hydration_store` | two runs of different artifact sets: takeover, recovery, retries, retention, binding | 2 runs, 2 owners, 2 attempts on one artifact and 1 on the other, 1 cut, clock 2, leases 1, lag 1 |
| `hydration_takeover` | two executions of one run over the document | 2 tasks, 2 faults, clock 2, lease 1 |
| `hydration_mutated_once` | *violation*: "never retries ELT when an older attempt crossed the mutation boundary" | 2 tasks, no fault, clock 1 |
| `hydration_task_retry` | a crashed task is retried under its own token; tries end | 2 tries, document, 1 fault, clock 1 |
| `guarded_writes` | one guarded write, of the document or of a spreadsheet, among editors, operators and a faulty transport | 2 edits; for a spreadsheet 2 disturbances out of edits, scripts and rows by hand; 2 operators, clock 1, skew 1 |
| `claim_recovery` | row locks, order and end of the recovery | 1 artifact, lease 2, clock 2 |
| `claim_recovery_atomic` | *violation*: 026's "atomically" | as above |
| `notification_outbox` | two invocations, two tiers of one alert | batch 2, lease 1, duration 1, 2 attempts |
| `referral_delivery` | duplicates, late messages, stuck periods | 1 slot, 2 invocations, 2 revisions, 2 claims, clock 3, window 3 |
| `referral_once_only` | *violation*: 029's "once-only" | 1 slot, 1 revision, 3 claims |
| `sweeps` | two invocations of either sweep, pinned or pooled | 2 applications, 2 agencies, 2 faults |

Why these are enough for the cases they are about:

- A takeover needs two owners and one lease end; a recovery needs a second key; a
  race with retention needs a shared source. The clocks reach past the end of a
  lease that started after tick 0, with and without lag.
- In `hydration_takeover` two faults allow a lost answer followed by a late
  request. The configurations of C have the document alone, the one artifact whose
  log is a fence; what several artifacts amount to is checked in `hydration_store`
  and the theorems are for any set of them. The configurations of B and C have one
  cut: a run's binding cannot
  change (`ImplementsBinding`, proved for any number of cuts), and the source
  table is checked with two in `leases`.
- In `hydration_store` one artifact may be retried and the other not: an outcome
  mixes certified, failed and timed out attempts, and an attempt log has a second
  entry. Every lease is one tick, so it ends within the clock, with and without lag.
- A lease of four intervals lets a renewal hang over a missed beat and still end
  in time or not.
- Two edits allow one before and one after each check of the document. Two
  disturbances of a spreadsheet allow an edit against a write the switch is about
  to stop, or two operators of one instant; the theorems cover any number.
- Two sweeps of two applications of one address meet in every order; two faults
  pair a statement that failed with a read that got no answer.
- In `ClaimRecovery` one artifact suffices: what mixed outcomes aggregate to is
  checked in `hydration_store` and the locks are on the run's row.
- Two claims let an expired attempt overlap its successor inside the window, or
  each revision be sent once; the clock of 3 lets the second be accepted two ticks
  after its start, past a margin of 1, when the window of 3 is over. With
  one slot `partially_delivered` is not reached;
  slots of a revision meet only in `Aggregate`. Three claims of one slot, which a
  forgotten ambiguity needs, are in the violation run.

`CHECK_DEADLOCK FALSE` stands where the system may stop: a task that is over, a
write that returned, a period that needs nothing more. The other runs check
deadlock. `TypeOK` is proved for A, B, `HydrationRun`, `ClaimRecovery` and
`EltWrite`, where the proofs build on it; in the other modules it documents the
state.

Each property has a mutant of a mapped definition in `PROJECT.json` that violates
it: a dropped guard, a lock not taken, a lost reset, a swapped order.

## 4. Properties

- **A** `OneRunning`, `LiveLeaseExcludes`, and the refinement
  `ImplementsCutRegister` (of B, `ImplementsSourceExecution`): late completions, re-acquires of a deterministic id
  and pruning never change a published cut.
- **B** `OneActiveRun`, `OutcomeTruthful` (an outcome is what the attempts show),
  `LiveRunUndisturbed`, `SuccessIsFinal`, `AttemptLogs`, `SourcePinned`
  (retention never strands an active run), refinement `ImplementsBinding`.
- **C** `EltMutatedAgainOnlyIfUnknown` (and `EltMutatedOnce`, which the code does not
  keep), `EltMutationAccounted`, `CertifiedEltSettled`, `ReportTruthful`, `Termination`;
  `LeaseKept`, `HaltsOnlyWhenLost`,
  `LossRecorded`.
- **J, document** `EditsSurvive`, `CountCovers`, `ResultTruthful`.
- **J, spreadsheets** `SheetTruthful` (status, certification and count against what
  was applied), `OverwritesOnlyUnseenEdit` (without a revision fence an edit can be
  lost, but only one that Drive did not show at the last check), and with **K**
  `EngageStops` (an engagement confirmed before the gate reads the switch stops
  the write, unless somebody took it back).
- **B, by statements** `EndsWhole`, `RenewedRunKept`, `SourceKept`, `ClaimEnds`.
- **F** `RecordsAgree`, `StoredOnceWhenPinned`, `CrossAgencyCaught` (with the three
  ways in which a duplicate is missed), `RedatedOnlyUnderFault`.
- **E** `LeaseOutlivesDrain`, `OutboxTruthful`, `ResentOnlyAfterFault`,
  `ResolvedNotSent`.
- **D** `SentTwiceOnlyIfMisjudgedOrLate`, `LateOnlyIfAcknowledged`,
  `AttentionHasObligation`.

## 5. Fairness

- `HydrationRun`: weak fairness of each task's step. A step is a call that is
  answered or fails at a deadline, and an event loop goes on; a crash ends a task.
  Nothing is assumed of late requests or of the other task.
- `LeaseHeartbeat`: weak fairness of clock, beats and answers (a fetch has a
  deadline), and strong fairness of renewals of the run that are answered: not
  every call to the database fails for ever. Without it a loss need never be
  known, since an error is no verdict.
- `ClaimRecovery`: strong fairness of each transaction's steps. PostgreSQL serves
  the queue of a row lock in turn, so a transaction that waits again and again is
  not passed over for ever.

The other specifications state safety only.

## 6. Proofs

All theorems hold for every value of the constants under the named assumptions
of each module; the provers use nothing else.

*Source lease* (`HydrationTheorems`, `HydrationProofs`). One lemma per RPC: it
keeps types, keeps the index (`OneRunning`), and keeps a published cut.
`SourceTypeCorrect`, `MutualExclusion`, `LiveLease` and `Refinement` follow action
by action. A live lease needs only that a transaction's time is not after the
clock, so the lag may be any number.

*Hydration store* (`HydrationTheorems`, `HydrationProofs`). `OneActiveRun` alone
is not inductive: recovery and retention decide by attempts and sources. The
invariant `DbInv` is types, one active run, and for each run that its attempt log
settles, that its binding is backed by a source that can be replayed and that a
terminal outcome is what the log shows. Each RPC preserves it, in a lemma that
also states what it leaves alone (`Respects`, `KeepsBindings`). From it:
`TypeCorrect`, `OneRunActive`, `LogsSettled`, `Pinned`, `OutcomesTold`, `LiveRun`,
`SuccessStays`, `BindingRefinement`. `SourceRefinement` is the composition: each
action of B maps to one of A on `db.source` or to a stutter, so the theorems of A
hold of the composed store.

*Orchestrator* (`HydrationRunProofs`). Nobody is alone here: a zombie task, its
successor and late requests act on one run, and the fence is what the tables say
when a task resumes. `EltMutatedAgainOnlyIfUnknown` needs to know, for each entry of
the document's log, whether a mutation may still stem from it. The invariant is
`TypeInv` (types, `DbInv`, and which fields a task or a request uses at which
await) and `DocInv`: for each run the entries that can have mutated are the last
ones and unsettled, or told of by the count, or failed without one (`LogInv`); what a task holds of its
attempt agrees with the log, even if it is not the owner any more (`RowInv`); so
does a request that may commit late (`RequestInv`); and at most one task or request
can bring a mutation about (`Exclusive`). One lemma per effect of an RPC on the
log (`Ages`, `Begins`, `Concludes`), then one per await. `TypesHold`,
`MutatedAgainOnlyIfUnknown`, `MutationAccounted`, `CertifiedSettled` and `ReportsHold` follow for
any number of tasks, artifacts, faults and requests in the network.

*Heartbeat* (`LeaseProofs`). `LossIsReal`, that a recorded loss of the run goes
with a lease that is gone, is inductive with the answers on their way;
`HaltsForItsOwnLease` follows for any length of the lease. For `LeaseIsKept` the
beats are counted (`BeatsAccount`): what is left of the run's lease, the beat that
is due, the renewal on its way and the beats missed add up to the lease, and the
name of the run stays registered whatever is released or lost beside it.

*Claim recovery* (`LeaseProofs`). Statements of four transactions interleave, and
what one read several statements ago must still hold when it writes. The
invariant says who holds which row lock at which statement (`Locks`, and `Reserved`
for the attempts of the owner), what the recovery and retention counted and which
of it cannot change under their locks (`ClaimCounts`, `PruneCounts`), that only
time ends a lease (`LeaseGrows`) and what is bound. `TypeCorrect`, `EndedWhole`,
`PayloadKept` and `RenewedKept` hold for any number of artifacts and any lease.

*Outbox* (`DeliveryProofs`). The four properties stand or fall together. `Leases`:
what is left of a lease and the age of its holder make up at least the lease, so
with `MaxDuration <= LeaseLen` no row is reaped from under a drain. Hence
`Exclusive`: no two invocations hold one intent. Hence `Known`: a message known to
be accepted is stamped sent or about to be, by the one invocation that holds it.
`Seen` says of an intent resolved while nobody held it that a later holder looks at
the ledger after that; `Exhausted` and `LastAttempt` account for the last attempt.
The exception in `Leases`, a row that is held and reads sent, is the second window
for a duplicate of section 8. `LeaseOutlives`, `Truthful`, `ResentAfterFault` and
`ResolvedUnsent` hold for any number of alerts, intents and invocations. The
back-off is only known to be an integer: the provers have no fact about the sign
of a power, and none of the four needs one.

*Referral report* (`DeliveryProofs`). The invariant has a half about the tables and
one about the slots. `Tables`: revisions are made one after the other
(`Consecutive`), nothing is recorded of one before it is made (`Unmade`), what is
promoted has a successor (`Unpromoted`), and the newest asks for attention exactly
while a recovery proposal of it is open, which it is once a delivery has failed for
good (`Obliged`). Between the writes of an RPC the last part fails of the revision
at hand; `TablesBut` is what remains, and `RefreshTables` says that a refresh
restores it. `Once` bounds a slot that is `Excused` by neither history variable: its one message
was made after its first attempt, and the key is remembered for a window from then
(`Keyed`); an attempt under way, adrift or not, started more than the margin before
that end, so a POST that makes a second message overran (`InTime`), and two overlap only if
the margin is less than the window (`Overlap`); a slot taken as failed has neither a message nor an
attempt under way (`FailedUnsent`). `Replaced`: a revision replaced without an
acknowledgement has no attempt under way that could be the first to reach
anybody. Each step is a lemma about its slot, and `OtherSlots` carries the others;
only `Promote` needs both halves. Hence `SentOnce`, `AttentionObliged` and
`LateAcknowledged`, for any number of recipients, invocations, revisions and claims
and any lease, from `Margin <= Window`, with no bound on when a POST is accepted.

*Spreadsheet write and switch* (`SheetWriteProofs`). For the switch: the row of a
confirmed engagement was among the latest of the table its confirmation read, and
no event that was there overtakes it; so a DISENGAGED event that makes the switch
clear was inserted later and has a later stamp (`EngagementStays`), whatever the
skew, the ties and the rows by hand. For the call: where its count and
certification stand at each stage, which batches are applied or on their way, and
that the rounds of reads a certification rests on saw one state of the workbook
between two equal Drive versions. `ResultsTruthful`, `ShownEditsSurvive` and
`EngagementStopsWrites` follow for any number of edits and operators.

*Document write, and both together* (`GuardedWritesProofs`). The document's
invariant joins types, the revision fence of each outstanding batch, where the
count stands at each step of the call, and the account of what was applied; hence
`TypeCorrect`, `CountIsCover`, `NoOverwrite` for any number of edits. `ResultsTold`
adds what each stage knows of the document it read last: that the revision of a
postimage is that of the call's own batch, and that the facts it saw are there
until somebody else writes. A behaviour
of the composition is, seen through `Sheet`, a behaviour of `SheetWrite`
(`SheetRefined`), so its theorems hold of the composition.

*Sweeps* (`SweepsProofs`). The properties are not inductive: each relates tables
to what an invocation read several statements earlier. The invariant says, of each
invocation, what it holds at its stage and what of it the tables already show
(`Holds`, `Wrote`), and that whatever others wrote since it looked, they wrote
while it was at work (`Meets`); of the tables, which invocations a row can come
from; of the lock, that over a pinned connection its holder alone is at work. One
lemma (`Others`) carries an invocation over the steps of another, so that each
action is treated for the invocation that takes it only. `RecordsAgreeAlways`,
`StoredOnce`, `CrossAgency` and `Redated` hold for any number of applications,
agencies, invocations and faults; the proof needs that `NoRun` is no invocation.

The lease rows of the models are updated without an `@` inside another `@` of a
nested EXCEPT, which the prover and TLC read differently.

Only model-checked: everything about liveness (`Termination`, `LossRecorded`, `ClaimEnds`): fairness and
ENABLED are out of the prover's reach, as are induction over data and recursive
operators, of which no module here has one.

## 7. Not modelled

- Of J the planning of a structural normalisation and of a rollover: pure functions
  of one reading of a workbook that end in a plan or a refusal; `SheetWrite` starts
  from the plan.
- Of F the resolution pass, of E the escalations, cutover and recruiter fan-out
  (`AlertRouting`).
- H (`GreenhouseToken`), L (`HydrationSlots`).
- Of K the autonomy events and the delivery ledger: append-only rows evaluated per
  call, which no writer of the staging path depends on.
- D's manual channel of the first backfill and its reconciliation issues.
- G and I: pure functions over one read, tested by tables; G is planned last as
  operators against a reference definition.
- M: no state.

## 8. Where code and text disagree

With a run:

- `claim_recovery_atomic`: 026 says one claim retires an expired run of another key
  atomically (line 5). A heartbeat that commits between the claim's statements
  lets the claim commit with the attempts of a live run timed out and the run not
  retired. `RenewedRunKept` and `EndsWhole` hold nevertheless. Retention's update
  of attempts before its guarded look at the run has the same shape.
- `referral_once_only`: 029 calls itself once-only delivery state (line 1). An
  ambiguous attempt is forgotten when a later one of the slot is proven to have
  failed, and a proven failure is retried without a look at the 24 hours. Besides,
  a start near the end of the 24 hours may be followed by its POST up to 700 s later
  (`employee-referral-report-runner.ts:52`, 1312), after the five minutes kept in
  reserve; `OnceOnly` excepts this second way, so that the run shows the first.
  `SentTwiceOnlyIfMisjudgedOrLate` says that there is no third.
- `hydration_mutated_once`: a test says that the document is never retried when an
  older attempt crossed the mutation boundary
  (`recruiting-ops-hydration-orchestration-store.test.ts:269`). An attempt that ends as
  `failed` with a null count after Docs took the batch is not fenced: the store reads
  null as zero (`hydration-orchestration-store.ts:204`). `EltMutatedAgainOnlyIfUnknown`
  says that this is the only way.

Noted while modelling, without a run:

- An intent whose last attempt was held by an invocation that died is claimed and
  sent again without bound: only `recordFailedAttempt` looks at `max_attempts`. No
  property bounds these sends.
- Besides the crash its header names (40-47), the outbox has a second window for a
  duplicate: a stamp `sent` that commits and whose answer is lost is followed by
  `recordFailedAttempt` over it.
- A heartbeat tick in flight when `stop()` is called may log the lease of a sealed
  run as lost.
- The upsert of an alert writes `first_alerted_at` of a row that exists as well. An
  error of the ledger read counts as an empty ledger, so a sweep after one that
  failed to read re-dates its alerts and a backlog passes the routing start line;
  `RedatedOnlyUnderFault` says that this and overlapping sweeps are the only ways.
- The hydration watchdog, scheduled on weekdays, looks at this morning's slot and
  yesterday evening's, so never at Friday evening's.

## 9. Plan

Order, the most important behaviour first. Done: 1 `SourceLease` and its
refinement; 2 `HydrationRpc`, `HydrationStore`; 3 `HydrationRun`; 4
`LeaseHeartbeat`; 5 `EltWrite`; 6 `ClaimRecovery`; 7 `NotificationOutbox`;
8 `ReferralDelivery`; 9 `KillSwitch`, `SheetWrite` and the composition
`MCGuardedWrites`; 10 `Sweeps`.

Next, modules:

1. `GreenhouseToken` (H): a refresh shared by requests with deadlines of their own,
   and the refused request that clears a token another one has just fetched.
2. `AlertRouting` (E): keys of the fan-out, the claim that an unguarded backlog is
   unrepresentable (`notification-delivery.ts:670-677`).
3. `HydrationSlots` (L): slots of a week against the checks that look at them.
4. G as operators checked against a reference.

Next, theorems: that an orchestrator's step is a step of the store (`HydrationRun`
implements `HydrationStore`), as `SourceRefinement` does one level below.
