---------------------------- MODULE ReferralDelivery ----------------------------
(***************************************************************************)
(* The delivery of one period of the employee referral report by e-mail:   *)
(* the RPCs of migration 029, which an advisory lock on the period makes    *)
(* atomic, and the invocations of the runner that call them and Resend.     *)
(*                                                                         *)
(* A revision of the report goes to two recipient slots.  Resend drops a    *)
(* message whose idempotency key it accepted less than Window ago.  Every   *)
(* slot of a revision has its own key, frozen at its first attempt.         *)
(*                                                                         *)
(* Statuses the code treats alike are one: provider_accepted stands for     *)
(* pending and delivery_delayed, bounced for delivery_failed, suppressed    *)
(* and canceled, unverifiable for unknown_event and status_unverifiable,    *)
(* delivered for complained.  So are causes: "recovery" is any recovery cause  *)
(* but the change of recipients, and a proposal that is decided otherwise   *)
(* than by promotion is like none.  The manual channel, which the code       *)
(* allows for the first backfill only, and the reconciliation issues are    *)
(* left out.                                                                *)
(***************************************************************************)
EXTENDS Integers, FiniteSetsExt

CONSTANTS
    Slots,          \* recipients of a report
    Invocations,    \* runner invocations that may overlap
    MaxRevision,    \* bound of the corrections
    MaxClaims,      \* bound of the claims of the period
    MaxTime,        \* bound of the clock
    SlotLeaseLen,   \* p_lease_seconds
    Window,         \* how long the provider remembers a key (24 hours)
    Margin          \* how long before that retries stop (5 minutes)

ASSUME ReferralDeliveryAssumption ==
    /\ {MaxRevision, MaxClaims, MaxTime, SlotLeaseLen, Window} \subseteq Nat
    /\ Margin \in 0..Window
    /\ MaxRevision > 0

VARIABLES
    clock,
    run,        \* employee_referral_report_runs
    slot,       \* employee_referral_report_recipient_deliveries
    proposal,   \* employee_referral_report_correction_proposals, by cause
    dispatch,   \* what each invocation is doing for each slot
    key,        \* until when the provider remembers a slot's key
    sent,       \* messages the provider accepted for a slot
    misjudged,  \* slots stamped transport_failed although another attempt of
                \* theirs was accepted, or can still be
    overran,    \* slots sent again by a POST that the provider accepted more
                \* than Margin after its attempt started
    acked       \* revisions whose possible late delivery was acknowledged

db == <<run, slot, proposal>>
mail == <<key, sent>>
history == <<misjudged, overran, acked>>
referralVars == <<clock, db, dispatch, mail, history>>

Revisions == 1..MaxRevision

RunStatus == {"none", "prepared", "sending", "provider_accepted", "partially_delivered",
              "delivered", "attention_required", "ambiguous"}

Terminal == {"bounced", "unverifiable"}
InFlight == {"provider_accepted"}
SlotStatus == {"prepared", "sending", "transport_failed", "ambiguous", "delivered"}
                  \union InFlight \union Terminal

Never == -1

\* attempt is the claim's lease token; proven that its error_code is
\* retry_proven_preacceptance; message the id the provider gave.
SlotRow == [ status  : SlotStatus,
             attempt : Nat,
             lease   : 0..(MaxTime + SlotLeaseLen),
             first   : 0..MaxTime \union {Never},
             proven  : BOOLEAN,
             message : Nat ]

Recovery == {"recovery", "recipient_scope_changed"}
Causes == Recovery \union {"data_drift"}
ProposalStatus == {"none", "open", "promoted"}

\* What an invocation knows of its attempt.
\* "adrift" is a request the invocation gave up and the provider may yet accept.
DispatchRow == [ pc       : {"idle", "claimed", "started", "accepted", "adrift"},
                 revision : Revisions,
                 token    : Nat,
                 at       : 0..MaxTime,
                 message  : Nat ]

ReferralTypeOK ==
    /\ clock \in 0..MaxTime
    /\ run \in [Revisions -> RunStatus]
    /\ slot \in [Revisions -> [Slots -> SlotRow]]
    /\ proposal \in [Revisions -> [Causes -> ProposalStatus]]
    /\ dispatch \in [Invocations -> [Slots -> DispatchRow]]
    /\ key \in [Revisions -> [Slots -> 0..(MaxTime + Window)]]
    /\ sent \in [Revisions -> [Slots -> Nat]]
    /\ misjudged \subseteq Revisions \X Slots
    /\ overran \subseteq Revisions \X Slots
    /\ acked \subseteq Revisions

NewSlot == [status |-> "prepared", attempt |-> 0, lease |-> 0, first |-> Never,
            proven |-> FALSE, message |-> 0]
IdleDispatch == [pc |-> "idle", revision |-> 1, token |-> 0, at |-> 0, message |-> 0]

ReferralInit ==
    /\ clock = 0
    /\ run = [r \in Revisions |-> "none"]
    /\ slot = [r \in Revisions |-> [s \in Slots |-> NewSlot]]
    /\ proposal = [r \in Revisions |-> [c \in Causes |-> "none"]]
    /\ dispatch = [i \in Invocations |-> [s \in Slots |-> IdleDispatch]]
    /\ key = [r \in Revisions |-> [s \in Slots |-> 0]]
    /\ sent = [r \in Revisions |-> [s \in Slots |-> 0]]
    /\ misjudged = {}
    /\ overran = {}
    /\ acked = {}

-----------------------------------------------------------------------------
(* The tables as one value, so that an RPC can be written as what it makes   *)
(* of them.                                                                  *)

Db == [run |-> run, slot |-> slot, proposal |-> proposal]

Commit(d) == run' = d.run /\ slot' = d.slot /\ proposal' = d.proposal

Existing(d) == {r \in Revisions : d.run[r] # "none"}
IsHead(d, r) == d.run[r] # "none" /\ (r < MaxRevision => d.run[r + 1] = "none")
Head(d) == CHOOSE r \in Revisions : IsHead(d, r)

Pending(d, r, c) == d.proposal[r][c] \in {"open", "promoted"}

Open(d, r, causes) ==
    [d EXCEPT !.proposal[r] =
        [c \in Causes |-> IF c \in causes /\ ~Pending(d, r, c) THEN "open"
                          ELSE d.proposal[r][c]]]

Attention(d, r) == [d EXCEPT !.run[r] = "attention_required"]

\* What the statuses of a revision's slots amount to.
Aggregate(d, r) ==
    LET found == {d.slot[r][s].status : s \in Slots} IN
    IF found \intersect Terminal # {} THEN "attention_required"
    ELSE IF found = {"delivered"} THEN "delivered"
    ELSE IF "delivered" \in found THEN "partially_delivered"
    ELSE IF "ambiguous" \in found THEN "ambiguous"
    ELSE IF found \subseteq InFlight THEN "provider_accepted"
    ELSE IF found \intersect ({"sending"} \union InFlight) # {} THEN "sending"
    ELSE "prepared"

\* An obligation of the revision that its own delivery does not settle.
Unsettled(d, r, status) ==
    \E c \in Recovery :
        /\ Pending(d, r, c)
        /\ status # "delivered" \/ c = "recipient_scope_changed" \/ d.proposal[r][c] = "promoted"

\* Proposals that the full delivery of a revision satisfies.
SatisfiedBy(d, r, pred, c) ==
    /\ Pending(d, pred, c)
    /\ \/ pred < r
       \/ pred = r /\ d.proposal[pred][c] = "open" /\ c \in Recovery \ {"recipient_scope_changed"}

Refresh(d, r) ==
    LET status == Aggregate(d, r) IN
    IF Unsettled(d, r, status) THEN Attention(d, r)
    ELSE IF status # "delivered" THEN [d EXCEPT !.run[r] = status]
    ELSE [ run      |-> [d.run EXCEPT ![r] = status],
           slot     |-> d.slot,
           proposal |-> [p \in Revisions |-> [c \in Causes |->
                            IF SatisfiedBy(d, r, p, c) THEN "none" ELSE d.proposal[p][c]]] ]

-----------------------------------------------------------------------------
(* employee_referral_prepare_and_claim                                       *)

Create(d) ==
    IF 1 \in Existing(d) THEN d
    ELSE [d EXCEPT !.run[1] = "prepared"]

\* A replay with another payload or other recipients than the revision froze.
Conflict(d, r, causes) ==
    IF causes = {} \/ d.run[r] = "delivered" THEN d
    ELSE Attention(Open(d, r, causes), r)

PayloadChanged == {"data_drift", "recovery"}
ScopeChanged == {"recipient_scope_changed"}

\* Mutant: An expired lease read as a send that never happened.
ExpiredStatusFailed(x) ==
    IF x.first = Never THEN "prepared" ELSE "transport_failed"

\* What is known of a slot whose lease ended.
ExpiredStatus(x) ==
    IF x.first = Never THEN "prepared" ELSE IF x.proven THEN "transport_failed" ELSE "ambiguous"

ExpiredSlot(x) == [x EXCEPT !.status = ExpiredStatus(x), !.lease = 0, !.proven = FALSE]

Expire(d, r) ==
    [d EXCEPT !.slot[r] = [s \in Slots |->
        LET x == d.slot[r][s] IN
        IF x.status = "sending" /\ x.lease <= clock THEN ExpiredSlot(x) ELSE x]]

\* The provider will drop a repetition for long enough.
Remembered(x) == x.first # Never /\ clock < x.first + Window - Margin

Unsafe(d, r) ==
    \E s \in Slots : /\ d.slot[r][s].status = "ambiguous"
                     /\ d.slot[r][s].message # 0 \/ ~Remembered(d.slot[r][s])

ResolveUnsafe(d, r) ==
    IF IsHead(d, r) /\ d.run[r] # "attention_required" /\ Unsafe(d, r)
    THEN Attention(Open(d, r, {"recovery"}), r)
    ELSE d

ClaimableSlot(x) ==
    \/ x.status \in {"prepared", "transport_failed"}
    \/ x.status = "ambiguous" /\ x.message = 0 /\ Remembered(x)

ClaimedSlots(d, r) ==
    IF IsHead(d, r) /\ d.run[r] # "attention_required"
    THEN {s \in Slots : ClaimableSlot(d.slot[r][s])}
    ELSE {}

ClaimedSlot(x) ==
    [x EXCEPT !.status = "sending", !.attempt = x.attempt + 1,
              !.lease = clock + SlotLeaseLen, !.proven = x.status = "transport_failed"]

ClaimSlots(d, r) ==
    [d EXCEPT !.slot[r] = [s \in Slots |->
        IF s \in ClaimedSlots(d, r) THEN ClaimedSlot(d.slot[r][s]) ELSE d.slot[r][s]]]

Claims(d) ==
    FoldSet(LAMBDA rs, n : n + d.slot[rs[1]][rs[2]].attempt, 0, Revisions \X Slots)

RefreshUnlessAttention(d, r) ==
    IF d.run[r] = "attention_required" THEN d ELSE Refresh(d, r)

ClaimedDispatch(r, token) ==
    [IdleDispatch EXCEPT !.pc = "claimed", !.revision = r, !.token = token]

\* An invocation sends revision r again, or creates the first one.  What it
\* read from Greenhouse, or its recipients, may differ from what r froze.
Prepare(i, r) ==
    /\ \A s \in Slots : dispatch[i][s].pc = "idle"
    /\ r = 1 \/ r \in Existing(Db)
    /\ \* An old revision is replayed as it was frozen: a conflict there would
       \* reach its own status only.
       \E causes \in {{}, PayloadChanged, ScopeChanged, PayloadChanged \union ScopeChanged} :
          /\ causes = {} \/ IsHead(Db, r)
          /\ LET d == ResolveUnsafe(Expire(Conflict(Create(Db), r, causes), r), r)
                 e == ClaimSlots(d, r)
             IN  /\ Claims(e) <= MaxClaims
                 /\ Commit(RefreshUnlessAttention(e, r))
                 /\ dispatch' = [dispatch EXCEPT ![i] = [s \in Slots |->
                        IF s \in ClaimedSlots(d, r)
                        THEN ClaimedDispatch(r, e.slot[r][s].attempt)
                        ELSE IdleDispatch]]
    /\ UNCHANGED <<clock, mail, history>>

-----------------------------------------------------------------------------
(* dispatchClaim: one slot of an invocation                                  *)

\* The claim of the dispatch still holds the slot.
Holds(w, s) ==
    LET x == slot[w.revision][s] IN
    x.status = "sending" /\ x.attempt = w.token /\ x.lease > clock

StartedSlot(x) ==
    [x EXCEPT !.first = IF x.first = Never THEN clock ELSE x.first, !.proven = FALSE]

\* employee_referral_start_provider_attempt
StartAttempt(i, s) ==
    LET w == dispatch[i][s]
        r == w.revision
        x == slot[r][s]
    IN  /\ w.pc = "claimed"
        /\ Holds(w, s)
        /\ x.first = Never \/ x.proven \/ Remembered(x)
        /\ run[r] \in {"sending", "provider_accepted", "partially_delivered", "ambiguous"}
        /\ IsHead(Db, r)
        /\ slot' = [slot EXCEPT ![r][s] = StartedSlot(x)]
        /\ dispatch' = [dispatch EXCEPT ![i][s] = [w EXCEPT !.pc = "started", !.at = clock]]
        /\ UNCHANGED <<clock, run, proposal, mail, history>>

\* The attempt has asked the provider for a message, or may ask it now.
Posting(i, r, s) ==
    dispatch[i][s].pc \in {"started", "adrift"} /\ dispatch[i][s].revision = r

\* The provider accepts the POST, which makes a new message unless it
\* remembers the key.  Nothing looks at the 24 hours between the now() of
\* start_provider_attempt and this moment.
Accept(i, s) ==
    LET w == dispatch[i][s]
        r == w.revision
        new == clock >= key[r][s]
        id == sent[r][s] + IF new THEN 1 ELSE 0
    IN  /\ Posting(i, r, s)
        /\ sent' = [sent EXCEPT ![r][s] = id]
        /\ key' = [key EXCEPT ![r][s] = IF new THEN clock + Window ELSE key[r][s]]
        /\ overran' = IF new /\ sent[r][s] > 0 /\ clock > w.at + Margin
                      THEN overran \union {<<r, s>>}
                      ELSE overran
        /\ dispatch' = [dispatch EXCEPT ![i][s] =
              IF w.pc = "adrift" THEN IdleDispatch
              ELSE [w EXCEPT !.pc = "accepted", !.at = 0, !.message = id]]
        /\ UNCHANGED <<clock, db, misjudged, acked>>

\* What the runner makes of the POST.  One that was not made, for want of time
\* or configuration, or was refused with a status that proves the refusal, has
\* failed; one without an answer, or with a server error, is ambiguous.
Outcomes(pc) ==
    CASE pc = "started" -> {"transport_failed", "ambiguous"}
      [] pc = "accepted" -> {"provider_accepted", "ambiguous"}
      [] OTHER -> {}

\* Another attempt for the slot put a message at the provider, or still may.
OtherAttempt(i, r, s) ==
    \/ sent[r][s] > 0
    \/ \E j \in Invocations \ {i} : Posting(j, r, s)

FinalizedSlot(x, w, status) ==
    [x EXCEPT !.status = status, !.lease = 0,
              !.message = IF status = "provider_accepted" THEN w.message ELSE x.message]

WithSlot(r, s, x) == [Db EXCEPT !.slot[r][s] = x]

\* The invocation is done with the slot.  A request without an answer may be
\* adrift.
After(w, status) ==
    {IdleDispatch} \union
    (IF w.pc = "started" /\ status = "ambiguous" THEN {[w EXCEPT !.pc = "adrift"]} ELSE {})

\* employee_referral_finalize_provider_attempt
Finalize(i, s) ==
    LET w == dispatch[i][s]
        r == w.revision
        x == slot[r][s]
    IN  \E status \in Outcomes(w.pc) :
        /\ \/ /\ Holds(w, s)
              /\ Commit(Refresh(WithSlot(r, s, FinalizedSlot(x, w, status)), r))
              /\ misjudged' = IF status = "transport_failed" /\ OtherAttempt(i, r, s)
                              THEN misjudged \union {<<r, s>>}
                              ELSE misjudged
           \/ /\ ~Holds(w, s)
              /\ IF /\ x.status = status
                    /\ x.message = IF status = "provider_accepted" THEN w.message ELSE 0
                 THEN Commit(Refresh(Db, r))
                 ELSE UNCHANGED db
              /\ UNCHANGED misjudged
        /\ \E v \in After(w, status) : dispatch' = [dispatch EXCEPT ![i][s] = v]
        /\ UNCHANGED <<clock, mail, overran, acked>>

\* The invocation is killed, an RPC fails before it commits, or a request that
\* was adrift is lost.
Abandon(i, s) ==
    /\ dispatch[i][s].pc # "idle"
    /\ dispatch' = [dispatch EXCEPT ![i][s] = IdleDispatch]
    /\ UNCHANGED <<clock, db, mail, history>>

-----------------------------------------------------------------------------
(* The watchdog and the operator                                             *)

WithStatus(r, s, status) == WithSlot(r, s, [slot[r][s] EXCEPT !.status = status])

\* The status a slot takes from an event, whatever the order they come in.
Effective(old, event) ==
    CASE "delivered" \in {old, event} -> "delivered"
      [] "delivered" \notin {old, event} /\ "bounced" \in {old, event} -> "bounced"
      [] {"delivered", "bounced"} \intersect {old, event} = {}
            /\ "unverifiable" \in {old, event} -> "unverifiable"
      [] OTHER -> event

\* Mutant: Attention without the proposal.
ObligeNothing(d) ==
    IF d.run[Head(d)] = "delivered" THEN d ELSE Attention(d, Head(d))

\* The newest revision must be followed up, unless it was delivered.
Oblige(d) ==
    IF d.run[Head(d)] = "delivered" THEN d
    ELSE Attention(Open(d, Head(d), {"recovery"}), Head(d))

\* employee_referral_record_provider_event
RecordEvent(r, s) ==
    LET old == slot[r][s].status IN
    /\ slot[r][s].message # 0
    /\ \E event \in {"delivered"} \union InFlight \union Terminal :
          LET new == Effective(old, event)
              d == Refresh(WithStatus(r, s, new), r)
          IN  Commit(IF new \in Terminal /\ old \notin Terminal
                     THEN Oblige(d) ELSE d)
    /\ UNCHANGED <<clock, dispatch, mail, history>>

PastDeadline(r, s) ==
    LET x == slot[r][s] IN
    \/ x.message # 0 /\ x.status \in InFlight
    \/ /\ IsHead(Db, r)
       /\ x.message = 0 /\ x.status = "ambiguous"
       /\ x.first # Never /\ ~Remembered(x)

\* employee_referral_mark_delivery_deadline.  That recovery_eligible_at, some
\* hours after the revision was made, has passed is taken as given.
MarkDeadline(r, s) ==
    LET d == Refresh(WithStatus(r, s, "unverifiable"), r)
        head == Head(Db)
    IN  /\ r \in Existing(Db)
        /\ PastDeadline(r, s)
        /\ Commit(IF r # head /\ run[head] = "delivered" THEN d
                  ELSE Refresh(Open(d, head, {"recovery"}), head))
        /\ UNCHANGED <<clock, dispatch, mail, history>>

\* employee_referral_open_data_drift
OpenDrift(r) ==
    /\ IsHead(Db, r) /\ r < MaxRevision
    /\ run[r] = "delivered"
    /\ Commit(Open(Db, r, {"data_drift"}))
    /\ UNCHANGED <<clock, dispatch, mail, history>>

\* employee_referral_dismiss_data_drift
DismissDrift(r) ==
    /\ proposal[r]["data_drift"] = "open"
    /\ proposal' = [proposal EXCEPT ![r]["data_drift"] = "none"]
    /\ UNCHANGED <<clock, run, slot, dispatch, mail, history>>

\* Mutant: Ambiguous slots forgotten among those that may still arrive.
MayArriveLateShort(r) ==
    \E s \in Slots : /\ slot[r][s].first # Never
                     /\ slot[r][s].status \in {"sending", "unverifiable"} \union InFlight

\* A message of the revision may still be on its way.
MayArriveLate(r) ==
    \E s \in Slots : /\ slot[r][s].first # Never
                     /\ slot[r][s].status \in {"sending", "ambiguous", "unverifiable"} \union InFlight

\* employee_referral_promote_correction, with the acknowledgement if it is due
Promote(r) ==
    /\ IsHead(Db, r)
    /\ r < MaxRevision
    /\ \E c \in Causes : proposal[r][c] = "open"
    /\ acked' = IF MayArriveLate(r) THEN acked \union {r} ELSE acked
    /\ run' = [run EXCEPT ![r + 1] = "prepared"]
    /\ proposal' = [proposal EXCEPT ![r] = [c \in Causes |->
          IF proposal[r][c] = "open" THEN "promoted" ELSE proposal[r][c]]]
    /\ UNCHANGED <<clock, slot, dispatch, mail, misjudged, overran>>

ReferralTick ==
    /\ clock < MaxTime
    /\ clock' = clock + 1
    /\ UNCHANGED <<db, dispatch, mail, history>>

Dispatch(i, s) ==
    \/ StartAttempt(i, s) \/ Accept(i, s) \/ Finalize(i, s) \/ Abandon(i, s)

Correct(r) == OpenDrift(r) \/ DismissDrift(r) \/ Promote(r)

ReferralNext ==
    \/ ReferralTick
    \/ \E i \in Invocations, r \in Revisions : Prepare(i, r)
    \/ \E i \in Invocations, s \in Slots : Dispatch(i, s)
    \/ \E r \in Revisions, s \in Slots : RecordEvent(r, s) \/ MarkDeadline(r, s)
    \/ \E r \in Revisions : Correct(r)

ReferralSpec == ReferralInit /\ [][ReferralNext]_referralVars

-----------------------------------------------------------------------------
(* Properties                                                                *)

\* What neither the claims nor the provider's memory can exclude.
Excused == misjudged \union overran

\* A recipient gets a revision once, unless an attempt was stamped as proven
\* not to have reached the provider while an earlier one of the same slot had
\* reached it or still could, or a repetition reached it later after the start
\* than the margin that retries keep from the end of the 24 hours: that memory,
\* the margin and the expired leases do the rest.
SentTwiceOnlyIfMisjudgedOrLate ==
    \A r \in Revisions, s \in Slots : sent[r][s] > 1 => <<r, s>> \in Excused

\* What the first line of migration 029 says: once only, even where every POST
\* keeps within the margin.
OnceOnly ==
    \A r \in Revisions, s \in Slots : sent[r][s] > 1 => <<r, s>> \in overran

\* A message of a revision that a correction has replaced reaches the provider
\* only if the operator who promoted the correction was made to acknowledge
\* that it might, or an attempt of the slot was misjudged, or it repeats one
\* that was sent, later than the margin, as above.
LateOnlyIfAcknowledged ==
    [][\A r \in Revisions, s \in Slots :
          sent'[r][s] > sent[r][s] /\ ~IsHead(Db, r)
              => r \in acked \/ <<r, s>> \in Excused']_referralVars

\* The newest revision asks for attention exactly while a recovery proposal for
\* it is open: attention that no operator could act on, and a proposal that
\* nobody is told of, would both leave the period stuck.
AttentionHasObligation ==
    \A r \in Revisions :
        IsHead(Db, r) =>
            (run[r] = "attention_required"
                <=> \E c \in Recovery : proposal[r][c] = "open")

=============================================================================
