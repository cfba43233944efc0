---------------------------- MODULE DeliveryProofs ----------------------------
(***************************************************************************)
(* Proofs about the two components that deliver messages: the notification  *)
(* outbox (NotificationOutbox), for every set of alerts, intents and         *)
(* invocations and every lease, limit and backoff, and the referral report   *)
(* by e-mail (ReferralDelivery), for every set of recipients and             *)
(* invocations, every number of revisions and every lease, window and        *)
(* margin.                                                                   *)
(*                                                                           *)
(* The outbox first.  Its four properties stand or fall together: that a     *)
(* drain's lease outlives it keeps the reaper off what it holds, so that two *)
(* invocations never hold one intent, so that the invocation that sent a     *)
(* message is the one that settles its row.                                  *)
(***************************************************************************)
EXTENDS NotificationOutbox, ReferralDelivery, TLAPS

\* As TypeOK, but for the numbers: the provers know of a power of two only that
\* it is an integer, and what is left of a lease follows from Leases below.
Row == [status : Status, left : Int, attempts : 0..MaxAttempts, wait : Int]

Typed ==
    /\ alert \in [Alerts -> {"none", "open", "resolved"}]
    /\ outbox \in [Intents -> Row]
    /\ recorded \in SUBSET Intents
    /\ posted \in [Intents -> Nat]
    /\ drain \in [Drains -> DrainRow]
    /\ unrecorded \in SUBSET Intents
    /\ stale \in SUBSET Intents
    /\ dropped \in SUBSET Intents

\* The steps at which an invocation has turned to one row.
AtRow == {"sent_insert", "sent_stamp", "failed"}

\* An invocation holds rows from its claim on, and the one it has turned to only
\* while it sends it and records what came of it.
Shape ==
    \A d \in Drains :
        /\ drain[d].pc \in {"idle", "upsert", "reap", "claim"} => drain[d].batch = {}
        /\ drain[d].pc \in AtRow <=> drain[d].row # NoIntent
        /\ drain[d].row \notin drain[d].batch

\* What is left of the lease and the age of its holder make up the lease.  The
\* one row that is held and not sending is stamped sent by a write whose answer
\* was lost.
Leases ==
    \A d \in Drains : \A i \in Held(d) :
        \/ outbox[i].status = "sending" /\ outbox[i].left + drain[d].age >= LeaseLen
        \/ /\ drain[d].row = i
           /\ drain[d].pc = "failed"
           /\ outbox[i].status = "sent"
           /\ i \in unrecorded

Exclusive ==
    \A d, e \in Drains : \A i \in Intents : i \in Held(d) /\ i \in Held(e) => d = e

\* A message that is known to be accepted is settled, or about to be.
Settling(i) == \E d \in Drains : drain[d].row = i /\ drain[d].pc \in {"sent_insert", "sent_stamp"}

Known ==
    \A i \in Intents :
        posted[i] > 0 /\ i \notin unrecorded => outbox[i].status = "sent" \/ Settling(i)

\* An intent that was resolved while nobody held it is held only by an
\* invocation that has yet to look, or has seen it.
Seen ==
    \A i \in stale :
        /\ alert[AlertOf[i]] = "resolved"
        /\ \A d \in Drains :
              /\ drain[d].row # i
              /\ i \in drain[d].batch => drain[d].pc = "load" \/ AlertOf[i] \in drain[d].resolved

\* What is about to be stamped sent is accepted and, by then, recorded.
Accepted ==
    \A d \in Drains :
        /\ drain[d].pc \in {"sent_insert", "sent_stamp"} => posted[drain[d].row] > 0
        /\ drain[d].pc = "sent_stamp" => drain[d].row \in recorded

\* The claim marks exactly the intents that are on their last attempt.
Exhausted ==
    \A d \in Drains : \A i \in Held(d) :
        i \in drain[d].exhausted <=> outbox[i].attempts = MaxAttempts

\* A claim beyond the last attempt is followed up by its holder, or it was dropped.
LastAttempt ==
    \A i \in Intents :
        outbox[i].status = "sending" /\ outbox[i].attempts = MaxAttempts =>
            i \in dropped \/ \E d \in Drains : i \in Held(d)

IInv ==
    /\ Typed /\ Shape /\ Leases /\ Exclusive /\ Known /\ Seen /\ Accepted /\ Exhausted
    /\ LastAttempt /\ OutboxTruthful

-----------------------------------------------------------------------------
(* The sweeps, the operator and time *)

LEMMA InitIInv ==
    ASSUME Init
    PROVE  IInv
<1> USE NotificationOutboxAssumption
<1>1. \A d \in Drains : drain[d] = IdleDrain /\ Held(d) = {}
    BY DEF Init, IdleDrain, Held
<1>2. \A i \in Intents : outbox[i].status = "absent" /\ posted[i] = 0
    BY DEF Init
<1>3. IdleDrain \in DrainRow
    BY DEF IdleDrain, DrainRow, PC
<1>4. Typed
    BY <1>3 DEF Init, Typed, Row, Status
<1>5. Shape /\ Leases /\ Exclusive
    BY <1>1 DEF Shape, Leases, Exclusive, IdleDrain, AtRow
<1>6. Known /\ LastAttempt /\ OutboxTruthful
    BY <1>2 DEF Known, LastAttempt, OutboxTruthful
<1>7. Seen /\ Accepted /\ Exhausted
    BY <1>1 DEF Init, Seen, Accepted, Exhausted, IdleDrain
<1> QED BY <1>4, <1>5, <1>6, <1>7 DEF IInv

LEMMA RaiseKeeps ==
    ASSUME IInv, NEW i \in Intents, Raise(i)
    PROVE  IInv'
<1> USE NotificationOutboxAssumption DEF Raise, IInv
<1>1. Typed' BY DEF Typed
<1>2. (Shape /\ Leases /\ Exclusive /\ Accepted /\ Exhausted)'
    BY DEF Shape, Leases, Exclusive, Accepted, Exhausted, Held
<1>3. (Known /\ LastAttempt /\ OutboxTruthful)'
    BY DEF Known, LastAttempt, OutboxTruthful, Held, Settling
<1>4. \A a \in Alerts : alert[a] = "resolved" => alert'[a] = "resolved"
    BY DEF Typed
<1>5. \A j \in stale : AlertOf[j] \in Alerts
    BY DEF Typed
<1>6. Seen' BY <1>4, <1>5 DEF Seen
<1> QED BY <1>1, <1>2, <1>3, <1>6

LEMMA ResolveKeeps ==
    ASSUME IInv, NEW a \in Alerts, Resolve(a)
    PROVE  IInv'
<1> USE NotificationOutboxAssumption DEF Resolve, IInv
<1>1. Typed' BY DEF Typed
<1>2. (Shape /\ Leases /\ Exclusive /\ Accepted /\ Exhausted)'
    BY DEF Shape, Leases, Exclusive, Accepted, Exhausted, Held
<1>3. (Known /\ LastAttempt /\ OutboxTruthful)'
    BY DEF Known, LastAttempt, OutboxTruthful, Held, Settling
<1>4. \A b \in Alerts : alert[b] = "resolved" \/ b = a => alert'[b] = "resolved"
    BY DEF Typed
<1>5. \A j \in stale : AlertOf[j] \in Alerts
    BY DEF Typed
<1>6. ASSUME NEW j \in stale'
      PROVE  /\ alert'[AlertOf[j]] = "resolved"
             /\ \A d \in Drains :
                   /\ drain'[d].row # j
                   /\ j \in drain'[d].batch =>
                        drain'[d].pc = "load" \/ AlertOf[j] \in drain'[d].resolved
    <2>1. CASE j \in stale BY <2>1, <1>4, <1>5 DEF Seen
    <2>2. CASE j \notin stale BY <2>2, <1>4 DEF Held
    <2> QED BY <2>1, <2>2
<1>7. Seen' BY <1>6 DEF Seen
<1> QED BY <1>1, <1>2, <1>3, <1>7

\* A lease and its holder age together.
LEMMA TickKeeps ==
    ASSUME IInv, Tick
    PROVE  IInv'
<1> USE NotificationOutboxAssumption DEF IInv
<1>1. \A d \in Drains : /\ drain'[d].pc = drain[d].pc
                        /\ drain'[d].batch = drain[d].batch
                        /\ drain'[d].row = drain[d].row
                        /\ drain'[d].exhausted = drain[d].exhausted
                        /\ drain'[d].resolved = drain[d].resolved
                        /\ drain'[d].age = IF drain[d].pc = "idle" THEN drain[d].age
                                           ELSE drain[d].age + 1
    BY DEF Tick, Typed, DrainRow
<1>2. \A i \in Intents : /\ outbox'[i].status = outbox[i].status
                         /\ outbox'[i].attempts = outbox[i].attempts
                         /\ outbox'[i].left = IF outbox[i].status = "sending" /\ outbox[i].left >= 0
                                              THEN outbox[i].left - 1 ELSE outbox[i].left
    BY DEF Tick, Typed, Row
<1>3. \A d \in Drains : Held(d)' = Held(d)
    BY <1>1 DEF Held
<1>4. UNCHANGED <<alert, recorded, posted, unrecorded, stale, dropped>>
    BY DEF Tick, ledger
<1>5. Typed'
    <2>1. \A r \in Row : \A left, wait \in Int :
              [r EXCEPT !.left = left, !.wait = wait] \in Row
        BY DEF Row
    <2>2. ASSUME NEW i \in Intents
          PROVE  outbox'[i] \in Row
        <3>1. outbox[i] \in Row /\ outbox[i].left \in Int /\ outbox[i].wait \in Int
            BY DEF Typed, Row
        <3> DEFINE left == IF outbox[i].status = "sending" /\ outbox[i].left >= 0
                           THEN outbox[i].left - 1 ELSE outbox[i].left
                   wait == IF outbox[i].wait > 0 THEN outbox[i].wait - 1 ELSE outbox[i].wait
        <3>2. outbox'[i] = [outbox[i] EXCEPT !.left = left, !.wait = wait]
            BY Zenon DEF Tick
        <3>3. left \in Int /\ wait \in Int BY <3>1
        <3> HIDE DEF left, wait
        <3>4. PICK l \in Int, w \in Int : left = l /\ wait = w BY <3>3
        <3>5. [outbox[i] EXCEPT !.left = l, !.wait = w] \in Row BY <2>1, <3>1
        <3> QED BY <3>2, <3>4, <3>5, Zenon
    <2>3. outbox' \in [Intents -> Row] BY <2>2 DEF Tick
    <2>4. \A r \in DrainRow : \A n \in 0..MaxDuration : [r EXCEPT !.age = n] \in DrainRow
        BY DEF DrainRow
    <2>5. ASSUME NEW d \in Drains
          PROVE  drain'[d] \in DrainRow
        <3>1. drain[d] \in DrainRow BY DEF Typed
        <3>2. drain[d].age \in 0..MaxDuration BY <3>1 DEF DrainRow
        <3>3. CASE drain[d].pc = "idle" BY <3>1, <3>3 DEF Tick
        <3>4. CASE drain[d].pc # "idle"
            <4>0. drain[d].age < MaxDuration BY <3>4, Zenon DEF Tick
            <4>1. drain[d].age + 1 \in 0..MaxDuration BY <3>2, <4>0
            <4>2. drain'[d] = [drain[d] EXCEPT !.age = drain[d].age + 1]
                BY <3>4 DEF Tick
            <4> QED BY <2>4, <3>1, <4>1, <4>2
        <3> QED BY <3>3, <3>4
    <2>6. drain' \in [Drains -> DrainRow] BY <2>5 DEF Tick
    <2> QED BY <1>4, <2>3, <2>6 DEF Typed
<1>6. Shape' BY <1>1 DEF Shape
<1>7. Leases'
    <2>1. \A d \in Drains : Held(d) \subseteq Intents
        BY DEF Held, Typed, DrainRow
    <2>2. \A d \in Drains : Held(d) # {} => drain[d].pc # "idle"
        BY DEF Shape, Held, AtRow
    <2>3. \A d \in Drains : drain[d].age \in 0..MaxDuration
        BY DEF Typed, DrainRow
    <2>4. \A i \in Intents : outbox[i].left \in Int
        BY DEF Typed, Row
    <2> QED BY <1>1, <1>2, <1>3, <1>4, <2>1, <2>2, <2>3, <2>4 DEF Leases
<1>8. (Exclusive /\ Exhausted)'
    <2>1. \A d \in Drains : Held(d) \subseteq Intents
        BY DEF Held, Typed, DrainRow
    <2> QED BY <1>1, <1>2, <1>3, <2>1 DEF Exclusive, Exhausted
<1>9. (Known /\ LastAttempt /\ OutboxTruthful)'
    BY <1>1, <1>2, <1>3, <1>4 DEF Known, LastAttempt, OutboxTruthful, Settling
<1>10. (Seen /\ Accepted)'
    BY <1>1, <1>4 DEF Seen, Accepted
<1> QED BY <1>5, <1>6, <1>7, <1>8, <1>9, <1>10

-----------------------------------------------------------------------------
(* The invocations.  A step of one is a new row of `drain', and each lemma      *)
(* first says what is in it.                                                   *)

\* What the invariant says of an invocation that has claimed nothing.
LEMMA HeldFacts ==
    ASSUME IInv
    PROVE  /\ \A d \in Drains : Held(d) \subseteq Intents
           /\ \A d \in Drains : \A i \in Intents : i \in drain[d].batch => i \in Held(d)
           /\ \A d \in Drains : drain[d].pc \in AtRow => /\ drain[d].row \in Intents
                                                         /\ drain[d].row \in Held(d)
           /\ \A d \in Drains :
                 drain[d].pc \in {"idle", "upsert", "reap", "claim"} => Held(d) = {}
<1> USE NotificationOutboxAssumption DEF IInv
<1>1. \A d \in Drains : /\ drain[d].batch \subseteq Intents
                        /\ drain[d].row \in Intents \union {NoIntent}
    BY DEF Typed, DrainRow
<1>2. \A d \in Drains : drain[d].pc \in {"idle", "upsert", "reap", "claim"} =>
          drain[d].batch = {} /\ drain[d].row = NoIntent
    BY DEF Shape, AtRow
<1>3. \A d \in Drains : drain[d].pc \in AtRow => drain[d].row # NoIntent
    BY DEF Shape
<1> QED BY <1>1, <1>2, <1>3 DEF Held

LEMMA StartKeeps ==
    ASSUME IInv, NEW d \in Drains, Start(d)
    PROVE  IInv'
<1> USE NotificationOutboxAssumption DEF IInv
<1>1. PICK r \in DrainRow : /\ drain' = [drain EXCEPT ![d] = r]
                            /\ r.pc = "upsert" /\ r.batch = {} /\ r.row = NoIntent
    <2>1. PICK send \in BOOLEAN :
              drain' = [drain EXCEPT ![d] =
                          [IdleDrain EXCEPT !.pc = "upsert", !.gate = send,
                                            !.intents = {i \in Intents : /\ tier[AlertOf[i]] = i
                                                                         /\ outbox[i].status = "absent"}]]
        BY DEF Start
    <2>2. PICK r : r = [IdleDrain EXCEPT !.pc = "upsert", !.gate = send,
                              !.intents = {i \in Intents : /\ tier[AlertOf[i]] = i
                                                           /\ outbox[i].status = "absent"}]
        OBVIOUS
    <2>3. r = [pc |-> "upsert", age |-> 0, gate |-> send, intents |-> r.intents, batch |-> {},
               exhausted |-> {}, resolved |-> {}, row |-> NoIntent]
        BY <2>2 DEF IdleDrain
    <2>4. r.intents \subseteq Intents
        BY <2>2 DEF IdleDrain
    <2>5. r \in DrainRow
        BY <2>3, <2>4 DEF DrainRow, PC
    <2>6. r.pc = "upsert" /\ r.batch = {} /\ r.row = NoIntent
        BY <2>3
    <2> QED BY <2>1, <2>2, <2>5, <2>6
<1>2. drain'[d] = r /\ \A e \in Drains : e # d => drain'[e] = drain[e]
    BY <1>1 DEF Typed
<1>3. Held(d)' = {} /\ Held(d) = {} /\ \A e \in Drains : e # d => Held(e)' = Held(e)
    BY <1>1, <1>2, HeldFacts DEF Held, Start
<1>4. UNCHANGED <<alert, outbox, recorded, posted, unrecorded, stale, dropped>>
    BY DEF Start, ledger
<1>5. drain[d].pc = "idle" /\ drain[d].row = NoIntent
    BY DEF Start, Shape, AtRow
<1>6. (Typed /\ Shape /\ Leases /\ Exclusive)'
    <2>1. Typed' BY <1>1, <1>4 DEF Typed
    <2>2. Shape' BY <1>1, <1>2 DEF Shape, AtRow
    <2>3. (Leases /\ Exclusive)' BY <1>2, <1>3, <1>4 DEF Leases, Exclusive
    <2> QED BY <2>1, <2>2, <2>3
<1>7. Known'
    <2>1. \A i \in Intents : Settling(i) => Settling(i)'
        BY <1>2, <1>5 DEF Settling
    <2> QED BY <1>4, <2>1 DEF Known
<1>8. (Seen /\ Accepted /\ Exhausted)'
    <2>1. Seen' BY <1>1, <1>2, <1>4 DEF Seen, Typed
    <2>2. Accepted' BY <1>1, <1>2, <1>4 DEF Accepted
    <2>3. Exhausted' BY <1>2, <1>3, <1>4 DEF Exhausted
    <2> QED BY <2>1, <2>2, <2>3
<1>9. (LastAttempt /\ OutboxTruthful)'
    BY <1>3, <1>4 DEF LastAttempt, OutboxTruthful
<1> QED BY <1>6, <1>7, <1>8, <1>9

LEMMA DieKeeps ==
    ASSUME IInv, NEW d \in Drains, Die(d)
    PROVE  IInv'
<1> USE NotificationOutboxAssumption DEF IInv
<1>1. /\ drain' = [drain EXCEPT ![d] = IdleDrain]
      /\ UNCHANGED <<alert, outbox, recorded, posted, stale>>
      /\ dropped' = dropped \union (Held(d) \intersect drain[d].exhausted)
    BY DEF Die, ledger
<1>2. drain'[d] = IdleDrain /\ \A e \in Drains : e # d => drain'[e] = drain[e]
    BY <1>1 DEF Typed
<1>3. Held(d)' = {} /\ \A e \in Drains : e # d => Held(e)' = Held(e)
    BY <1>2 DEF Held, IdleDrain
<1>4. unrecorded \subseteq unrecorded' /\ unrecorded' \in SUBSET Intents
    <2>1. drain[d].pc \in {"sent_insert", "sent_stamp"} => drain[d].row \in Intents
        BY HeldFacts DEF AtRow
    <2> QED BY <2>1 DEF Die, Typed
<1>5. (Typed /\ Shape /\ Leases /\ Exclusive)'
    <2>1. IdleDrain \in DrainRow BY DEF IdleDrain, DrainRow, PC
    <2>2. Held(d) \subseteq Intents BY HeldFacts
    <2>3. Typed' BY <1>1, <1>4, <2>1, <2>2 DEF Typed
    <2>4. Shape' BY <1>2 DEF Shape, AtRow, IdleDrain
    <2>5. (Leases /\ Exclusive)' BY <1>1, <1>2, <1>3, <1>4 DEF Leases, Exclusive
    <2> QED BY <2>3, <2>4, <2>5
<1>6. Known'
    <2>1. \A i \in Intents : Settling(i) => Settling(i)' \/ i \in unrecorded'
        BY <1>2 DEF Settling, Die
    <2> QED BY <1>1, <1>4, <2>1 DEF Known
<1>7. (Seen /\ Accepted /\ Exhausted)'
    <2>1. IdleDrain.row \notin Intents /\ IdleDrain.batch = {} /\ IdleDrain.pc = "idle"
        BY DEF IdleDrain
    <2>2. Seen' BY <1>1, <1>2, <2>1 DEF Seen, Typed
    <2>3. Accepted' BY <1>1, <1>2, <2>1 DEF Accepted
    <2>4. Exhausted' BY <1>1, <1>2, <1>3 DEF Exhausted
    <2> QED BY <2>2, <2>3, <2>4
<1>8. LastAttempt'
    <2>1. \A i \in Held(d) : outbox[i].attempts = MaxAttempts => i \in dropped'
        BY <1>1 DEF Exhausted
    <2> QED BY <1>1, <1>3, <2>1 DEF LastAttempt
<1>9. OutboxTruthful' BY <1>1 DEF OutboxTruthful
<1> QED BY <1>5, <1>6, <1>7, <1>8, <1>9

LEMMA UpsertKeeps ==
    ASSUME IInv, NEW d \in Drains, Upsert(d)
    PROVE  IInv'
<1> USE NotificationOutboxAssumption DEF IInv
<1>1. PICK r \in DrainRow : /\ drain' = [drain EXCEPT ![d] = r]
                            /\ r.pc = "reap" /\ r.batch = {} /\ r.row = NoIntent
    <2>1. PICK r : r = [drain[d] EXCEPT !.pc = "reap", !.intents = {}]
        OBVIOUS
    <2>2. drain[d] \in DrainRow BY DEF Typed
    <2>3. r = [pc |-> "reap", age |-> drain[d].age, gate |-> drain[d].gate, intents |-> {},
               batch |-> drain[d].batch, exhausted |-> drain[d].exhausted,
               resolved |-> drain[d].resolved, row |-> drain[d].row]
        BY <2>1, <2>2 DEF DrainRow
    <2>4. r \in DrainRow BY <2>2, <2>3 DEF DrainRow, PC
    <2>5. drain' = [drain EXCEPT ![d] = r] BY <2>1 DEF Upsert, Typed
    <2>6. drain[d].batch = {} /\ drain[d].row = NoIntent BY DEF Upsert, Shape, AtRow
    <2> QED BY <2>3, <2>4, <2>5, <2>6
<1>2. drain'[d] = r /\ \A e \in Drains : e # d => drain'[e] = drain[e]
    BY <1>1 DEF Typed
<1>3. Held(d)' = {} /\ Held(d) = {} /\ \A e \in Drains : e # d => Held(e)' = Held(e)
    BY <1>1, <1>2, HeldFacts DEF Held, Upsert
<1>4. UNCHANGED <<alert, recorded, posted, unrecorded, stale, dropped>>
    BY DEF Upsert, ledger
<1>5. \A i \in Intents : outbox'[i] = outbox[i] \/ outbox'[i] = Inserted
    BY DEF Upsert
<1>6. \A i \in Intents : outbox[i].status # "absent" => outbox'[i] = outbox[i]
    BY DEF Upsert, Inserts
<1>7. \A e \in Drains : \A i \in Held(e) : i \in Intents /\ outbox'[i] = outbox[i]
    BY <1>6, HeldFacts DEF Leases
<1>8. Inserted \in Row /\ Inserted.status = "pending" /\ Inserted.attempts # MaxAttempts
    BY DEF Inserted, Row, Status
<1>9. Typed'
    <2>1. outbox' \in [Intents -> Row] BY <1>5, <1>8 DEF Upsert, Typed
    <2> QED BY <1>1, <1>4, <2>1 DEF Typed
<1>10. (Shape /\ Leases /\ Exclusive)'
    <2>1. Shape' BY <1>1, <1>2 DEF Shape, AtRow
    <2>2. Leases' BY <1>2, <1>3, <1>4, <1>7 DEF Leases
    <2>3. Exclusive' BY <1>3 DEF Exclusive
    <2> QED BY <2>1, <2>2, <2>3
<1>11. Known'
    <2>1. drain[d].pc = "upsert" BY DEF Upsert
    <2>2. \A i \in Intents : Settling(i) => Settling(i)'
        BY <1>2, <2>1 DEF Settling
    <2> QED BY <1>4, <1>6, <2>2 DEF Known
<1>12. (Seen /\ Accepted /\ Exhausted)'
    <2>1. Seen' BY <1>1, <1>2, <1>4 DEF Seen, Typed
    <2>2. Accepted' BY <1>1, <1>2, <1>4 DEF Accepted
    <2>3. Exhausted' BY <1>2, <1>3, <1>7 DEF Exhausted
    <2> QED BY <2>1, <2>2, <2>3
<1>13. LastAttempt' BY <1>3, <1>4, <1>5, <1>8 DEF LastAttempt
<1>14. OutboxTruthful' BY <1>4, <1>5, <1>8 DEF OutboxTruthful
<1> QED BY <1>9, <1>10, <1>11, <1>12, <1>13, <1>14

\* No lease ends under its holder, which is as young as its lease is long.
LEMMA HeldNotReapable ==
    ASSUME IInv, NEW d \in Drains, NEW i \in Held(d)
    PROVE  /\ i \in Intents
           /\ outbox[i].status \in {"sending", "sent"}
           /\ outbox[i].status = "sending" => outbox[i].left >= 0
<1> USE NotificationOutboxAssumption DEF IInv
<1>1. i \in Intents BY HeldFacts
<1>2. outbox[i].left \in Int /\ drain[d].age \in 0..MaxDuration
    BY <1>1 DEF Typed, Row, DrainRow
<1>3. \/ outbox[i].status = "sending" /\ outbox[i].left + drain[d].age >= LeaseLen
      \/ outbox[i].status = "sent"
    BY DEF Leases
<1> QED BY <1>1, <1>2, <1>3

LEMMA ReapKeeps ==
    ASSUME IInv, NEW d \in Drains, Reap(d)
    PROVE  IInv'
<1> USE NotificationOutboxAssumption DEF IInv
<1>1. PICK r \in DrainRow : /\ drain' = [drain EXCEPT ![d] = r]
                            /\ r.pc = "claim" /\ r.batch = {} /\ r.row = NoIntent
    <2>1. PICK r : r = [drain[d] EXCEPT !.pc = "claim"]
        OBVIOUS
    <2>2. drain[d] \in DrainRow BY DEF Typed
    <2>3. r \in DrainRow /\ r.pc = "claim" /\ r.batch = drain[d].batch /\ r.row = drain[d].row
        BY <2>1, <2>2 DEF DrainRow, PC
    <2>4. drain' = [drain EXCEPT ![d] = r] BY <2>1 DEF Reap, Typed
    <2>5. drain[d].batch = {} /\ drain[d].row = NoIntent BY DEF Reap, Shape, AtRow
    <2> QED BY <2>3, <2>4, <2>5
<1>2. drain'[d] = r /\ \A e \in Drains : e # d => drain'[e] = drain[e]
    BY <1>1 DEF Typed
<1>3. Held(d)' = {} /\ Held(d) = {} /\ \A e \in Drains : e # d => Held(e)' = Held(e)
    BY <1>1, <1>2, HeldFacts DEF Held, Reap
<1>4. UNCHANGED <<alert, recorded, posted, unrecorded, stale, dropped>>
    BY DEF Reap, ledger
<1>5. \A i \in Intents : ~Reapable(i) => outbox'[i] = outbox[i]
    BY DEF Reap
<1>6. \A i \in Intents : Reapable(i) => /\ outbox[i].status = "sending"
                                        /\ outbox'[i].status = "pending"
                                        /\ outbox'[i].attempts = outbox[i].attempts
    BY DEF Reap, Reapable, Typed, Row
<1>7. \A e \in Drains : \A i \in Held(e) : i \in Intents /\ ~Reapable(i)
    <2> SUFFICES ASSUME NEW e \in Drains, NEW i \in Held(e)
                 PROVE  i \in Intents /\ ~Reapable(i)
        OBVIOUS
    <2>1. outbox[i].left \in Int BY HeldNotReapable DEF Typed, Row
    <2> QED BY <2>1, HeldNotReapable DEF Reapable
<1>8. Typed'
    <2>1. ASSUME NEW i \in Intents PROVE outbox'[i] \in Row
        <3>1. outbox[i] \in Row BY DEF Typed
        <3>2. CASE Reapable(i)
            <4>1. outbox'[i] = [outbox[i] EXCEPT !.status = "pending", !.left = 0]
                BY <3>2 DEF Reap
            <4>2. outbox'[i] = [status |-> "pending", left |-> 0,
                                attempts |-> outbox[i].attempts, wait |-> outbox[i].wait]
                BY <3>1, <4>1 DEF Row
            <4> QED BY <3>1, <4>2 DEF Row, Status
        <3> QED BY <1>5, <3>1, <3>2
    <2>2. outbox' \in [Intents -> Row] BY <2>1 DEF Reap
    <2> QED BY <1>1, <1>4, <2>2 DEF Typed
<1>9. (Shape /\ Leases /\ Exclusive)'
    <2>1. Shape' BY <1>1, <1>2 DEF Shape, AtRow
    <2>2. Leases' BY <1>2, <1>3, <1>4, <1>5, <1>7 DEF Leases
    <2>3. Exclusive' BY <1>3 DEF Exclusive
    <2> QED BY <2>1, <2>2, <2>3
<1>10. Known'
    <2>1. drain[d].pc = "reap" BY DEF Reap
    <2>2. \A i \in Intents : Settling(i) => Settling(i)'
        BY <1>2, <2>1 DEF Settling
    <2>3. \A i \in Intents : outbox[i].status = "sent" => outbox'[i].status = "sent"
        BY <1>5, <1>6
    <2> QED BY <1>4, <2>2, <2>3 DEF Known
<1>11. (Seen /\ Accepted /\ Exhausted)'
    <2>1. Seen' BY <1>1, <1>2, <1>4 DEF Seen, Typed
    <2>2. Accepted' BY <1>1, <1>2, <1>4 DEF Accepted
    <2>3. Exhausted' BY <1>2, <1>3, <1>5, <1>7 DEF Exhausted
    <2> QED BY <2>1, <2>2, <2>3
<1>12. LastAttempt' BY <1>3, <1>4, <1>5, <1>6 DEF LastAttempt
<1>13. OutboxTruthful'
    <2>1. \A i \in Intents : Reapable(i) /\ outbox[i].attempts = MaxAttempts => i \in dropped
        BY <1>6, <1>7 DEF LastAttempt
    <2> QED BY <1>4, <1>5, <1>6, <2>1 DEF OutboxTruthful
<1> QED BY <1>8, <1>9, <1>10, <1>11, <1>12, <1>13

LEMMA ClaimKeeps ==
    ASSUME IInv, NEW d \in Drains, Claim(d)
    PROVE  IInv'
<1> USE NotificationOutboxAssumption DEF IInv
<1>1. PICK batch \in SUBSET Claimable :
          /\ outbox' = [i \in Intents |->
                          IF i \in batch
                          THEN [outbox[i] EXCEPT !.status = "sending", !.left = LeaseLen,
                                                 !.attempts = Min2(@ + 1, MaxAttempts)]
                          ELSE outbox[i]]
          /\ drain' = [drain EXCEPT ![d] =
                         IF batch = {} THEN IdleDrain
                         ELSE [@ EXCEPT
                                 !.pc = "load", !.batch = batch,
                                 !.exhausted = {i \in batch : outbox[i].attempts + 1 >= MaxAttempts}]]
    BY Zenon DEF Claim
<1>2. UNCHANGED <<alert, recorded, posted, unrecorded, stale, dropped>>
    BY DEF Claim, ledger
<1>3. batch \subseteq Intents /\ \A i \in batch : outbox[i].status = "pending"
    BY DEF Claimable
<1>4. \A i \in Intents : /\ outbox[i] \in Row
                         /\ outbox[i].attempts \in 0..MaxAttempts
    BY DEF Typed, Row
<1>5. PICK r \in DrainRow :
          /\ drain' = [drain EXCEPT ![d] = r]
          /\ r.batch = batch /\ r.row = NoIntent
          /\ r.pc = IF batch = {} THEN "idle" ELSE "load"
          /\ batch # {} => /\ r.age = drain[d].age
                           /\ r.exhausted = {i \in batch : outbox[i].attempts + 1 >= MaxAttempts}
    <2>1. CASE batch = {}
        <3>1. IdleDrain \in DrainRow /\ IdleDrain.batch = {} /\ IdleDrain.row = NoIntent
              /\ IdleDrain.pc = "idle"
            BY DEF IdleDrain, DrainRow, PC
        <3>2. drain' = [drain EXCEPT ![d] = IdleDrain] BY <1>1, <2>1, Zenon
        <3> QED BY <2>1, <3>1, <3>2
    <2>2. CASE batch # {}
        <3>1. PICK last : last = {i \in batch : outbox[i].attempts + 1 >= MaxAttempts}
            OBVIOUS
        <3>2. PICK r : r = [drain[d] EXCEPT !.pc = "load", !.batch = batch, !.exhausted = last]
            OBVIOUS
        <3>3. drain[d] \in DrainRow BY DEF Typed
        <3>4. r = [pc |-> "load", age |-> drain[d].age, gate |-> drain[d].gate,
                   intents |-> drain[d].intents, batch |-> batch, exhausted |-> last,
                   resolved |-> drain[d].resolved, row |-> drain[d].row]
            BY <3>2, <3>3 DEF DrainRow
        <3>5. last \subseteq Intents BY <1>3, <3>1
        <3>6. r \in DrainRow BY <1>3, <3>3, <3>4, <3>5 DEF DrainRow, PC
        <3>7. drain' = [drain EXCEPT ![d] = r] BY <1>1, <2>2, <3>1, <3>2 DEF Typed
        <3>8. drain[d].row = NoIntent BY DEF Claim, Shape, AtRow
        <3> QED BY <2>2, <3>1, <3>4, <3>6, <3>7, <3>8
    <2> QED BY <2>1, <2>2
<1>6. drain'[d] = r /\ \A e \in Drains : e # d => drain'[e] = drain[e]
    BY <1>5 DEF Typed
<1>7. Held(d)' = batch /\ Held(d) = {} /\ \A e \in Drains : e # d => Held(e)' = Held(e)
    <2>1. Held(d)' = (r.batch \union {r.row}) \ {NoIntent} BY <1>6 DEF Held
    <2>2. Held(d)' = batch BY <1>3, <1>5, <2>1
    <2>3. Held(d) = {} BY HeldFacts DEF Claim
    <2>4. \A e \in Drains : e # d => Held(e)' = Held(e) BY <1>6 DEF Held
    <2> QED BY <2>2, <2>3, <2>4
<1>8. \A i \in Intents : i \notin batch => outbox'[i] = outbox[i]
    BY <1>1
<1>9. \A i \in batch : /\ outbox'[i] \in Row
                       /\ outbox'[i].status = "sending"
                       /\ outbox'[i].left = LeaseLen
                       /\ outbox[i].attempts + 1 >= MaxAttempts <=> outbox'[i].attempts = MaxAttempts
    <2> SUFFICES ASSUME NEW i \in batch
                 PROVE  /\ outbox'[i] \in Row
                        /\ outbox'[i].status = "sending"
                        /\ outbox'[i].left = LeaseLen
                        /\ outbox[i].attempts + 1 >= MaxAttempts <=> outbox'[i].attempts = MaxAttempts
        OBVIOUS
    <2>1. PICK n : n = Min2(outbox[i].attempts + 1, MaxAttempts) OBVIOUS
    <2>2. n \in 0..MaxAttempts /\ (outbox[i].attempts + 1 >= MaxAttempts <=> n = MaxAttempts)
        BY <1>3, <1>4, <2>1 DEF Min2
    <2>3. outbox'[i] = [outbox[i] EXCEPT !.status = "sending", !.left = LeaseLen, !.attempts = n]
        BY <1>1, <1>3, <2>1
    <2>4. outbox'[i] = [status |-> "sending", left |-> LeaseLen, attempts |-> n,
                        wait |-> outbox[i].wait]
        BY <1>3, <1>4, <2>3 DEF Row
    <2> QED BY <1>3, <1>4, <2>2, <2>4 DEF Row, Status
<1>10. \A e \in Drains : \A i \in Held(e) : i \in Intents /\ outbox'[i] = outbox[i]
    BY <1>3, <1>8, HeldNotReapable
<1>11. Typed'
    <2>1. outbox' \in [Intents -> Row] BY <1>1, <1>3, <1>4, <1>8, <1>9
    <2> QED BY <1>2, <1>5, <2>1 DEF Typed
<1>12. Shape' BY <1>3, <1>5, <1>6 DEF Shape, AtRow
<1>13. Leases'
    <2>1. ASSUME NEW i \in batch
          PROVE  outbox'[i].status = "sending" /\ outbox'[i].left + drain'[d].age >= LeaseLen
        <3>1. drain'[d].age \in 0..MaxDuration BY <1>5, <1>6 DEF DrainRow
        <3> QED BY <1>9, <3>1
    <2> QED BY <1>2, <1>6, <1>7, <1>10, <2>1 DEF Leases
<1>14. Exclusive'
    <2>1. \A e \in Drains : e # d => Held(e)' \intersect batch = {}
        BY <1>3, <1>7, HeldNotReapable
    <2> QED BY <1>7, <2>1 DEF Exclusive
<1>15. Known'
    <2>1. drain[d].pc = "claim" BY DEF Claim
    <2>2. \A i \in Intents : Settling(i) => Settling(i)' /\ i \notin batch
        <3> SUFFICES ASSUME NEW i \in Intents, NEW e \in Drains, drain[e].row = i,
                            drain[e].pc \in {"sent_insert", "sent_stamp"}
                     PROVE  Settling(i)' /\ i \notin batch
            BY DEF Settling
        <3>1. i \in Held(e) BY HeldFacts DEF AtRow
        <3>2. i \notin batch BY <1>3, <3>1, HeldNotReapable
        <3>3. e # d BY <2>1
        <3> QED BY <1>6, <3>2, <3>3 DEF Settling
    <2>3. \A i \in batch : posted[i] > 0 => i \in unrecorded
        BY <1>3, <2>2 DEF Known
    <2> QED BY <1>2, <1>8, <2>2, <2>3 DEF Known
<1>16. (Seen /\ Accepted /\ Exhausted)'
    <2>1. Seen' BY <1>2, <1>5, <1>6 DEF Seen, Typed
    <2>2. Accepted' BY <1>2, <1>5, <1>6 DEF Accepted
    <2>3. Exhausted' BY <1>5, <1>6, <1>7, <1>9, <1>10 DEF Exhausted
    <2> QED BY <2>1, <2>2, <2>3
<1>17. LastAttempt' BY <1>2, <1>7, <1>8 DEF LastAttempt
<1>18. OutboxTruthful' BY <1>2, <1>8, <1>9 DEF OutboxTruthful
<1> QED BY <1>11, <1>12, <1>13, <1>14, <1>15, <1>16, <1>17, <1>18

LEMMA LoadKeeps ==
    ASSUME IInv, NEW d \in Drains, Load(d)
    PROVE  IInv'
<1> USE NotificationOutboxAssumption DEF IInv
<1>1. PICK r \in DrainRow : /\ drain' = [drain EXCEPT ![d] = r]
                            /\ r.pc = "loop" /\ r.batch = drain[d].batch /\ r.row = drain[d].row
                            /\ r.age = drain[d].age /\ r.exhausted = drain[d].exhausted
                            /\ r.resolved = ResolvedAlerts
    <2>1. PICK r : r = [drain[d] EXCEPT !.pc = "loop", !.resolved = ResolvedAlerts]
        OBVIOUS
    <2>2. drain[d] \in DrainRow BY DEF Typed
    <2>3. r = [pc |-> "loop", age |-> drain[d].age, gate |-> drain[d].gate,
               intents |-> drain[d].intents, batch |-> drain[d].batch,
               exhausted |-> drain[d].exhausted, resolved |-> ResolvedAlerts,
               row |-> drain[d].row]
        BY <2>1, <2>2 DEF DrainRow
    <2>4. ResolvedAlerts \subseteq Alerts BY DEF ResolvedAlerts
    <2>5. r \in DrainRow BY <2>2, <2>3, <2>4 DEF DrainRow, PC
    <2>6. drain' = [drain EXCEPT ![d] = r] BY <2>1 DEF Load, Typed
    <2> QED BY <2>3, <2>5, <2>6
<1>2. drain'[d] = r /\ \A e \in Drains : e # d => drain'[e] = drain[e]
    BY <1>1 DEF Typed
<1>3. \A e \in Drains : Held(e)' = Held(e)
    BY <1>1, <1>2 DEF Held
<1>4. UNCHANGED <<alert, outbox, recorded, posted, unrecorded, stale, dropped>>
    BY DEF Load, ledger
<1>5. drain[d].pc = "load" /\ drain[d].row = NoIntent
    BY DEF Load, Shape, AtRow
<1>6. (Typed /\ Shape /\ Leases /\ Exclusive)'
    <2>1. Typed' BY <1>1, <1>4 DEF Typed
    <2>2. Shape' BY <1>1, <1>2, <1>5 DEF Shape, AtRow
    <2>3. Leases' BY <1>1, <1>2, <1>3, <1>4, <1>5 DEF Leases
    <2>4. Exclusive' BY <1>3 DEF Exclusive
    <2> QED BY <2>1, <2>2, <2>3, <2>4
<1>7. Known'
    <2>1. \A i \in Intents : Settling(i) => Settling(i)'
        BY <1>2, <1>5 DEF Settling
    <2> QED BY <1>4, <2>1 DEF Known
<1>8. (Seen /\ Accepted /\ Exhausted)'
    <2>1. \A i \in stale : i \in Intents /\ AlertOf[i] \in ResolvedAlerts
        BY DEF Seen, Typed, ResolvedAlerts
    <2>2. Seen' BY <1>1, <1>2, <1>4, <2>1 DEF Seen
    <2>3. Accepted' BY <1>1, <1>2, <1>4 DEF Accepted
    <2>4. Exhausted' BY <1>1, <1>2, <1>3, <1>4 DEF Exhausted
    <2> QED BY <2>2, <2>3, <2>4
<1>9. (LastAttempt /\ OutboxTruthful)'
    BY <1>3, <1>4 DEF LastAttempt, OutboxTruthful
<1> QED BY <1>6, <1>7, <1>8, <1>9

-----------------------------------------------------------------------------
(* Settling a row *)

\* An invocation that turns to an intent it holds, or failed at it, knows that
\* Slack accepted no message of it that was recorded as such.
LEMMA HeldUnknown ==
    ASSUME IInv, NEW d \in Drains, NEW i \in Held(d),
           drain[d].row # i \/ drain[d].pc = "failed", posted[i] > 0
    PROVE  i \in unrecorded
<1> USE NotificationOutboxAssumption DEF IInv
<1>1. i \in Intents BY HeldFacts
<1>2. ~Settling(i)
    <2> SUFFICES ASSUME NEW e \in Drains, drain[e].row = i,
                        drain[e].pc \in {"sent_insert", "sent_stamp"}
                 PROVE  FALSE
        BY DEF Settling
    <2>1. i \in Held(e) BY HeldFacts DEF AtRow
    <2>2. d = e BY <1>1, <2>1 DEF Exclusive
    <2> QED BY <2>2
<1>3. outbox[i].status = "sent" => i \in unrecorded
    BY DEF Leases
<1> QED BY <1>1, <1>2, <1>3 DEF Known

\* What the batch holds is sending.
LEMMA BatchSending ==
    ASSUME IInv, NEW d \in Drains, NEW i \in drain[d].batch
    PROVE  /\ i \in Intents /\ i \in Held(d) /\ drain[d].row # i
           /\ outbox[i].status = "sending" /\ outbox[i].left >= 0
<1> USE NotificationOutboxAssumption DEF IInv
<1>1. i \in Intents BY DEF Typed, DrainRow
<1>2. i \in Held(d) BY <1>1, HeldFacts
<1>3. drain[d].row # i BY DEF Shape
<1>4. outbox[i].status = "sending" BY <1>2, <1>3 DEF Leases
<1> QED BY <1>1, <1>2, <1>3, <1>4, HeldNotReapable

\* An invocation is done with a row: it goes on to the next or ends.
LEMMA RestFacts ==
    ASSUME NEW r \in DrainRow
    PROVE  /\ Rest(r) \in DrainRow
           /\ Rest(r).batch = r.batch
           /\ Rest(r).row = NoIntent
           /\ Rest(r).pc = IF r.batch = {} THEN "idle" ELSE "loop"
           /\ r.batch # {} => /\ Rest(r).age = r.age
                              /\ Rest(r).exhausted = r.exhausted
                              /\ Rest(r).resolved = r.resolved
<1> USE NotificationOutboxAssumption
<1>1. CASE r.batch = {}
    <2>1. Rest(r) = IdleDrain BY <1>1 DEF Rest
    <2> QED BY <1>1, <2>1 DEF IdleDrain, DrainRow, PC
<1>2. CASE r.batch # {}
    <2>1. Rest(r) = [r EXCEPT !.pc = "loop", !.row = NoIntent] BY <1>2 DEF Rest
    <2>2. Rest(r) = [pc |-> "loop", age |-> r.age, gate |-> r.gate, intents |-> r.intents,
                     batch |-> r.batch, exhausted |-> r.exhausted, resolved |-> r.resolved,
                     row |-> NoIntent]
        BY <2>1 DEF DrainRow
    <2> QED BY <1>2, <2>2 DEF DrainRow, PC
<1> QED BY <1>1, <1>2

\* The three ways a row is settled: stamped suppressed, sent, or failed or due again.
LEMMA SettleKeeps ==
    ASSUME IInv, NEW d \in Drains, NEW i \in Held(d), NEW o \in Row, NEW r \in DrainRow,
           outbox' = [outbox EXCEPT ![i] = o],
           drain' = [drain EXCEPT ![d] = Rest(r)],
           UNCHANGED <<alert, recorded, posted, unrecorded, stale, dropped>>,
           drain[d].pc # "load",
           drain[d].row \in {i, NoIntent},
           r.batch = drain[d].batch \ {i},
           r.age = drain[d].age,
           r.exhausted = drain[d].exhausted,
           r.resolved = drain[d].resolved,
           o.status \in {"suppressed", "sent", "failed", "pending"},
           posted[i] > 0 /\ i \notin unrecorded => o.status = "sent",
           o.status = "sent" => posted[i] > 0 /\ i \in recorded,
           o.status = "failed" => o.attempts = MaxAttempts,
           o.status = "pending" => o.attempts # MaxAttempts
    PROVE  IInv'
<1> USE NotificationOutboxAssumption DEF IInv
<1>1. i \in Intents BY HeldFacts
<1>2. PICK s \in DrainRow :
          /\ s = Rest(r)
          /\ s.batch = drain[d].batch \ {i} /\ s.row = NoIntent
          /\ s.pc = IF s.batch = {} THEN "idle" ELSE "loop"
          /\ s.batch # {} => /\ s.age = drain[d].age
                             /\ s.exhausted = drain[d].exhausted
                             /\ s.resolved = drain[d].resolved
    BY RestFacts
<1>3. drain'[d] = s /\ \A e \in Drains : e # d => drain'[e] = drain[e]
    BY <1>2 DEF Typed
<1>4. outbox'[i] = o /\ \A j \in Intents : j # i => outbox'[j] = outbox[j]
    BY <1>1 DEF Typed
<1>5. Held(d)' = Held(d) \ {i} /\ \A e \in Drains : e # d => Held(e)' = Held(e)
    <2>1. drain[d].batch \subseteq Intents BY DEF Typed, DrainRow
    <2>2. Held(d)' = (s.batch \union {s.row}) \ {NoIntent} BY <1>3 DEF Held
    <2>3. Held(d)' = drain[d].batch \ {i} BY <1>2, <2>1, <2>2
    <2>4. Held(d)' = Held(d) \ {i} BY <1>1, <2>1, <2>3 DEF Held
    <2>5. \A e \in Drains : e # d => Held(e)' = Held(e) BY <1>3 DEF Held
    <2> QED BY <2>4, <2>5
<1>6. \A e \in Drains : \A j \in Held(e)' :
          /\ j \in Held(e) /\ j # i /\ j \in Intents
          /\ outbox'[j] = outbox[j]
          /\ drain'[e].age = drain[e].age
          /\ drain'[e].exhausted = drain[e].exhausted
          /\ drain[e].row = j => drain'[e] = drain[e]
    <2>1. ASSUME NEW e \in Drains, NEW j \in Held(e)', e = d
          PROVE  j \in Held(e) /\ j # i /\ j \in s.batch /\ drain[e].row # j
        <3>1. j \in Held(e) /\ j # i BY <1>5, <2>1
        <3>2. j # NoIntent BY <3>1 DEF Held
        <3>3. Held(d)' = (s.batch \union {s.row}) \ {NoIntent} BY <1>3 DEF Held
        <3> QED BY <1>2, <2>1, <3>1, <3>2, <3>3
    <2>2. ASSUME NEW e \in Drains, NEW j \in Held(e)', e # d
          PROVE  j \in Held(e) /\ j # i /\ drain'[e] = drain[e]
        BY <1>1, <1>3, <1>5, <2>2 DEF Exclusive
    <2>3. \A e \in Drains : Held(e) \subseteq Intents BY HeldFacts
    <2> QED BY <1>2, <1>3, <1>4, <2>1, <2>2, <2>3
<1>7. Typed' BY <1>1, <1>2 DEF Typed
<1>8. (Shape /\ Leases /\ Exclusive)'
    <2>1. Shape'
        <3>1. drain[d].batch \subseteq Intents BY DEF Typed, DrainRow
        <3> QED BY <1>2, <1>3, <3>1 DEF Shape, AtRow
    <2>2. Leases' BY <1>6 DEF Leases
    <2>3. Exclusive' BY <1>6 DEF Exclusive
    <2> QED BY <2>1, <2>2, <2>3
<1>9. Known'
    <2>1. \A j \in Intents : j # i /\ Settling(j) => Settling(j)'
        <3> SUFFICES ASSUME NEW j \in Intents, j # i, NEW e \in Drains, drain[e].row = j,
                            drain[e].pc \in {"sent_insert", "sent_stamp"}
                     PROVE  Settling(j)'
            BY DEF Settling
        <3>1. e # d BY <1>1
        <3> QED BY <1>3, <3>1 DEF Settling
    <2> QED BY <1>4, <2>1 DEF Known
<1>10. Seen'
    <2>1. \A j \in stale : j \in Intents BY DEF Typed
    <2>2. \A j \in stale : j \in drain'[d].batch => AlertOf[j] \in drain'[d].resolved
        BY <1>2, <1>3 DEF Seen
    <2>3. \A j \in stale : drain'[d].row # j
        BY <1>2, <1>3, <2>1
    <2> QED BY <1>3, <2>2, <2>3 DEF Seen
<1>11. (Accepted /\ Exhausted)'
    <2>1. Accepted' BY <1>2, <1>3 DEF Accepted
    <2>2. Exhausted' BY <1>6 DEF Exhausted
    <2> QED BY <2>1, <2>2
<1>12. LastAttempt'
    <2>1. \A j \in Intents : \A e \in Drains : j # i /\ j \in Held(e) => j \in Held(e)'
        BY <1>5
    <2> QED BY <1>4, <2>1 DEF LastAttempt
<1>13. OutboxTruthful' BY <1>4 DEF OutboxTruthful
<1> QED BY <1>7, <1>8, <1>9, <1>10, <1>11, <1>12, <1>13

LEMMA SuppressKeeps ==
    ASSUME IInv, NEW d \in Drains, Suppress(d)
    PROVE  IInv'
<1> USE NotificationOutboxAssumption
<1>1. PICK i \in drain[d].batch :
          /\ drain' = [drain EXCEPT ![d] = Rest([drain[d] EXCEPT !.batch = @ \ {i}])]
          /\ outbox' = [outbox EXCEPT ![i] = [outbox[i] EXCEPT !.status = "suppressed", !.left = 0]]
    BY DEF Suppress, Stamp
<1>2. drain[d].pc = "loop" /\ UNCHANGED <<alert, recorded, posted, unrecorded, stale, dropped>>
    BY DEF Suppress, ledger
<1>3. i \in Intents /\ i \in Held(d) /\ drain[d].row # i /\ drain[d].row = NoIntent
    BY <1>2, BatchSending DEF IInv, Shape, AtRow
<1>4. PICK r : /\ r = [drain[d] EXCEPT !.batch = @ \ {i}]
               /\ drain' = [drain EXCEPT ![d] = Rest(r)]
    <2>1. \E r : /\ r = [drain[d] EXCEPT !.batch = @ \ {i}]
                 /\ drain' = [drain EXCEPT ![d] = Rest(r)]
        <3> WITNESS [drain[d] EXCEPT !.batch = @ \ {i}]
        <3> QED BY <1>1, Zenon
    <2> QED BY <2>1
<1>5. /\ r \in DrainRow
      /\ r.batch = drain[d].batch \ {i}
      /\ r.age = drain[d].age
      /\ r.exhausted = drain[d].exhausted
      /\ r.resolved = drain[d].resolved
    <2>1. drain[d] \in DrainRow BY DEF IInv, Typed
    <2> QED BY <1>4, <2>1 DEF DrainRow
<1>7. PICK o : o = [outbox[i] EXCEPT !.status = "suppressed", !.left = 0] OBVIOUS
<1>8. o \in Row /\ o.status = "suppressed"
    <2>1. outbox[i] \in Row BY <1>3 DEF IInv, Typed
    <2>2. o = [status |-> "suppressed", left |-> 0, attempts |-> outbox[i].attempts,
               wait |-> outbox[i].wait]
        BY <1>7, <2>1 DEF Row
    <2> QED BY <2>1, <2>2 DEF Row, Status
<1>9. outbox' = [outbox EXCEPT ![i] = o]
    BY <1>1, <1>7
<1>10. posted[i] > 0 => i \in unrecorded
    BY <1>3, HeldUnknown
<1> QED BY <1>2, <1>3, <1>4, <1>5, <1>8, <1>9, <1>10, SettleKeeps

\* What the row at which an invocation stands is settled with, and how.
LEMMA AtRowFacts ==
    ASSUME IInv, NEW d \in Drains, drain[d].pc \in AtRow
    PROVE  /\ drain[d] \in DrainRow
           /\ drain[d].row \in Intents
           /\ drain[d].row \in Held(d)
           /\ drain[d].batch \ {drain[d].row} = drain[d].batch
           /\ outbox[drain[d].row] \in Row
           /\ drain[d].pc # "failed" => outbox[drain[d].row].status = "sending"
<1>1. drain[d].row \in Intents /\ drain[d].row \in Held(d) BY HeldFacts
<1>2. drain[d] \in DrainRow BY DEF IInv, Typed
<1>3. drain[d].row \notin drain[d].batch BY DEF IInv, Shape
<1>4. outbox[drain[d].row] \in Row BY <1>1 DEF IInv, Typed
<1>5. drain[d].pc # "failed" => outbox[drain[d].row].status = "sending"
    BY <1>1 DEF IInv, Leases
<1> QED BY <1>1, <1>2, <1>3, <1>4, <1>5

LEMMA StampSentKeeps ==
    ASSUME IInv, NEW d \in Drains, StampSent(d)
    PROVE  IInv'
<1> USE NotificationOutboxAssumption
<1>1. PICK i : i = drain[d].row OBVIOUS
<1>2. /\ drain[d].pc = "sent_stamp"
      /\ outbox' = [outbox EXCEPT ![i] = Sent(outbox[i])]
      /\ drain' = [drain EXCEPT ![d] = Rest(drain[d])]
      /\ UNCHANGED <<alert, recorded, posted, unrecorded, stale, dropped>>
    BY <1>1 DEF StampSent, Stamp, Settled, ledger, IInv, Typed
<1>3. i \in Intents /\ i \in Held(d) /\ outbox[i] \in Row /\ drain[d] \in DrainRow
      /\ drain[d].batch = drain[d].batch \ {i}
    BY <1>1, <1>2, AtRowFacts DEF AtRow
<1>4. PICK o \in Row : o = Sent(outbox[i]) /\ o.status = "sent"
    <2>1. PICK o : o = Sent(outbox[i]) OBVIOUS
    <2>2. o = [outbox[i] EXCEPT !.status = "sent", !.left = 0] BY <2>1 DEF Sent
    <2>3. o = [status |-> "sent", left |-> 0, attempts |-> outbox[i].attempts,
               wait |-> outbox[i].wait]
        BY <1>3, <2>2 DEF Row
    <2> QED BY <1>3, <2>1, <2>3 DEF Row, Status
<1>5. posted[i] > 0 /\ i \in recorded
    BY <1>1, <1>2 DEF IInv, Accepted
<1> QED BY <1>1, <1>2, <1>3, <1>4, <1>5, SettleKeeps

LEMMA RecordFailedKeeps ==
    ASSUME IInv, NEW d \in Drains, RecordFailed(d)
    PROVE  IInv'
<1> USE NotificationOutboxAssumption
<1>1. PICK i : i = drain[d].row OBVIOUS
<1>2. /\ drain[d].pc = "failed"
      /\ drain' = [drain EXCEPT ![d] = Rest(drain[d])]
      /\ UNCHANGED <<alert, recorded, posted, unrecorded, stale, dropped>>
    BY DEF RecordFailed, Settled, ledger, IInv, Typed
<1>3. i \in Intents /\ i \in Held(d) /\ outbox[i] \in Row /\ drain[d] \in DrainRow
      /\ drain[d].batch = drain[d].batch \ {i}
    BY <1>1, <1>2, AtRowFacts DEF AtRow
<1>4. posted[i] > 0 => i \in unrecorded
    BY <1>2, <1>3, HeldUnknown
<1>5. i \in drain[d].exhausted <=> outbox[i].attempts = MaxAttempts
    BY <1>3 DEF IInv, Exhausted
<1>6. PICK o \in Row : /\ outbox' = [outbox EXCEPT ![i] = o]
                       /\ \/ o.status = "failed" /\ o.attempts = MaxAttempts
                          \/ o.status = "pending" /\ o.attempts # MaxAttempts
    <2>1. CASE /\ GivesUp(i, drain[d].exhausted)
               /\ outbox' = [outbox EXCEPT ![i] = [outbox[i] EXCEPT !.status = "failed", !.left = 0]]
        <3>1. PICK o : o = [outbox[i] EXCEPT !.status = "failed", !.left = 0] OBVIOUS
        <3>2. o = [status |-> "failed", left |-> 0, attempts |-> outbox[i].attempts,
                   wait |-> outbox[i].wait]
            BY <1>3, <3>1 DEF Row
        <3>3. o \in Row BY <1>3, <3>2 DEF Row, Status
        <3> QED BY <1>5, <2>1, <3>1, <3>2, <3>3 DEF GivesUp
    <2>2. CASE /\ ~GivesUp(i, drain[d].exhausted)
               /\ outbox' = [outbox EXCEPT ![i] = [outbox[i] EXCEPT !.status = "pending", !.left = 0,
                                                       !.wait = Backoff(outbox[i].attempts)]]
        <3>1. PICK w : w = Backoff(outbox[i].attempts) OBVIOUS
        <3>2. w \in Int
            <4>1. outbox[i].attempts \in Nat BY <1>3 DEF Row
            <4>2. \A n \in Nat : 2 ^ n \in Int OBVIOUS
            <4>3. PICK e \in Nat : e = IF outbox[i].attempts = 0 THEN 0 ELSE outbox[i].attempts - 1
                BY <4>1
            <4>4. w = Min2(BackoffBase * 2 ^ e, BackoffCap) BY <3>1, <4>3 DEF Backoff
            <4>5. PICK p \in Int : p = 2 ^ e BY <4>2
            <4> QED BY <4>4, <4>5 DEF Min2
        <3>3. PICK o : o = [outbox[i] EXCEPT !.status = "pending", !.left = 0, !.wait = w] OBVIOUS
        <3>4. o = [status |-> "pending", left |-> 0, attempts |-> outbox[i].attempts, wait |-> w]
            BY <1>3, <3>3 DEF Row
        <3>5. o \in Row BY <1>3, <3>2, <3>4 DEF Row, Status
        <3> QED BY <1>5, <2>2, <3>1, <3>3, <3>4, <3>5 DEF GivesUp
    <2> QED BY <1>1, <2>1, <2>2 DEF RecordFailed, Stamp
<1> QED BY <1>1, <1>2, <1>3, <1>4, <1>6, SettleKeeps

-----------------------------------------------------------------------------
(* Sending *)

LEMMA PostKeeps ==
    ASSUME IInv, NEW d \in Drains, Post(d)
    PROVE  IInv'
<1> USE NotificationOutboxAssumption DEF IInv
<1>1. PICK i \in drain[d].batch, pc \in {"sent_insert", "failed"} :
          /\ AlertOf[i] \notin drain[d].resolved
          /\ drain' = [drain EXCEPT ![d].pc = pc, ![d].row = i, ![d].batch = @ \ {i}]
          /\ \/ /\ pc = "sent_insert"
                /\ posted' = [posted EXCEPT ![i] = Min2(@ + 1, 2)]
                /\ unrecorded' = unrecorded \ {i}
             \/ /\ pc = "failed"
                /\ posted' = [posted EXCEPT ![i] = Min2(@ + 1, 2)]
                /\ unrecorded' = unrecorded \union {i}
             \/ pc = "failed" /\ UNCHANGED <<posted, unrecorded>>
    BY Zenon DEF Post, Take
<1>2. /\ drain[d].pc = "loop"
      /\ UNCHANGED <<alert, outbox, recorded, stale, dropped>>
    BY DEF Post, ledger
<1>3. /\ i \in Intents /\ i \in Held(d) /\ drain[d].row = NoIntent
      /\ outbox[i].status = "sending"
    BY <1>2, BatchSending DEF Shape, AtRow
<1>4. PICK r \in DrainRow : /\ drain' = [drain EXCEPT ![d] = r]
                            /\ r.pc = pc /\ r.row = i /\ r.batch = drain[d].batch \ {i}
                            /\ r.age = drain[d].age
                            /\ r.exhausted = drain[d].exhausted
                            /\ r.resolved = drain[d].resolved
    <2>1. drain[d] \in DrainRow BY DEF Typed
    <2>2. PICK r : r = [pc |-> pc, age |-> drain[d].age, gate |-> drain[d].gate,
                        intents |-> drain[d].intents, batch |-> drain[d].batch \ {i},
                        exhausted |-> drain[d].exhausted, resolved |-> drain[d].resolved,
                        row |-> i]
        OBVIOUS
    <2>3. r \in DrainRow BY <1>3, <2>1, <2>2 DEF DrainRow, PC
    <2>4. drain' = [drain EXCEPT ![d] = r]
        BY <1>1, <2>1, <2>2 DEF Typed, DrainRow
    <2> QED BY <2>2, <2>3, <2>4
<1>5. drain'[d] = r /\ \A e \in Drains : e # d => drain'[e] = drain[e]
    BY <1>4 DEF Typed
<1>6. \A e \in Drains : Held(e)' = Held(e)
    <2>1. i # NoIntent BY <1>3
    <2>2. Held(d)' = (r.batch \union {r.row}) \ {NoIntent} BY <1>5 DEF Held
    <2>3. Held(d)' = Held(d) BY <1>3, <1>4, <2>1, <2>2 DEF Held
    <2>4. \A e \in Drains : e # d => Held(e)' = Held(e) BY <1>5 DEF Held
    <2> QED BY <2>3, <2>4
<1>7. /\ posted' \in [Intents -> Nat]
      /\ \A j \in Intents : j # i => posted'[j] = posted[j]
      /\ \A j \in Intents : posted[j] > 0 => posted'[j] > 0
      /\ pc = "sent_insert" => posted'[i] > 0
      /\ posted'[i] # posted[i] => pc = "sent_insert" \/ i \in unrecorded'
    <2>1. posted \in [Intents -> Nat] BY DEF Typed
    <2>2. PICK n \in Nat : n = Min2(posted[i] + 1, 2) /\ n > 0
        BY <1>3, <2>1 DEF Min2
    <2>3. \/ /\ pc = "sent_insert" \/ (pc = "failed" /\ i \in unrecorded')
             /\ posted' = [posted EXCEPT ![i] = n]
          \/ pc = "failed" /\ posted' = posted
        BY <1>1, <2>2
    <2> QED BY <1>1, <1>3, <2>1, <2>2, <2>3
<1>8. unrecorded' \in SUBSET Intents /\ \A j \in Intents : j # i => j \in unrecorded' <=> j \in unrecorded
    BY <1>1, <1>3 DEF Typed
<1>9. Typed' BY <1>2, <1>4, <1>7, <1>8 DEF Typed
<1>10. Shape'
    <2>1. drain[d].batch \subseteq Intents BY DEF Typed, DrainRow
    <2> QED BY <1>3, <1>4, <1>5, <2>1 DEF Shape, AtRow
<1>11. Leases'
    <2> SUFFICES ASSUME NEW e \in Drains, NEW j \in Held(e)'
                 PROVE  \/ outbox'[j].status = "sending" /\ outbox'[j].left + drain'[e].age >= LeaseLen
                        \/ /\ drain'[e].row = j
                           /\ drain'[e].pc = "failed"
                           /\ outbox'[j].status = "sent"
                           /\ j \in unrecorded'
        BY DEF Leases
    <2>1. j \in Held(e) /\ j \in Intents BY <1>6, HeldFacts
    <2>2. CASE e = d
        <3>1. drain[d].row # j BY <1>3, <2>1
        <3> QED BY <1>2, <1>4, <1>5, <2>1, <2>2, <3>1 DEF Leases
    <2>3. CASE e # d
        <3>1. j # i BY <1>3, <2>1, <2>3 DEF Exclusive
        <3> QED BY <1>2, <1>5, <1>8, <2>1, <2>3, <3>1 DEF Leases
    <2> QED BY <2>2, <2>3
<1>12. Exclusive' BY <1>6 DEF Exclusive
<1>13. Known'
    <2>1. \A j \in Intents : Settling(j) => Settling(j)'
        BY <1>2, <1>5 DEF Settling
    <2>2. CASE pc = "sent_insert"
        <3>1. Settling(i)' BY <1>4, <1>5, <2>2 DEF Settling
        <3> QED BY <1>2, <1>7, <1>8, <2>1, <3>1 DEF Known
    <2>3. CASE pc = "failed"
        <3>1. posted[i] > 0 => i \in unrecorded BY <1>3, HeldUnknown
        <3>2. posted'[i] > 0 => i \in unrecorded'
            BY <1>1, <1>7, <2>3, <3>1
        <3> QED BY <1>2, <1>7, <1>8, <2>1, <3>2 DEF Known
    <2> QED BY <2>2, <2>3
<1>14. Seen'
    <2>1. i \notin stale BY <1>1, <1>2 DEF Seen
    <2> QED BY <1>2, <1>4, <1>5, <2>1 DEF Seen
<1>15. (Accepted /\ Exhausted)'
    <2>1. \A e \in Drains : drain[e].pc \in {"sent_insert", "sent_stamp"} => drain[e].row \in Intents
        BY HeldFacts DEF AtRow
    <2>2. Accepted' BY <1>2, <1>4, <1>5, <1>7, <2>1 DEF Accepted
    <2>3. Exhausted' BY <1>2, <1>4, <1>5, <1>6 DEF Exhausted
    <2> QED BY <2>2, <2>3
<1>16. LastAttempt' BY <1>2, <1>6 DEF LastAttempt
<1>17. OutboxTruthful' BY <1>2, <1>7 DEF OutboxTruthful
<1> QED BY <1>9, <1>10, <1>11, <1>12, <1>13, <1>14, <1>15, <1>16, <1>17

LEMMA RecordSentKeeps ==
    ASSUME IInv, NEW d \in Drains, RecordSent(d)
    PROVE  IInv'
<1> USE NotificationOutboxAssumption DEF IInv
<1>1. /\ drain[d].pc = "sent_insert"
      /\ recorded' = recorded \union {drain[d].row}
      /\ UNCHANGED <<alert, outbox, posted, unrecorded, stale, dropped>>
    BY DEF RecordSent, ledger
<1>2. drain[d] \in DrainRow /\ drain[d].row \in Intents
    BY <1>1, AtRowFacts DEF AtRow
<1>3. PICK r \in DrainRow : /\ drain' = [drain EXCEPT ![d] = r]
                            /\ r.pc = "sent_stamp" /\ r.row = drain[d].row
                            /\ r.batch = drain[d].batch /\ r.age = drain[d].age
                            /\ r.exhausted = drain[d].exhausted
                            /\ r.resolved = drain[d].resolved
    <2>1. PICK r : r = [drain[d] EXCEPT !.pc = "sent_stamp"] OBVIOUS
    <2>2. drain' = [drain EXCEPT ![d] = r] BY <2>1 DEF RecordSent, Typed
    <2>3. /\ r \in DrainRow /\ r.pc = "sent_stamp" /\ r.row = drain[d].row
          /\ r.batch = drain[d].batch /\ r.age = drain[d].age
          /\ r.exhausted = drain[d].exhausted /\ r.resolved = drain[d].resolved
        BY <1>2, <2>1 DEF DrainRow, PC
    <2> QED BY <2>2, <2>3
<1>4. drain'[d] = r /\ \A e \in Drains : e # d => drain'[e] = drain[e]
    BY <1>3 DEF Typed
<1>5. \A e \in Drains : Held(e)' = Held(e)
    BY <1>3, <1>4 DEF Held
<1>6. (Typed /\ Shape /\ Leases /\ Exclusive)'
    <2>1. Typed' BY <1>1, <1>2, <1>3 DEF Typed
    <2>2. Shape' BY <1>1, <1>3, <1>4 DEF Shape, AtRow
    <2>3. Leases' BY <1>1, <1>3, <1>4, <1>5 DEF Leases
    <2>4. Exclusive' BY <1>5 DEF Exclusive
    <2> QED BY <2>1, <2>2, <2>3, <2>4
<1>7. Known'
    <2>1. \A i \in Intents : Settling(i) => Settling(i)'
        BY <1>3, <1>4 DEF Settling
    <2> QED BY <1>1, <2>1 DEF Known
<1>8. (Seen /\ Accepted /\ Exhausted)'
    <2>1. Seen' BY <1>1, <1>3, <1>4 DEF Seen
    <2>2. Accepted' BY <1>1, <1>3, <1>4 DEF Accepted
    <2>3. Exhausted' BY <1>1, <1>3, <1>4, <1>5 DEF Exhausted
    <2> QED BY <2>1, <2>2, <2>3
<1>9. (LastAttempt /\ OutboxTruthful)'
    BY <1>1, <1>5 DEF LastAttempt, OutboxTruthful
<1> QED BY <1>6, <1>7, <1>8, <1>9

\* The second window for a duplicate: the message is accepted, and may even be
\* recorded and stamped, but it is handled as failed.
LEMMA RecordThrowsKeeps ==
    ASSUME IInv, NEW d \in Drains, RecordThrows(d)
    PROVE  IInv'
<1> USE NotificationOutboxAssumption DEF IInv
<1>1. PICK i : i = drain[d].row OBVIOUS
<1>2. /\ drain[d].pc \in {"sent_insert", "sent_stamp"}
      /\ unrecorded' = unrecorded \union {i}
      /\ recorded \subseteq recorded' /\ recorded' \subseteq recorded \union {i}
      /\ UNCHANGED <<alert, posted, stale, dropped>>
    BY <1>1 DEF RecordThrows, ledger
<1>3. /\ drain[d] \in DrainRow /\ i \in Intents /\ i \in Held(d)
      /\ outbox[i] \in Row /\ outbox[i].status = "sending"
    BY <1>1, <1>2, AtRowFacts DEF AtRow
<1>4. PICK o \in Row : /\ outbox' = [outbox EXCEPT ![i] = o]
                       /\ o.attempts = outbox[i].attempts
                       /\ \/ o = outbox[i]
                          \/ o.status = "sent" /\ drain[d].pc = "sent_stamp"
    <2>1. CASE UNCHANGED outbox
        <3>1. outbox' = [outbox EXCEPT ![i] = outbox[i]] BY <1>3, <2>1 DEF Typed
        <3>2. PICK o : o = outbox[i] OBVIOUS
        <3>3. o \in Row /\ outbox' = [outbox EXCEPT ![i] = o] BY <1>3, <3>1, <3>2
        <3> QED BY <3>2, <3>3
    <2>2. CASE drain[d].pc = "sent_stamp" /\ outbox' = [outbox EXCEPT ![i] = Sent(outbox[i])]
        <3>1. PICK o : o = Sent(outbox[i]) OBVIOUS
        <3>2. o = [outbox[i] EXCEPT !.status = "sent", !.left = 0] BY <3>1 DEF Sent
        <3>3. o = [status |-> "sent", left |-> 0, attempts |-> outbox[i].attempts,
                   wait |-> outbox[i].wait]
            BY <1>3, <3>2 DEF Row
        <3>4. o \in Row BY <1>3, <3>3 DEF Row, Status
        <3>5. outbox' = [outbox EXCEPT ![i] = o] BY <2>2, <3>1, Zenon
        <3>6. o.attempts = outbox[i].attempts /\ o.status = "sent" BY <3>3
        <3> QED BY <2>2, <3>4, <3>5, <3>6, Zenon
    <2> QED BY <1>1, <2>1, <2>2 DEF RecordThrows, Stamp
<1>5. outbox'[i] = o /\ \A j \in Intents : j # i => outbox'[j] = outbox[j]
    BY <1>3, <1>4 DEF Typed
<1>6. PICK r \in DrainRow : /\ drain' = [drain EXCEPT ![d] = r]
                            /\ r.pc = "failed" /\ r.row = i
                            /\ r.batch = drain[d].batch /\ r.age = drain[d].age
                            /\ r.exhausted = drain[d].exhausted
                            /\ r.resolved = drain[d].resolved
    <2>1. PICK r : r = [drain[d] EXCEPT !.pc = "failed"] OBVIOUS
    <2>2. drain' = [drain EXCEPT ![d] = r] BY <2>1 DEF RecordThrows, Typed
    <2>3. /\ r \in DrainRow /\ r.pc = "failed" /\ r.row = drain[d].row
          /\ r.batch = drain[d].batch /\ r.age = drain[d].age
          /\ r.exhausted = drain[d].exhausted /\ r.resolved = drain[d].resolved
        BY <1>3, <2>1 DEF DrainRow, PC
    <2> QED BY <1>1, <2>2, <2>3
<1>7. drain'[d] = r /\ \A e \in Drains : e # d => drain'[e] = drain[e]
    BY <1>6 DEF Typed
<1>8. \A e \in Drains : Held(e)' = Held(e)
    BY <1>1, <1>6, <1>7 DEF Held
<1>9. Typed' BY <1>2, <1>3, <1>4, <1>6 DEF Typed
<1>10. Shape' BY <1>1, <1>2, <1>6, <1>7 DEF Shape, AtRow
<1>11. Leases'
    <2> SUFFICES ASSUME NEW e \in Drains, NEW j \in Held(e)'
                 PROVE  \/ outbox'[j].status = "sending" /\ outbox'[j].left + drain'[e].age >= LeaseLen
                        \/ /\ drain'[e].row = j
                           /\ drain'[e].pc = "failed"
                           /\ outbox'[j].status = "sent"
                           /\ j \in unrecorded'
        BY DEF Leases
    <2>1. j \in Held(e) /\ j \in Intents BY <1>8, HeldFacts
    <2>2. CASE j = i
        <3>1. e = d BY <1>3, <2>1, <2>2 DEF Exclusive
        <3>2. outbox[i].left + drain[d].age >= LeaseLen
            BY <1>2, <1>3 DEF Leases
        <3> QED BY <1>2, <1>3, <1>4, <1>5, <1>6, <1>7, <2>2, <3>1, <3>2
    <2>3. CASE j # i
        <3>1. drain'[e].age = drain[e].age /\ (drain[e].row = j => drain'[e] = drain[e])
            BY <1>1, <1>6, <1>7, <2>3
        <3> QED BY <1>2, <1>5, <2>1, <2>3, <3>1 DEF Leases
    <2> QED BY <2>2, <2>3
<1>12. Exclusive' BY <1>8 DEF Exclusive
<1>13. Known'
    <2>1. \A j \in Intents : j # i /\ Settling(j) => Settling(j)'
        BY <1>1, <1>7 DEF Settling
    <2> QED BY <1>2, <1>5, <2>1 DEF Known
<1>14. Seen' BY <1>1, <1>2, <1>6, <1>7 DEF Seen
<1>15. (Accepted /\ Exhausted)'
    <2>1. Accepted' BY <1>2, <1>6, <1>7 DEF Accepted
    <2>2. \A j \in Intents : outbox'[j].attempts = outbox[j].attempts
        BY <1>4, <1>5
    <2>3. \A e \in Drains : Held(e) \subseteq Intents BY HeldFacts
    <2>4. Exhausted' BY <1>6, <1>7, <1>8, <2>2, <2>3 DEF Exhausted
    <2> QED BY <2>1, <2>4
<1>16. LastAttempt' BY <1>2, <1>3, <1>5, <1>8 DEF LastAttempt
<1>17. OutboxTruthful'
    <2>1. drain[d].pc = "sent_stamp" => posted[i] > 0 /\ i \in recorded
        BY <1>1 DEF Accepted
    <2> QED BY <1>2, <1>4, <1>5, <2>1 DEF OutboxTruthful
<1> QED BY <1>9, <1>10, <1>11, <1>12, <1>13, <1>14, <1>15, <1>16, <1>17

-----------------------------------------------------------------------------
(* The theorems *)

LEMMA NextKeeps ==
    ASSUME IInv, [Next]_vars
    PROVE  IInv'
<1>1. ASSUME NEW i \in Intents, Raise(i) PROVE IInv' BY <1>1, RaiseKeeps
<1>2. ASSUME NEW a \in Alerts, Resolve(a) PROVE IInv' BY <1>2, ResolveKeeps
<1>3. CASE Tick BY <1>3, TickKeeps
<1>4. ASSUME NEW d \in Drains, Start(d) PROVE IInv' BY <1>4, StartKeeps
<1>5. ASSUME NEW d \in Drains, Die(d) PROVE IInv' BY <1>5, DieKeeps
<1>6. ASSUME NEW d \in Drains, Step(d) PROVE IInv'
    BY <1>6, UpsertKeeps, ReapKeeps, ClaimKeeps, LoadKeeps, SuppressKeeps, PostKeeps,
       RecordSentKeeps, StampSentKeeps, RecordThrowsKeeps, RecordFailedKeeps DEF Step
<1>7. CASE UNCHANGED vars
    BY <1>7 DEF vars, IInv, Typed, Shape, Leases, Exclusive, Known, Settling, Seen, Accepted,
                Exhausted, LastAttempt, OutboxTruthful, Held
<1> QED BY <1>1, <1>2, <1>3, <1>4, <1>5, <1>6, <1>7 DEF Next

\* The inductive invariant: leases, the exclusive hold of claimed intents, and
\* what is known of the messages sent and of the attempts used.
THEOREM Inductive == Spec => []IInv
<1>1. Init => IInv BY InitIInv
<1>2. IInv /\ [Next]_vars => IInv' BY NextKeeps
<1> QED BY <1>1, <1>2, PTL DEF Spec

\* A drain's lease never ends under it, whatever the batch, if the lease is at
\* least as long as the platform lets an invocation live (claim and drain()).
THEOREM LeaseOutlives == Spec => []LeaseOutlivesDrain
<1>1. IInv => LeaseOutlivesDrain BY BatchSending DEF LeaseOutlivesDrain
<1> QED BY <1>1, Inductive, PTL

\* What an intent's status says of the message and of its attempts is true.
THEOREM Truthful == Spec => []OutboxTruthful
<1>1. IInv => OutboxTruthful BY DEF IInv
<1> QED BY <1>1, Inductive, PTL

\* Only a send changes what was posted.
LEMMA OnlyPostPosts ==
    ASSUME [Next]_vars, NEW i, posted'[i] # posted[i]
    PROVE  \E d \in Drains : Post(d)
BY DEF Next, Step, vars, Raise, Resolve, Tick, Start, Die, Upsert, Reap, Claim, Load, Suppress,
       RecordSent, StampSent, RecordThrows, RecordFailed

\* Slack is sent an intent again only if it is not known, or not recorded, that
\* it accepted it: drainSlackDm under overlapping drains and reaped leases.
THEOREM ResentAfterFault == Spec => ResentOnlyAfterFault
<1>1. ASSUME IInv, [Next]_vars
      PROVE  [\A i \in Intents : posted[i] > 0 /\ i \notin unrecorded => posted'[i] = posted[i]]_vars
    <2> SUFFICES ASSUME NEW i \in Intents, posted[i] > 0, i \notin unrecorded,
                        posted'[i] # posted[i]
                 PROVE  FALSE
        OBVIOUS
    <2>1. PICK d \in Drains : Post(d) BY <1>1, OnlyPostPosts
    <2>2. PICK j \in drain[d].batch :
              posted' = [posted EXCEPT ![j] = Min2(@ + 1, 2)] \/ posted' = posted
        BY <2>1, Zenon DEF Post
    <2>3. j = i BY <1>1, <2>2 DEF IInv, Typed
    <2>4. i \in Held(d) /\ drain[d].row # i BY <1>1, <2>3, BatchSending
    <2> QED BY <1>1, <2>4, HeldUnknown
<1> QED BY <1>1, Inductive, PTL DEF Spec, ResentOnlyAfterFault

\* An alert that was resolved while nobody held its intent is not sent any more:
\* the one look at the ledger that a batch takes is late enough for it.
THEOREM ResolvedUnsent == Spec => ResolvedNotSent
<1>1. ASSUME IInv, [Next]_vars
      PROVE  [\A i \in stale : posted'[i] = posted[i]]_vars
    <2> SUFFICES ASSUME NEW i \in stale, posted'[i] # posted[i]
                 PROVE  FALSE
        OBVIOUS
    <2>1. PICK d \in Drains : Post(d) BY <1>1, OnlyPostPosts
    <2>2. PICK j \in drain[d].batch :
              /\ AlertOf[j] \notin drain[d].resolved
              /\ posted' = [posted EXCEPT ![j] = Min2(@ + 1, 2)] \/ posted' = posted
        BY <2>1, Zenon DEF Post
    <2>3. j = i BY <1>1, <2>2 DEF IInv, Typed
    <2>4. drain[d].pc = "loop" BY <2>1 DEF Post
    <2> QED BY <1>1, <2>2, <2>3, <2>4 DEF IInv, Seen
<1> QED BY <1>1, Inductive, PTL DEF Spec, ResolvedNotSent

-----------------------------------------------------------------------------
(***************************************************************************)
(* The referral report.  Two invariants that hardly meet: the tables of 029  *)
(* are in order after every RPC (Tables), and what a slot says of itself      *)
(* bounds what its attempts can still do (Once, Recorded, Replaced).  Only    *)
(* the promotion of a correction needs both.                                  *)
(***************************************************************************)

-----------------------------------------------------------------------------
(* The tables.                                                               *)

DbTyped(d) ==
    d \in [ run      : [Revisions -> RunStatus],
            slot     : [Revisions -> [Slots -> SlotRow]],
            proposal : [Revisions -> [Causes -> ProposalStatus]] ]

\* Revisions are made one after the other.
Consecutive(d) ==
    /\ \A p, q \in Revisions : p <= q /\ d.run[q] # "none" => d.run[p] # "none"
    /\ d.run[1] # "none" => \E h \in Revisions : IsHead(d, h)

\* Nothing is recorded of a revision before it is made.
Unmade(d) ==
    \A r \in Revisions : d.run[r] = "none" =>
        /\ \A s \in Slots : d.slot[r][s] = NewSlot
        /\ \A c \in Causes : d.proposal[r][c] = "none"

\* A promotion makes the next revision.
Unpromoted(d) ==
    \A r \in Revisions : IsHead(d, r) => \A c \in Causes : d.proposal[r][c] # "promoted"

Obligation(d, r) == \E c \in Recovery : d.proposal[r][c] = "open"

\* A delivery of the revision that failed for good has been followed up.
FailureFollowed(d, r) ==
    (\E s \in Slots : d.slot[r][s].status \in Terminal) => Obligation(d, r)

Obliged(d, r) ==
    /\ d.run[r] = "attention_required" <=> Obligation(d, r)
    /\ FailureFollowed(d, r)

\* All of it but what refreshing the status of revision r restores.
TablesBut(d, r) ==
    /\ DbTyped(d)
    /\ Consecutive(d)
    /\ Unmade(d)
    /\ Unpromoted(d)
    /\ \A q \in Revisions \ {r} : IsHead(d, q) => Obliged(d, q)

Tables(d) ==
    /\ DbTyped(d)
    /\ Consecutive(d)
    /\ Unmade(d)
    /\ Unpromoted(d)
    /\ \A q \in Revisions : IsHead(d, q) => Obliged(d, q)

-----------------------------------------------------------------------------
(* A slot, its messages and the attempts under way.                          *)

\* A slot that is taken to have reached nobody.
TakenAsFailed(x) == x.proven \/ x.status = "transport_failed"

\* A message was made after the first attempt of its slot, and its key is
\* remembered for a whole window from then.
Keyed(r, s) ==
    /\ slot[r][s].first <= clock
    /\ sent[r][s] <= 1
    /\ sent[r][s] = 1 =>
          slot[r][s].first # Never /\ key[r][s] >= slot[r][s].first + Window

\* An attempt under way ends while the provider remembers the message there is.
InTime(r, s) ==
    \A i \in Invocations : Posting(i, r, s) =>
        /\ slot[r][s].first # Never
        /\ slot[r][s].first <= dispatch[i][s].at
        /\ dispatch[i][s].at <= clock
        /\ sent[r][s] = 1 => dispatch[i][s].at + Margin < key[r][s]

\* Two attempts overlap only if retries stop later than they start.
Overlap(r, s) ==
    \A i, j \in Invocations : i # j /\ Posting(i, r, s) /\ Posting(j, r, s) => Margin < Window

FailedUnsent(r, s) ==
    TakenAsFailed(slot[r][s]) => sent[r][s] = 0 /\ \A i \in Invocations : ~Posting(i, r, s)

Once(r, s) == Keyed(r, s) /\ InTime(r, s) /\ Overlap(r, s) /\ FailedUnsent(r, s)

OnceUnlessExcused ==
    \A r \in Revisions, s \in Slots : <<r, s>> \notin Excused => Once(r, s)

\* What a slot says of its messages.
Recorded(r, s) ==
    /\ slot[r][s].status = "prepared" => slot[r][s].first = Never
    /\ slot[r][s].status \in {"delivered", "bounced"} => slot[r][s].message > 0
    /\ slot[r][s].message > 0 => sent[r][s] > 0
    /\ key[r][s] > 0 => sent[r][s] > 0

\* What an invocation knows of its attempt.
Attempting(i, s) ==
    /\ dispatch[i][s].pc # "idle" => run[dispatch[i][s].revision] # "none"
    /\ dispatch[i][s].pc = "accepted" =>
          dispatch[i][s].message > 0 /\ sent[dispatch[i][s].revision][s] > 0

\* A revision that was replaced without an acknowledgement has nothing under way.
Replaced(r, s) ==
    run[r] # "none" /\ ~IsHead(Db, r) /\ r \notin acked /\ <<r, s>> \notin Excused =>
        \A i \in Invocations : Posting(i, r, s) => sent[r][s] > 0

Late == \A r \in Revisions, s \in Slots : Recorded(r, s) /\ Replaced(r, s)

Attempts == \A i \in Invocations, s \in Slots : Attempting(i, s)

ReferralIInv ==
    /\ ReferralTypeOK
    /\ Tables(Db)
    /\ OnceUnlessExcused
    /\ Late
    /\ Attempts

-----------------------------------------------------------------------------
(* What the operators make of the tables.                                    *)

LEMMA FirstRevision == MaxRevision \in Nat /\ 1 \in Revisions
BY ReferralDeliveryAssumption DEF Revisions

LEMMA HeadIsLast ==
    ASSUME NEW d, Consecutive(d),
           NEW p \in Revisions, NEW q \in Revisions, IsHead(d, p), d.run[q] # "none"
    PROVE  q <= p
<1> SUFFICES ASSUME p < q PROVE FALSE BY FirstRevision DEF Revisions
<1>1. p + 1 \in Revisions /\ p + 1 <= q BY FirstRevision DEF Revisions
<1>2. p < MaxRevision BY FirstRevision DEF Revisions
<1> QED BY <1>1, <1>2 DEF Consecutive, IsHead

LEMMA HeadIsOne ==
    ASSUME NEW d, Consecutive(d), NEW r \in Revisions, IsHead(d, r)
    PROVE  Head(d) = r
<1>1. ASSUME NEW p \in Revisions, IsHead(d, p) PROVE p = r
    <2>1. p <= r /\ r <= p BY <1>1, HeadIsLast DEF IsHead
    <2> QED BY <2>1, FirstRevision DEF Revisions
<1> QED BY <1>1 DEF Head

LEMMA HeadExists ==
    ASSUME NEW d, Consecutive(d), NEW r \in Revisions, d.run[r] # "none"
    PROVE  Head(d) \in Revisions /\ IsHead(d, Head(d))
<1>1. d.run[1] # "none" BY FirstRevision DEF Consecutive, Revisions
<1>2. PICK h \in Revisions : IsHead(d, h) BY <1>1 DEF Consecutive
<1> QED BY <1>2, HeadIsOne

\* Both tables have the same revisions.
SameRevisions(d, e) == \A r \in Revisions : e.run[r] = "none" <=> d.run[r] = "none"

LEMMA HeadKept ==
    ASSUME NEW d, NEW e, SameRevisions(d, e), NEW r \in Revisions
    PROVE  IsHead(e, r) <=> IsHead(d, r)
<1>1. r < MaxRevision => r + 1 \in Revisions BY FirstRevision DEF Revisions
<1> QED BY <1>1 DEF IsHead, SameRevisions

LEMMA ConsecutiveKept ==
    ASSUME NEW d, NEW e, Consecutive(d), SameRevisions(d, e)
    PROVE  Consecutive(e)
<1>1. \A h \in Revisions : IsHead(e, h) <=> IsHead(d, h) BY HeadKept
<1> QED BY <1>1, FirstRevision DEF Consecutive, SameRevisions

LEMMA DbForm ==
    ASSUME NEW d, DbTyped(d)
    PROVE  d = [run |-> d.run, slot |-> d.slot, proposal |-> d.proposal]
BY DEF DbTyped

LEMMA DbExcept ==
    ASSUME NEW d, DbTyped(d), NEW v
    PROVE  /\ [d EXCEPT !.run = v] = [run |-> v, slot |-> d.slot, proposal |-> d.proposal]
           /\ [d EXCEPT !.slot = v] = [run |-> d.run, slot |-> v, proposal |-> d.proposal]
           /\ [d EXCEPT !.proposal = v] = [run |-> d.run, slot |-> d.slot, proposal |-> v]
<1>1. PICK a, b, c : a = d.run /\ b = d.slot /\ c = d.proposal OBVIOUS
<1>2. d = [run |-> a, slot |-> b, proposal |-> c] BY <1>1, DbForm
<1> QED BY <1>1, <1>2

LEMMA OpenForm ==
    ASSUME NEW d, DbTyped(d), NEW r \in Revisions, NEW causes
    PROVE  /\ DbTyped(Open(d, r, causes))
           /\ Open(d, r, causes).run = d.run
           /\ Open(d, r, causes).slot = d.slot
           /\ \A q \in Revisions \ {r} : Open(d, r, causes).proposal[q] = d.proposal[q]
           /\ \A c \in Causes : Open(d, r, causes).proposal[r][c] =
                 IF c \in causes /\ ~Pending(d, r, c) THEN "open" ELSE d.proposal[r][c]
<1> DEFINE row == [c \in Causes |-> IF c \in causes /\ ~Pending(d, r, c) THEN "open"
                                    ELSE d.proposal[r][c]]
<1>1. row \in [Causes -> ProposalStatus] BY DEF DbTyped, ProposalStatus
<1>2. Open(d, r, causes) = [run |-> d.run, slot |-> d.slot,
                            proposal |-> [d.proposal EXCEPT ![r] = row]]
    BY DbExcept DEF Open
<1> HIDE DEF row
<1>3. /\ DbTyped(Open(d, r, causes))
      /\ \A q \in Revisions \ {r} : Open(d, r, causes).proposal[q] = d.proposal[q]
      /\ Open(d, r, causes).proposal[r] = row
    BY <1>1, <1>2 DEF DbTyped
<1> QED BY <1>2, <1>3 DEF row

LEMMA AttentionForm ==
    ASSUME NEW d, DbTyped(d), NEW r \in Revisions
    PROVE  /\ DbTyped(Attention(d, r))
           /\ Attention(d, r).run[r] = "attention_required"
           /\ \A q \in Revisions \ {r} : Attention(d, r).run[q] = d.run[q]
           /\ Attention(d, r).slot = d.slot
           /\ Attention(d, r).proposal = d.proposal
<1>1. Attention(d, r) = [run |-> [d.run EXCEPT ![r] = "attention_required"],
                         slot |-> d.slot, proposal |-> d.proposal]
    BY DbExcept DEF Attention
<1> QED BY <1>1 DEF DbTyped, RunStatus

\* Asking for attention together with an obligation.
LEMMA AttentionTables ==
    ASSUME NEW d, NEW r \in Revisions, NEW causes,
           TablesBut(d, r), d.run[r] # "none", causes \intersect Recovery # {}
    PROVE  /\ Tables(Attention(Open(d, r, causes), r))
           /\ SameRevisions(d, Attention(Open(d, r, causes), r))
           /\ Attention(Open(d, r, causes), r).slot = d.slot
<1> DEFINE o == Open(d, r, causes)
           e == Attention(o, r)
<1>1. DbTyped(d) BY DEF TablesBut
<1>2. /\ DbTyped(o) /\ o.run = d.run /\ o.slot = d.slot
      /\ \A q \in Revisions \ {r} : o.proposal[q] = d.proposal[q]
      /\ \A c \in Causes : o.proposal[r][c] =
            IF c \in causes /\ ~Pending(d, r, c) THEN "open" ELSE d.proposal[r][c]
    BY <1>1, OpenForm
<1> HIDE DEF o
<1>3. /\ DbTyped(e) /\ e.run[r] = "attention_required" /\ e.slot = o.slot /\ e.proposal = o.proposal
      /\ \A q \in Revisions \ {r} : e.run[q] = o.run[q]
    BY <1>2, AttentionForm
<1> HIDE DEF e
<1>4. SameRevisions(d, e) BY <1>2, <1>3 DEF SameRevisions
<1>5. \A q \in Revisions : IsHead(e, q) <=> IsHead(d, q) BY <1>4, HeadKept
<1>6. Consecutive(e) BY <1>4, ConsecutiveKept DEF TablesBut
<1>7. Unmade(e) BY <1>2, <1>3 DEF TablesBut, Unmade
<1>8. Unpromoted(e) BY <1>2, <1>3, <1>5 DEF TablesBut, Unpromoted, Causes
<1>9. ASSUME NEW q \in Revisions, IsHead(e, q) PROVE Obliged(e, q)
    <2>1. CASE q = r
        <3>1. PICK c \in Recovery : c \in causes OBVIOUS
        <3>2. c \in Causes BY DEF Causes
        <3>3. d.proposal[r][c] \in {"none", "open"}
            BY <1>1, <1>5, <1>9, <2>1, <3>2 DEF DbTyped, TablesBut, Unpromoted, ProposalStatus
        <3>4. e.proposal[r][c] = "open" BY <1>2, <1>3, <3>1, <3>2, <3>3 DEF Pending
        <3> QED BY <1>3, <2>1, <3>4 DEF Obliged, FailureFollowed, Obligation
    <2>2. CASE q # r
        <3>1. Obliged(d, q) BY <1>5, <1>9, <2>2 DEF TablesBut
        <3>2. e.run[q] = d.run[q] /\ e.slot[q] = d.slot[q] /\ e.proposal[q] = d.proposal[q]
            BY <1>2, <1>3, <2>2
        <3> QED BY <3>1, <3>2 DEF Obliged, FailureFollowed, Obligation
    <2> QED BY <2>1, <2>2
<1> QED BY <1>2, <1>3, <1>4, <1>6, <1>7, <1>8, <1>9 DEF Tables, e, o

LEMMA AggregateStatus ==
    ASSUME NEW d, NEW r
    PROVE  /\ Aggregate(d, r) \in RunStatus \ {"none"}
           /\ Aggregate(d, r) = "attention_required"
                 <=> \E s \in Slots : d.slot[r][s].status \in Terminal
<1> DEFINE found == {d.slot[r][s].status : s \in Slots}
<1>1. found \intersect Terminal # {} <=> \E s \in Slots : d.slot[r][s].status \in Terminal
    OBVIOUS
<1>2. Aggregate(d, r) = IF found \intersect Terminal # {} THEN "attention_required"
                        ELSE IF found = {"delivered"} THEN "delivered"
                        ELSE IF "delivered" \in found THEN "partially_delivered"
                        ELSE IF "ambiguous" \in found THEN "ambiguous"
                        ELSE IF found \subseteq InFlight THEN "provider_accepted"
                        ELSE IF found \intersect ({"sending"} \union InFlight) # {} THEN "sending"
                        ELSE "prepared"
    BY DEF Aggregate
<1> HIDE DEF found
<1> QED BY <1>1, <1>2 DEF RunStatus

\* What refreshing makes of the status and the proposals of its revision.
RefreshedRow(d, r, e) ==
    \/ /\ Unsettled(d, r, Aggregate(d, r))
       /\ e.run[r] = "attention_required"
       /\ e.proposal = d.proposal
    \/ /\ ~Unsettled(d, r, Aggregate(d, r))
       /\ Aggregate(d, r) # "delivered"
       /\ e.run[r] = Aggregate(d, r)
       /\ e.proposal = d.proposal
    \/ /\ ~Unsettled(d, r, Aggregate(d, r))
       /\ Aggregate(d, r) = "delivered"
       /\ e.run[r] = "delivered"
       /\ \A p \in Revisions, c \in Causes : e.proposal[p][c] =
             IF SatisfiedBy(d, r, p, c) THEN "none" ELSE d.proposal[p][c]

LEMMA RefreshForm ==
    ASSUME NEW d, DbTyped(d), NEW r \in Revisions
    PROVE  /\ DbTyped(Refresh(d, r))
           /\ Refresh(d, r).slot = d.slot
           /\ \A q \in Revisions \ {r} : Refresh(d, r).run[q] = d.run[q]
           /\ RefreshedRow(d, r, Refresh(d, r))
<1> DEFINE status == Aggregate(d, r)
           row == [p \in Revisions |-> [c \in Causes |->
                      IF SatisfiedBy(d, r, p, c) THEN "none" ELSE d.proposal[p][c]]]
<1>1. status \in RunStatus BY AggregateStatus
<1>2. row \in [Revisions -> [Causes -> ProposalStatus]] BY DEF DbTyped, ProposalStatus
<1>3. CASE Unsettled(d, r, status)
    <2>1. Refresh(d, r) = Attention(d, r) BY <1>3 DEF Refresh
    <2> QED BY <1>3, <2>1, AttentionForm DEF RefreshedRow
<1>4. CASE ~Unsettled(d, r, status) /\ status # "delivered"
    <2>1. Refresh(d, r) = [run |-> [d.run EXCEPT ![r] = status], slot |-> d.slot, proposal |-> d.proposal]
        BY <1>4, DbExcept DEF Refresh
    <2> HIDE DEF status
    <2>2. d.run \in [Revisions -> RunStatus] BY DEF DbTyped
    <2>3. /\ DbTyped(Refresh(d, r)) /\ Refresh(d, r).slot = d.slot /\ Refresh(d, r).proposal = d.proposal
          /\ Refresh(d, r).run[r] = status
          /\ \A q \in Revisions \ {r} : Refresh(d, r).run[q] = d.run[q]
        BY <1>1, <2>1, <2>2 DEF DbTyped
    <2> QED BY <1>4, <2>3 DEF RefreshedRow, status
<1>5. CASE ~Unsettled(d, r, status) /\ status = "delivered"
    <2>1. Refresh(d, r) = [run |-> [d.run EXCEPT ![r] = status], slot |-> d.slot, proposal |-> row]
        BY <1>5 DEF Refresh
    <2> HIDE DEF status, row
    <2>2. d.run \in [Revisions -> RunStatus] BY DEF DbTyped
    <2>3. /\ DbTyped(Refresh(d, r)) /\ Refresh(d, r).slot = d.slot /\ Refresh(d, r).proposal = row
          /\ Refresh(d, r).run[r] = status
          /\ \A q \in Revisions \ {r} : Refresh(d, r).run[q] = d.run[q]
        BY <1>1, <1>2, <2>1, <2>2 DEF DbTyped
    <2>4. \A p \in Revisions, c \in Causes : row[p][c] =
             IF SatisfiedBy(d, r, p, c) THEN "none" ELSE d.proposal[p][c]
        BY DEF row
    <2> QED BY <1>5, <2>3, <2>4 DEF RefreshedRow, status
<1> QED BY <1>3, <1>4, <1>5

LEMMA RefreshBut ==
    ASSUME NEW d, NEW r \in Revisions, TablesBut(d, r), d.run[r] # "none"
    PROVE  /\ TablesBut(Refresh(d, r), r)
           /\ SameRevisions(d, Refresh(d, r))
           /\ Refresh(d, r).slot = d.slot
           /\ RefreshedRow(d, r, Refresh(d, r))
<1> DEFINE e == Refresh(d, r)
<1>1. DbTyped(d) BY DEF TablesBut
<1>2. /\ DbTyped(e) /\ e.slot = d.slot
      /\ \A q \in Revisions \ {r} : e.run[q] = d.run[q]
      /\ RefreshedRow(d, r, e)
    BY <1>1, RefreshForm
<1> HIDE DEF e
<1>3. e.run[r] # "none" BY <1>2, AggregateStatus DEF RefreshedRow
<1>4. SameRevisions(d, e) BY <1>2, <1>3 DEF SameRevisions
<1>5. \A q \in Revisions : IsHead(e, q) <=> IsHead(d, q) BY <1>4, HeadKept
<1>6. Consecutive(e) BY <1>4, ConsecutiveKept DEF TablesBut
<1>7. \A p \in Revisions, c \in Causes :
          /\ e.proposal[p][c] \in {"none", d.proposal[p][c]}
          /\ p > r => e.proposal[p][c] = d.proposal[p][c]
    BY <1>2 DEF RefreshedRow, SatisfiedBy, Revisions
<1>8. Unmade(e)
    <2> SUFFICES ASSUME NEW p \in Revisions, e.run[p] = "none"
                 PROVE  (\A s \in Slots : e.slot[p][s] = NewSlot) /\ \A c \in Causes : e.proposal[p][c] = "none"
        BY DEF Unmade
    <2>1. d.run[p] = "none" BY <1>4 DEF SameRevisions
    <2> QED BY <1>2, <1>7, <2>1 DEF TablesBut, Unmade
<1>9. Unpromoted(e)
    <2> SUFFICES ASSUME NEW p \in Revisions, IsHead(e, p), NEW c \in Causes
                 PROVE  e.proposal[p][c] # "promoted"
        BY DEF Unpromoted
    <2>1. d.proposal[p][c] # "promoted" BY <1>5 DEF TablesBut, Unpromoted
    <2> QED BY <1>7, <2>1
<1>10. ASSUME NEW q \in Revisions \ {r}, IsHead(e, q) PROVE Obliged(e, q)
    <2>1. IsHead(d, q) BY <1>5, <1>10
    <2>2. Obliged(d, q) BY <2>1 DEF TablesBut
    <2>3. r <= q BY <2>1, HeadIsLast DEF TablesBut
    <2>4. q > r BY <2>3, FirstRevision DEF Revisions
    <2>5. \A c \in Causes : e.proposal[q][c] = d.proposal[q][c] BY <1>7, <2>4
    <2>6. Recovery \subseteq Causes BY DEF Causes
    <2> QED BY <1>2, <2>2, <2>5, <2>6 DEF Obliged, FailureFollowed, Obligation
<1> QED BY <1>2, <1>4, <1>6, <1>8, <1>9, <1>10 DEF TablesBut, e

LEMMA RefreshTables ==
    ASSUME NEW d, NEW r \in Revisions, TablesBut(d, r), d.run[r] # "none",
           IsHead(d, r) => FailureFollowed(d, r)
    PROVE  /\ Tables(Refresh(d, r))
           /\ SameRevisions(d, Refresh(d, r))
           /\ Refresh(d, r).slot = d.slot
<1> DEFINE status == Aggregate(d, r)
<1>1. PICK e : e = Refresh(d, r) OBVIOUS
<1>2. TablesBut(e, r) /\ SameRevisions(d, e) /\ e.slot = d.slot /\ RefreshedRow(d, r, e)
    BY <1>1, RefreshBut
<1>3. ASSUME IsHead(e, r) PROVE Obliged(e, r)
    <2>1. IsHead(d, r) BY <1>2, <1>3, HeadKept
    <2>2. FailureFollowed(d, r) BY <2>1
    <2>3. \A c \in Recovery : d.proposal[r][c] \in {"none", "open"}
        BY <2>1 DEF DbTyped, TablesBut, Unpromoted, ProposalStatus, Causes
    <2>4. \A c \in Recovery : Pending(d, r, c) <=> d.proposal[r][c] = "open"
        BY <2>3 DEF Pending
    <2>5. CASE Unsettled(d, r, status)
        <3>1. Obligation(d, r) BY <2>4, <2>5 DEF Unsettled, Obligation
        <3>2. e.run[r] = "attention_required" /\ e.proposal = d.proposal
            BY <1>2, <2>5 DEF RefreshedRow
        <3> QED BY <3>1, <3>2 DEF Obliged, FailureFollowed, Obligation
    <2>6. CASE ~Unsettled(d, r, status) /\ status # "delivered"
        <3>1. ~Obligation(d, r) BY <2>4, <2>6 DEF Unsettled, Obligation
        <3>2. e.run[r] = status /\ e.proposal = d.proposal BY <1>2, <2>6 DEF RefreshedRow
        <3>3. status # "attention_required" BY <2>2, <3>1, AggregateStatus DEF FailureFollowed
        <3> QED BY <1>2, <2>2, <3>1, <3>2, <3>3 DEF Obliged, FailureFollowed, Obligation
    <2>7. CASE ~Unsettled(d, r, status) /\ status = "delivered"
        <3>1. /\ e.run[r] = "delivered"
              /\ \A c \in Causes : e.proposal[r][c] =
                    IF SatisfiedBy(d, r, r, c) THEN "none" ELSE d.proposal[r][c]
            BY <1>2, <2>7 DEF RefreshedRow
        <3>2. ASSUME NEW c \in Recovery PROVE e.proposal[r][c] # "open"
            <4>1. c \in Causes BY DEF Causes
            <4>2. CASE d.proposal[r][c] = "open"
                <5>1. c # "recipient_scope_changed" BY <2>4, <2>7, <4>2 DEF Unsettled
                <5>2. SatisfiedBy(d, r, r, c) BY <2>4, <4>2, <5>1 DEF SatisfiedBy
                <5> QED BY <3>1, <4>1, <5>2
            <4>3. CASE d.proposal[r][c] # "open" BY <3>1, <4>1, <4>3
            <4> QED BY <4>2, <4>3
        <3>3. ~Obligation(e, r) BY <3>2 DEF Obligation
        <3>4. ~\E s \in Slots : e.slot[r][s].status \in Terminal BY <1>2, <2>7, AggregateStatus
        <3> QED BY <3>1, <3>3, <3>4 DEF Obliged, FailureFollowed
    <2> QED BY <2>5, <2>6, <2>7
<1> QED BY <1>1, <1>2, <1>3 DEF Tables, TablesBut

LEMMA SlotsOfOne ==
    ASSUME NEW d, NEW e, NEW r \in Revisions, Tables(d), d.run[r] # "none",
           DbTyped(e), e.run = d.run, e.proposal = d.proposal,
           \A q \in Revisions \ {r} : e.slot[q] = d.slot[q]
    PROVE  /\ TablesBut(e, r)
           /\ (\A s \in Slots : e.slot[r][s].status \in Terminal
                                   => d.slot[r][s].status \in Terminal) => Tables(e)
<1>1. SameRevisions(d, e) BY DEF SameRevisions
<1>2. \A q \in Revisions : IsHead(e, q) <=> IsHead(d, q) BY <1>1, HeadKept
<1>3. Consecutive(e) BY <1>1, ConsecutiveKept DEF Tables
<1>4. Unmade(e)
    <2> SUFFICES ASSUME NEW p \in Revisions, e.run[p] = "none"
                 PROVE  (\A s \in Slots : e.slot[p][s] = NewSlot) /\ \A c \in Causes : e.proposal[p][c] = "none"
        BY DEF Unmade
    <2>1. p # r /\ d.run[p] = "none" OBVIOUS
    <2>2. e.slot[p] = d.slot[p] BY <2>1
    <2> QED BY <2>1, <2>2 DEF Tables, Unmade
<1>5. Unpromoted(e) BY <1>2 DEF Tables, Unpromoted
<1>6. ASSUME NEW q \in Revisions \ {r}, IsHead(e, q) PROVE Obliged(e, q)
    <2>1. Obliged(d, q) BY <1>2, <1>6 DEF Tables
    <2>2. e.slot[q] = d.slot[q] OBVIOUS
    <2> QED BY <2>1, <2>2 DEF Obliged, FailureFollowed, Obligation
<1>7. TablesBut(e, r) BY <1>3, <1>4, <1>5, <1>6 DEF TablesBut
<1>8. ASSUME \A s \in Slots : e.slot[r][s].status \in Terminal => d.slot[r][s].status \in Terminal,
             IsHead(e, r)
      PROVE  Obliged(e, r)
    <2>1. Obliged(d, r) BY <1>2, <1>8 DEF Tables
    <2>2. FailureFollowed(e, r) BY <1>8, <2>1 DEF Obliged, FailureFollowed, Obligation
    <2>3. e.run[r] = "attention_required" <=> Obligation(e, r) BY <2>1 DEF Obliged, Obligation
    <2> QED BY <2>2, <2>3 DEF Obliged
<1> QED BY <1>3, <1>4, <1>5, <1>6, <1>7, <1>8 DEF Tables

LEMMA TablesAreBut ==
    ASSUME NEW d, NEW r \in Revisions, Tables(d)
    PROVE  TablesBut(d, r) /\ DbTyped(d) /\ Consecutive(d)
           /\ (IsHead(d, r) => FailureFollowed(d, r) /\ Obliged(d, r))
BY DEF Tables, TablesBut, Obliged

-----------------------------------------------------------------------------
(* What the operators make of a slot.                                        *)

\* A change of a slot without a start of an attempt.
Follows(x, y) ==
    /\ y.first = x.first
    /\ TakenAsFailed(y) => TakenAsFailed(x)
    /\ y.status = "prepared" => x.status = "prepared" \/ x.first = Never
    /\ y.status \in {"delivered", "bounced"} =>
          x.status \in {"delivered", "bounced"} \/ x.message > 0

LEMMA StatusForm ==
    ASSUME NEW x \in SlotRow, NEW st \in SlotStatus
    PROVE  [x EXCEPT !.status = st] =
               [status |-> st, attempt |-> x.attempt, lease |-> x.lease,
                first |-> x.first, proven |-> x.proven, message |-> x.message]
BY DEF SlotRow

LEMMA ExpiredForm ==
    ASSUME NEW x \in SlotRow, x.status = "sending"
    PROVE  /\ ExpiredSlot(x) \in SlotRow
           /\ Follows(x, ExpiredSlot(x))
           /\ ExpiredSlot(x).message = x.message
           /\ ExpiredSlot(x).status \notin Terminal
<1>1. PICK st : st = ExpiredStatus(x) OBVIOUS
<1>2. /\ st \in {"prepared", "transport_failed", "ambiguous"}
      /\ st = "prepared" => x.first = Never
      /\ st = "transport_failed" => x.proven
    BY <1>1 DEF ExpiredStatus
<1>3. PICK y : y = [x EXCEPT !.status = st, !.lease = 0, !.proven = FALSE] OBVIOUS
<1>4. y = [status |-> st, attempt |-> x.attempt, lease |-> 0,
           first |-> x.first, proven |-> FALSE, message |-> x.message]
    BY <1>3 DEF SlotRow
<1>5. 0 \in 0..(MaxTime + SlotLeaseLen) BY ReferralDeliveryAssumption
<1>6. y \in SlotRow BY <1>2, <1>4, <1>5 DEF SlotRow, SlotStatus
<1>7. Follows(x, y) /\ y.message = x.message /\ y.status \notin Terminal
    BY <1>2, <1>4 DEF Follows, TakenAsFailed, Terminal
<1>8. ExpiredSlot(x) = y BY <1>1, <1>3 DEF ExpiredSlot
<1> QED BY <1>6, <1>7, <1>8

LEMMA ClaimedForm ==
    ASSUME NEW x \in SlotRow, clock \in 0..MaxTime
    PROVE  /\ ClaimedSlot(x) \in SlotRow
           /\ Follows(x, ClaimedSlot(x))
           /\ ClaimedSlot(x).message = x.message
           /\ ClaimedSlot(x).status \notin Terminal
<1>1. PICK p \in BOOLEAN : p = (x.status = "transport_failed") OBVIOUS
<1>2. PICK n : n = x.attempt + 1 OBVIOUS
<1>3. PICK l : l = clock + SlotLeaseLen OBVIOUS
<1>4. PICK y : y = [x EXCEPT !.status = "sending", !.attempt = n, !.lease = l, !.proven = p] OBVIOUS
<1>5. y = [status |-> "sending", attempt |-> n, lease |-> l,
           first |-> x.first, proven |-> p, message |-> x.message]
    BY <1>4 DEF SlotRow
<1>6. n \in Nat BY <1>2 DEF SlotRow
<1>7. l \in 0..(MaxTime + SlotLeaseLen) BY <1>3, ReferralDeliveryAssumption
<1>8. y \in SlotRow BY <1>5, <1>6, <1>7 DEF SlotRow, SlotStatus
<1>9. Follows(x, y) /\ y.message = x.message /\ y.status \notin Terminal
    BY <1>1, <1>5 DEF Follows, TakenAsFailed, Terminal
<1>10. ClaimedSlot(x) = y BY <1>1, <1>2, <1>3, <1>4 DEF ClaimedSlot
<1> QED BY <1>8, <1>9, <1>10

LEMMA StartedForm ==
    ASSUME NEW x \in SlotRow, clock \in 0..MaxTime
    PROVE  /\ StartedSlot(x) \in SlotRow
           /\ StartedSlot(x).first = (IF x.first = Never THEN clock ELSE x.first)
           /\ StartedSlot(x).proven = FALSE
           /\ StartedSlot(x).status = x.status
           /\ StartedSlot(x).message = x.message
<1>1. PICK f : f = IF x.first = Never THEN clock ELSE x.first OBVIOUS
<1>2. PICK y : y = [x EXCEPT !.first = f, !.proven = FALSE] OBVIOUS
<1>3. y = [status |-> x.status, attempt |-> x.attempt, lease |-> x.lease,
           first |-> f, proven |-> FALSE, message |-> x.message]
    BY <1>2 DEF SlotRow
<1>4. f \in 0..MaxTime \union {Never} BY <1>1 DEF SlotRow
<1>5. y \in SlotRow BY <1>3, <1>4 DEF SlotRow
<1>6. StartedSlot(x) = y BY <1>1, <1>2 DEF StartedSlot
<1> QED BY <1>1, <1>3, <1>5, <1>6

\* The slot x after its attempt w ended with status st.
SlotOutcome(y, x, w, st) ==
    /\ y \in SlotRow /\ y.status = st /\ y.first = x.first /\ y.proven = x.proven
    /\ y.message = IF st = "provider_accepted" THEN w.message ELSE x.message

LEMMA FinalizedForm ==
    ASSUME NEW x \in SlotRow, NEW w \in DispatchRow, NEW st \in SlotStatus
    PROVE  SlotOutcome(FinalizedSlot(x, w, st), x, w, st)
<1>1. PICK m : m = IF st = "provider_accepted" THEN w.message ELSE x.message OBVIOUS
<1>2. PICK y : y = [x EXCEPT !.status = st, !.lease = 0, !.message = m] OBVIOUS
<1>3. y = [status |-> st, attempt |-> x.attempt, lease |-> 0,
           first |-> x.first, proven |-> x.proven, message |-> m]
    BY <1>2 DEF SlotRow
<1>4. m \in Nat BY <1>1 DEF SlotRow, DispatchRow
<1>5. 0 \in 0..(MaxTime + SlotLeaseLen) BY ReferralDeliveryAssumption
<1>6. y \in SlotRow BY <1>3, <1>4, <1>5 DEF SlotRow
<1>7. FinalizedSlot(x, w, st) = y BY <1>1, <1>2 DEF FinalizedSlot
<1> QED BY <1>1, <1>3, <1>6, <1>7 DEF SlotOutcome

-----------------------------------------------------------------------------
(* The RPCs, as what they make of the tables.                                *)

\* No attempt was started, no message recorded.
Quiet(d, e) ==
    \A r \in Revisions, s \in Slots :
        Follows(d.slot[r][s], e.slot[r][s]) /\ e.slot[r][s].message = d.slot[r][s].message

\* No revision is lost, and none is replaced.
Kept(d, e) ==
    \A r \in Revisions :
        /\ d.run[r] # "none" => e.run[r] # "none"
        /\ e.run[r] # "none" /\ ~IsHead(e, r) => d.run[r] # "none" /\ ~IsHead(d, r)

LEMMA SameKept ==
    ASSUME NEW d, NEW e, SameRevisions(d, e)
    PROVE  Kept(d, e)
BY HeadKept DEF Kept, SameRevisions

LEMMA KeptTransitive ==
    ASSUME NEW d, NEW e, NEW f, Kept(d, e), Kept(e, f)
    PROVE  Kept(d, f)
BY DEF Kept

LEMMA QuietTransitive ==
    ASSUME NEW d, NEW e, NEW f, Quiet(d, e), Quiet(e, f)
    PROVE  Quiet(d, f)
<1> SUFFICES ASSUME NEW r \in Revisions, NEW s \in Slots
             PROVE  /\ Follows(d.slot[r][s], f.slot[r][s])
                    /\ f.slot[r][s].message = d.slot[r][s].message
    BY DEF Quiet
<1>1. PICK x, y, z : x = d.slot[r][s] /\ y = e.slot[r][s] /\ z = f.slot[r][s] OBVIOUS
<1>2. Follows(x, y) /\ y.message = x.message /\ Follows(y, z) /\ z.message = y.message
    BY <1>1 DEF Quiet
<1>3. Follows(x, z) /\ z.message = x.message BY <1>2 DEF Follows
<1> QED BY <1>1, <1>3

LEMMA SameSlotsQuiet ==
    ASSUME NEW d, NEW e, e.slot = d.slot
    PROVE  Quiet(d, e)
BY DEF Quiet, Follows

LEMMA CreateTables ==
    ASSUME NEW d, Tables(d)
    PROVE  Tables(Create(d)) /\ Kept(d, Create(d)) /\ Quiet(d, Create(d))
           /\ Create(d).run[1] # "none"
           /\ \A q \in Revisions : d.run[q] # "none" => Create(d).run[q] = d.run[q]
<1>1. CASE 1 \in Existing(d)
    <2>1. Create(d) = d /\ d.run[1] # "none" BY <1>1 DEF Create, Existing
    <2>2. Kept(d, d) /\ Quiet(d, d) BY DEF Kept, Quiet, Follows
    <2> QED BY <2>1, <2>2
<1>2. CASE 1 \notin Existing(d)
    <2> DEFINE e == [run |-> [d.run EXCEPT ![1] = "prepared"], slot |-> d.slot, proposal |-> d.proposal]
    <2>1. DbTyped(d) BY DEF Tables
    <2>2. Create(d) = e BY <1>2, <2>1, DbExcept DEF Create
    <2>3. 1 \in Revisions /\ d.run[1] = "none" BY <1>2, FirstRevision DEF Existing
    <2>4. \A q \in Revisions : d.run[q] = "none"
        BY <2>3, FirstRevision DEF Tables, Consecutive, Revisions
    <2>5. d.run \in [Revisions -> RunStatus] BY <2>1 DEF DbTyped
    <2>6. /\ DbTyped(e) /\ e.slot = d.slot /\ e.proposal = d.proposal /\ e.run[1] = "prepared"
          /\ \A q \in Revisions \ {1} : e.run[q] = "none"
        BY <2>1, <2>3, <2>4, <2>5 DEF DbTyped, RunStatus
    <2> HIDE DEF e
    <2>7. IsHead(e, 1) BY <2>6, FirstRevision DEF IsHead, Revisions
    <2>8. \A q \in Revisions : IsHead(e, q) => q = 1 BY <2>6 DEF IsHead
    <2>9. Consecutive(e) BY <2>3, <2>6, <2>7, FirstRevision DEF Consecutive, Revisions
    <2>10. /\ \A s \in Slots : \A q \in Revisions : e.slot[q][s] = NewSlot
           /\ \A c \in Causes : \A q \in Revisions : e.proposal[q][c] = "none"
        BY <2>4, <2>6 DEF Tables, Unmade
    <2>11. Unmade(e) /\ Unpromoted(e) BY <2>10 DEF Unmade, Unpromoted
    <2>12. \A s \in Slots : e.slot[1][s].status = "prepared" BY <2>3, <2>10 DEF NewSlot
    <2>13. Obliged(e, 1)
        BY <2>3, <2>6, <2>10, <2>12 DEF Obliged, FailureFollowed, Obligation, Terminal, Causes
    <2>14. Tables(e) BY <2>6, <2>8, <2>9, <2>11, <2>13 DEF Tables
    <2>15. Kept(d, e) BY <2>4, <2>6, <2>7 DEF Kept
    <2>16. Quiet(d, e) BY <2>6, SameSlotsQuiet
    <2> QED BY <2>2, <2>4, <2>6, <2>14, <2>15, <2>16
<1> QED BY <1>1, <1>2

LEMMA ConflictTables ==
    ASSUME NEW d, NEW r \in Revisions, Tables(d), d.run[r] # "none",
           NEW causes \in {{}, PayloadChanged, ScopeChanged, PayloadChanged \union ScopeChanged}
    PROVE  Tables(Conflict(d, r, causes)) /\ SameRevisions(d, Conflict(d, r, causes))
           /\ Conflict(d, r, causes).slot = d.slot
<1>1. CASE causes = {} \/ d.run[r] = "delivered"
    BY <1>1 DEF Conflict, SameRevisions
<1>2. CASE causes # {} /\ d.run[r] # "delivered"
    <2>1. causes \intersect Recovery # {} BY <1>2 DEF PayloadChanged, ScopeChanged, Recovery
    <2>2. TablesBut(d, r) BY TablesAreBut
    <2>3. Conflict(d, r, causes) = Attention(Open(d, r, causes), r) BY <1>2 DEF Conflict
    <2> QED BY <2>1, <2>2, <2>3, AttentionTables
<1> QED BY <1>1, <1>2

LEMMA ResolveTables ==
    ASSUME NEW d, NEW r \in Revisions, Tables(d), d.run[r] # "none"
    PROVE  Tables(ResolveUnsafe(d, r)) /\ SameRevisions(d, ResolveUnsafe(d, r))
           /\ ResolveUnsafe(d, r).slot = d.slot
<1> DEFINE e == Attention(Open(d, r, {"recovery"}), r)
<1>1. {"recovery"} \intersect Recovery # {} BY DEF Recovery
<1>2. TablesBut(d, r) BY TablesAreBut
<1>3. Tables(e) /\ SameRevisions(d, e) /\ e.slot = d.slot BY <1>1, <1>2, AttentionTables
<1>4. ResolveUnsafe(d, r) \in {d, e} BY DEF ResolveUnsafe
<1>5. SameRevisions(d, d) BY DEF SameRevisions
<1> HIDE DEF e
<1> QED BY <1>3, <1>4, <1>5

\* Rewriting the slots of a revision.
LEMMA SlotRowsForm ==
    ASSUME NEW d, DbTyped(d), NEW r \in Revisions, NEW row \in [Slots -> SlotRow]
    PROVE  /\ DbTyped([d EXCEPT !.slot[r] = row])
           /\ [d EXCEPT !.slot[r] = row].run = d.run
           /\ [d EXCEPT !.slot[r] = row].proposal = d.proposal
           /\ [d EXCEPT !.slot[r] = row].slot[r] = row
           /\ \A q \in Revisions \ {r} : [d EXCEPT !.slot[r] = row].slot[q] = d.slot[q]
<1>1. PICK e : e = [d EXCEPT !.slot[r] = row] OBVIOUS
<1>2. e = [run |-> d.run, slot |-> [d.slot EXCEPT ![r] = row], proposal |-> d.proposal]
    BY <1>1, DbExcept
<1>3. /\ DbTyped(e) /\ e.run = d.run /\ e.proposal = d.proposal /\ e.slot[r] = row
      /\ \A q \in Revisions \ {r} : e.slot[q] = d.slot[q]
    BY <1>2 DEF DbTyped
<1> QED BY <1>1, <1>3

RowFollows(d, r, row) ==
    \A s \in Slots :
        /\ Follows(d.slot[r][s], row[s])
        /\ row[s].message = d.slot[r][s].message
        /\ row[s].status \in Terminal => d.slot[r][s].status \in Terminal

LEMMA RowsTables ==
    ASSUME NEW d, NEW e, NEW r \in Revisions, NEW row \in [Slots -> SlotRow], Tables(d), d.run[r] # "none",
           e = [d EXCEPT !.slot[r] = row], RowFollows(d, r, row)
    PROVE  Tables(e) /\ SameRevisions(d, e) /\ Quiet(d, e) /\ e.run = d.run
<1>1. DbTyped(d) BY DEF Tables
<1>2. /\ DbTyped(e) /\ e.run = d.run /\ e.proposal = d.proposal /\ e.slot[r] = row
      /\ \A q \in Revisions \ {r} : e.slot[q] = d.slot[q]
    BY <1>1, SlotRowsForm
<1>3. Tables(e) BY <1>2, SlotsOfOne DEF RowFollows
<1>4. SameRevisions(d, e) BY <1>2 DEF SameRevisions
<1>5. Quiet(d, e)
    <2> SUFFICES ASSUME NEW q \in Revisions, NEW s \in Slots
                 PROVE  /\ Follows(d.slot[q][s], e.slot[q][s])
                        /\ e.slot[q][s].message = d.slot[q][s].message
        BY DEF Quiet
    <2>1. CASE q = r BY <1>2, <2>1 DEF RowFollows
    <2>2. CASE q # r
        <3>1. e.slot[q] = d.slot[q] BY <1>2, <2>2
        <3> QED BY <3>1 DEF Follows
    <2> QED BY <2>1, <2>2
<1> QED BY <1>2, <1>3, <1>4, <1>5

LEMMA ExpireTables ==
    ASSUME NEW d, NEW r \in Revisions, Tables(d), d.run[r] # "none"
    PROVE  Tables(Expire(d, r)) /\ SameRevisions(d, Expire(d, r)) /\ Quiet(d, Expire(d, r))
<1> DEFINE row == [s \in Slots |->
                      LET x == d.slot[r][s] IN
                      IF x.status = "sending" /\ x.lease <= clock THEN ExpiredSlot(x) ELSE x]
<1>1. ASSUME NEW s \in Slots
      PROVE  /\ row[s] \in SlotRow
             /\ Follows(d.slot[r][s], row[s])
             /\ row[s].message = d.slot[r][s].message
             /\ row[s].status \in Terminal => d.slot[r][s].status \in Terminal
    <2>1. d.slot[r][s] \in SlotRow BY DEF Tables, DbTyped
    <2>2. PICK x \in SlotRow : x = d.slot[r][s] BY <2>1
    <2>3. row[s] = IF x.status = "sending" /\ x.lease <= clock THEN ExpiredSlot(x) ELSE x BY <2>2
    <2>4. CASE row[s] = x BY <2>2, <2>4 DEF Follows
    <2>5. CASE x.status = "sending" /\ row[s] = ExpiredSlot(x) BY <2>2, <2>5, ExpiredForm
    <2> QED BY <2>3, <2>4, <2>5
<1>2. row \in [Slots -> SlotRow] BY <1>1
<1>3. Expire(d, r) = [d EXCEPT !.slot[r] = row] BY DEF Expire
<1> HIDE DEF row
<1>4. PICK e, new : e = Expire(d, r) /\ new = row OBVIOUS
<1>5. new \in [Slots -> SlotRow] /\ e = [d EXCEPT !.slot[r] = new] BY <1>2, <1>3, <1>4
<1>6. RowFollows(d, r, new) BY <1>1, <1>4 DEF RowFollows
<1>7. Tables(e) /\ SameRevisions(d, e) /\ Quiet(d, e) /\ e.run = d.run
    BY <1>5, <1>6, RowsTables
<1> QED BY <1>4, <1>7

LEMMA ClaimTables ==
    ASSUME NEW d, NEW r \in Revisions, Tables(d), d.run[r] # "none", clock \in 0..MaxTime
    PROVE  /\ Tables(ClaimSlots(d, r)) /\ SameRevisions(d, ClaimSlots(d, r))
           /\ Quiet(d, ClaimSlots(d, r))
           /\ ClaimSlots(d, r).run = d.run
<1> DEFINE row == [s \in Slots |->
                      IF s \in ClaimedSlots(d, r) THEN ClaimedSlot(d.slot[r][s]) ELSE d.slot[r][s]]
<1>1. ASSUME NEW s \in Slots
      PROVE  /\ row[s] \in SlotRow
             /\ Follows(d.slot[r][s], row[s])
             /\ row[s].message = d.slot[r][s].message
             /\ row[s].status \in Terminal => d.slot[r][s].status \in Terminal
    <2>1. d.slot[r][s] \in SlotRow BY DEF Tables, DbTyped
    <2>2. PICK x \in SlotRow : x = d.slot[r][s] BY <2>1
    <2>3. row[s] = IF s \in ClaimedSlots(d, r) THEN ClaimedSlot(x) ELSE x BY <2>2
    <2>4. CASE row[s] = x BY <2>2, <2>4 DEF Follows
    <2>5. CASE row[s] = ClaimedSlot(x) BY <2>2, <2>5, ClaimedForm
    <2> QED BY <2>3, <2>4, <2>5
<1>2. row \in [Slots -> SlotRow] BY <1>1
<1>3. ClaimSlots(d, r) = [d EXCEPT !.slot[r] = row] BY DEF ClaimSlots
<1> HIDE DEF row
<1>4. PICK e, new : e = ClaimSlots(d, r) /\ new = row OBVIOUS
<1>5. new \in [Slots -> SlotRow] /\ e = [d EXCEPT !.slot[r] = new] BY <1>2, <1>3, <1>4
<1>6. RowFollows(d, r, new) BY <1>1, <1>4 DEF RowFollows
<1>7. Tables(e) /\ SameRevisions(d, e) /\ Quiet(d, e) /\ e.run = d.run
    BY <1>5, <1>6, RowsTables
<1> QED BY <1>4, <1>7

LEMMA RefreshKept ==
    ASSUME NEW d, NEW r \in Revisions, Tables(d), d.run[r] # "none"
    PROVE  /\ Tables(Refresh(d, r)) /\ SameRevisions(d, Refresh(d, r)) /\ Quiet(d, Refresh(d, r))
<1>1. TablesBut(d, r) /\ (IsHead(d, r) => FailureFollowed(d, r)) BY TablesAreBut
<1>2. Refresh(d, r).slot = d.slot /\ Tables(Refresh(d, r)) /\ SameRevisions(d, Refresh(d, r))
    BY <1>1, RefreshTables
<1> QED BY <1>2, SameSlotsQuiet

\* All that employee_referral_prepare_and_claim makes of the tables.
LEMMA PreparedTables ==
    ASSUME NEW d, NEW r \in Revisions, Tables(d), clock \in 0..MaxTime,
           r = 1 \/ r \in Existing(d),
           NEW causes \in {{}, PayloadChanged, ScopeChanged, PayloadChanged \union ScopeChanged}
    PROVE  LET c == ResolveUnsafe(Expire(Conflict(Create(d), r, causes), r), r)
               e == ClaimSlots(c, r)
               f == RefreshUnlessAttention(e, r)
           IN  /\ Tables(c) /\ Tables(e) /\ Tables(f)
               /\ Kept(d, f) /\ Quiet(d, f)
               /\ f.run[r] # "none"
<1>1. PICK a : a = Create(d) OBVIOUS
<1>2. PICK b : b = Conflict(a, r, causes) OBVIOUS
<1>3. PICK x : x = Expire(b, r) OBVIOUS
<1>4. PICK c : c = ResolveUnsafe(x, r) OBVIOUS
<1>5. PICK e : e = ClaimSlots(c, r) OBVIOUS
<1>6. PICK f : f = RefreshUnlessAttention(e, r) OBVIOUS
<1>7. Tables(a) /\ Kept(d, a) /\ Quiet(d, a) /\ a.run[r] # "none"
    BY <1>1, CreateTables, FirstRevision DEF Existing
<1>8. Tables(b) /\ SameRevisions(a, b) /\ Quiet(a, b) BY <1>2, <1>7, ConflictTables, SameSlotsQuiet
<1>9. b.run[r] # "none" BY <1>7, <1>8 DEF SameRevisions
<1>10. Tables(x) /\ SameRevisions(b, x) /\ Quiet(b, x) BY <1>3, <1>8, <1>9, ExpireTables
<1>11. x.run[r] # "none" BY <1>9, <1>10 DEF SameRevisions
<1>12. Tables(c) /\ SameRevisions(x, c) /\ Quiet(x, c) BY <1>4, <1>10, <1>11, ResolveTables, SameSlotsQuiet
<1>13. c.run[r] # "none" BY <1>11, <1>12 DEF SameRevisions
<1>14. Tables(e) /\ SameRevisions(c, e) /\ Quiet(c, e) BY <1>5, <1>12, <1>13, ClaimTables
<1>15. e.run[r] # "none" BY <1>13, <1>14 DEF SameRevisions
<1>16. Tables(f) /\ SameRevisions(e, f) /\ Quiet(e, f)
    <2>1. CASE e.run[r] = "attention_required"
        <3>1. f = e BY <1>6, <2>1 DEF RefreshUnlessAttention
        <3> QED BY <1>14, <3>1, SameSlotsQuiet DEF SameRevisions
    <2>2. CASE e.run[r] # "attention_required"
        BY <1>6, <1>14, <1>15, <2>2, RefreshKept DEF RefreshUnlessAttention
    <2> QED BY <2>1, <2>2
<1>17. f.run[r] # "none" BY <1>15, <1>16 DEF SameRevisions
<1>18. Kept(d, f)
    <2>1. Kept(a, b) /\ Kept(b, x) /\ Kept(x, c) /\ Kept(c, e) /\ Kept(e, f)
        BY <1>8, <1>10, <1>12, <1>14, <1>16, SameKept
    <2> QED BY <1>7, <2>1, KeptTransitive
<1>19. Quiet(d, f)
    <2>1. Quiet(d, x) BY <1>7, <1>8, <1>10, QuietTransitive
    <2>2. Quiet(d, e) BY <1>12, <1>14, <2>1, QuietTransitive
    <2> QED BY <1>16, <2>2, QuietTransitive
<1> QED BY <1>1, <1>2, <1>3, <1>4, <1>5, <1>6, <1>12, <1>14, <1>16, <1>17, <1>18, <1>19

\* The tables e after slot s of revision r became y.
SlotSet(e, r, s, y) ==
    /\ TablesBut(e, r)
    /\ SameRevisions(Db, e)
    /\ e.slot[r][s] = y
    /\ \A q \in Revisions, t \in Slots : <<q, t>> # <<r, s>> => e.slot[q][t] = slot[q][t]
    /\ (y.status \in Terminal => slot[r][s].status \in Terminal) => Tables(e)

LEMMA WithSlotTables ==
    ASSUME Tables(Db), NEW r \in Revisions, NEW s \in Slots, run[r] # "none", NEW y \in SlotRow
    PROVE  SlotSet(WithSlot(r, s, y), r, s, y)
<1>1. DbTyped(Db) /\ Db.run = run /\ Db.slot = slot /\ Db.proposal = proposal
    BY DEF Tables, Db
<1>2. slot \in [Revisions -> [Slots -> SlotRow]] BY <1>1 DEF DbTyped
<1>3. PICK row : row = [slot[r] EXCEPT ![s] = y] OBVIOUS
<1>4. /\ row \in [Slots -> SlotRow] /\ row[s] = y
      /\ \A t \in Slots \ {s} : row[t] = slot[r][t]
    BY <1>2, <1>3
<1>5. PICK e : e = [Db EXCEPT !.slot[r] = row] OBVIOUS
<1>6. WithSlot(r, s, y) = e BY <1>1, <1>3, <1>5 DEF WithSlot
<1>7. /\ DbTyped(e) /\ e.run = run /\ e.proposal = proposal /\ e.slot[r] = row
      /\ \A q \in Revisions \ {r} : e.slot[q] = slot[q]
    BY <1>1, <1>4, <1>5, SlotRowsForm
<1>8. SameRevisions(Db, e) BY <1>1, <1>7 DEF SameRevisions
<1>9. \A q \in Revisions, t \in Slots : <<q, t>> # <<r, s>> => e.slot[q][t] = slot[q][t]
    BY <1>4, <1>7
<1>10. TablesBut(e, r) BY <1>1, <1>7, SlotsOfOne
<1>11. ASSUME y.status \in Terminal => slot[r][s].status \in Terminal PROVE Tables(e)
    <2>1. \A t \in Slots : e.slot[r][t].status \in Terminal => Db.slot[r][t].status \in Terminal
        BY <1>1, <1>4, <1>7, <1>11
    <2> QED BY <1>1, <1>7, <2>1, SlotsOfOne
<1> QED BY <1>4, <1>6, <1>7, <1>8, <1>9, <1>10, <1>11 DEF SlotSet

LEMMA OpenBut ==
    ASSUME NEW d, NEW r \in Revisions, NEW causes, TablesBut(d, r), d.run[r] # "none", IsHead(d, r),
           causes \intersect Recovery # {}
    PROVE  LET o == Open(d, r, causes) IN
           /\ TablesBut(o, r) /\ SameRevisions(d, o) /\ o.run = d.run /\ o.slot = d.slot
           /\ Obligation(o, r)
<1>1. DbTyped(d) BY DEF TablesBut
<1>2. PICK o : o = Open(d, r, causes) OBVIOUS
<1>3. /\ DbTyped(o) /\ o.run = d.run /\ o.slot = d.slot
      /\ \A q \in Revisions \ {r} : o.proposal[q] = d.proposal[q]
      /\ \A c \in Causes : o.proposal[r][c] =
            IF c \in causes /\ ~Pending(d, r, c) THEN "open" ELSE d.proposal[r][c]
    BY <1>1, <1>2, OpenForm
<1>4. SameRevisions(d, o) BY <1>3 DEF SameRevisions
<1>5. \A q \in Revisions : IsHead(o, q) <=> IsHead(d, q) BY <1>4, HeadKept
<1>6. Consecutive(o) BY <1>4, ConsecutiveKept DEF TablesBut
<1>7. Unmade(o) BY <1>3 DEF TablesBut, Unmade
<1>8. Unpromoted(o) BY <1>3, <1>5 DEF TablesBut, Unpromoted, Causes
<1>9. ASSUME NEW q \in Revisions \ {r}, IsHead(o, q) PROVE Obliged(o, q)
    <2>1. Obliged(d, q) BY <1>5, <1>9 DEF TablesBut
    <2>2. o.proposal[q] = d.proposal[q] BY <1>3
    <2> QED BY <1>3, <2>1, <2>2 DEF Obliged, FailureFollowed, Obligation
<1>10. Obligation(o, r)
    <2>1. PICK c \in Recovery : c \in causes OBVIOUS
    <2>2. c \in Causes BY DEF Causes
    <2>3. d.proposal[r][c] \in {"none", "open"}
        BY <1>1, <2>2 DEF DbTyped, TablesBut, Unpromoted, ProposalStatus
    <2>4. o.proposal[r][c] = "open" BY <1>3, <2>1, <2>2, <2>3 DEF Pending
    <2> QED BY <2>4 DEF Obligation
<1> QED BY <1>2, <1>3, <1>4, <1>6, <1>7, <1>8, <1>9, <1>10 DEF TablesBut

\* A delivery that failed for good, and its follow-up.
LEMMA EventTables ==
    ASSUME Tables(Db), NEW r \in Revisions, NEW s \in Slots, run[r] # "none", NEW y \in SlotRow
    PROVE  LET d == Refresh(WithSlot(r, s, y), r)
               f == IF y.status \in Terminal /\ slot[r][s].status \notin Terminal THEN Oblige(d) ELSE d
           IN  Tables(f) /\ SameRevisions(Db, f) /\ f.slot = WithSlot(r, s, y).slot
<1>1. PICK e : e = WithSlot(r, s, y) OBVIOUS
<1>2. PICK d : d = Refresh(e, r) OBVIOUS
<1>3. /\ TablesBut(e, r) /\ SameRevisions(Db, e) /\ e.slot[r][s] = y
      /\ (y.status \in Terminal => slot[r][s].status \in Terminal) => Tables(e)
    BY <1>1, WithSlotTables DEF SlotSet
<1>4. e.run[r] # "none" BY <1>3 DEF SameRevisions, Db
<1>5. /\ TablesBut(d, r) /\ SameRevisions(e, d) /\ d.slot = e.slot /\ RefreshedRow(e, r, d)
    BY <1>2, <1>3, <1>4, RefreshBut
<1>6. SameRevisions(Db, d) BY <1>3, <1>5 DEF SameRevisions
<1>7. CASE ~(y.status \in Terminal /\ slot[r][s].status \notin Terminal)
    <2>1. Tables(d) BY <1>2, <1>3, <1>4, <1>7, RefreshKept
    <2> QED BY <1>1, <1>2, <1>5, <1>6, <1>7, <2>1
<1>8. CASE y.status \in Terminal /\ slot[r][s].status \notin Terminal
    <2>1. d.run[r] # "none" /\ Consecutive(d) BY <1>4, <1>5 DEF SameRevisions, TablesBut
    <2>2. PICK h \in Revisions : h = Head(d) /\ IsHead(d, h) BY <2>1, HeadExists
    <2>3. TablesBut(d, h) /\ (d.run[h] = "delivered" => Tables(d))
        <3>1. CASE h = r
            <4>1. e.slot[r][s].status \in Terminal BY <1>3, <1>8
            <4>2. Aggregate(e, r) = "attention_required" BY <4>1, AggregateStatus
            <4>3. d.run[r] = "attention_required" BY <1>5, <4>2 DEF RefreshedRow
            <4> QED BY <1>5, <3>1, <4>3
        <3>2. CASE h # r
            <4>1. ~IsHead(d, r) BY <2>1, <2>2, <3>2, HeadIsOne
            <4>2. Tables(d) BY <1>5, <4>1 DEF TablesBut, Tables
            <4> QED BY <4>2, TablesAreBut
        <3> QED BY <3>1, <3>2
    <2>4. PICK f : f = Oblige(d) OBVIOUS
    <2>5. Tables(f) /\ SameRevisions(d, f) /\ f.slot = d.slot
        <3>1. CASE d.run[h] = "delivered"
            <4>1. f = d BY <2>2, <2>4, <3>1 DEF Oblige
            <4> QED BY <2>3, <3>1, <4>1 DEF SameRevisions
        <3>2. CASE d.run[h] # "delivered"
            <4>1. f = Attention(Open(d, h, {"recovery"}), h) BY <2>2, <2>4, <3>2 DEF Oblige
            <4>2. {"recovery"} \intersect Recovery # {} BY DEF Recovery
            <4>3. d.run[h] # "none" BY <2>2 DEF IsHead
            <4> QED BY <2>3, <4>1, <4>2, <4>3, AttentionTables
        <3> QED BY <3>1, <3>2
    <2>6. SameRevisions(Db, f) BY <1>6, <2>5 DEF SameRevisions
    <2> QED BY <1>1, <1>2, <1>5, <1>8, <2>4, <2>5, <2>6
<1> QED BY <1>7, <1>8

\* The deadline of a delivery.
LEMMA DeadlineTables ==
    ASSUME Tables(Db), NEW r \in Revisions, NEW s \in Slots, run[r] # "none", NEW y \in SlotRow
    PROVE  LET d == Refresh(WithSlot(r, s, y), r)
               head == Head(Db)
               f == IF r # head /\ run[head] = "delivered" THEN d
                    ELSE Refresh(Open(d, head, {"recovery"}), head)
           IN  Tables(f) /\ SameRevisions(Db, f) /\ f.slot = WithSlot(r, s, y).slot
<1>1. PICK e : e = WithSlot(r, s, y) OBVIOUS
<1>2. PICK d : d = Refresh(e, r) OBVIOUS
<1>3. PICK h \in Revisions : h = Head(Db) /\ IsHead(Db, h)
    <2>1. Consecutive(Db) /\ Db.run[r] # "none" BY DEF Tables, Db
    <2> QED BY <2>1, HeadExists
<1>4. TablesBut(e, r) /\ SameRevisions(Db, e) BY <1>1, WithSlotTables DEF SlotSet
<1>5. e.run[r] # "none" BY <1>4 DEF SameRevisions, Db
<1>6. /\ TablesBut(d, r) /\ SameRevisions(e, d) /\ d.slot = e.slot
    BY <1>2, <1>4, <1>5, RefreshBut
<1>7. SameRevisions(Db, d) BY <1>4, <1>6 DEF SameRevisions
<1>8. IsHead(d, h) BY <1>3, <1>7, HeadKept
<1>9. ASSUME h # r PROVE Tables(d)
    <2>1. Consecutive(d) BY <1>6 DEF TablesBut
    <2>2. ~IsHead(d, r) BY <1>8, <1>9, <2>1, HeadIsOne
    <2> QED BY <1>6, <2>2 DEF TablesBut, Tables
<1>10. CASE r # h /\ run[h] = "delivered"
    BY <1>1, <1>2, <1>3, <1>6, <1>7, <1>9, <1>10
<1>11. CASE ~(r # h /\ run[h] = "delivered")
    <2>1. TablesBut(d, h) BY <1>6, <1>9, TablesAreBut
    <2>2. d.run[h] # "none" BY <1>8 DEF IsHead
    <2>3. {"recovery"} \intersect Recovery # {} BY DEF Recovery
    <2>4. PICK o : o = Open(d, h, {"recovery"}) OBVIOUS
    <2>5. TablesBut(o, h) /\ SameRevisions(d, o) /\ o.run = d.run /\ o.slot = d.slot /\ Obligation(o, h)
        BY <1>8, <2>1, <2>2, <2>3, <2>4, OpenBut
    <2>6. PICK f : f = Refresh(o, h) OBVIOUS
    <2>7. FailureFollowed(o, h) BY <2>5 DEF FailureFollowed
    <2>8. Tables(f) /\ SameRevisions(o, f) /\ f.slot = o.slot BY <2>2, <2>5, <2>6, <2>7, RefreshTables
    <2>9. SameRevisions(Db, f) BY <1>7, <2>5, <2>8 DEF SameRevisions
    <2> QED BY <1>1, <1>2, <1>3, <1>6, <1>11, <2>4, <2>5, <2>6, <2>8, <2>9
<1> QED BY <1>10, <1>11

-----------------------------------------------------------------------------
(* Steps.                                                                    *)

LEMMA Committed ==
    ASSUME NEW d, DbTyped(d), Commit(d)
    PROVE  Db' = d /\ run' = d.run /\ slot' = d.slot /\ proposal' = d.proposal
BY DbForm DEF Commit, Db

\* Of the type invariant, what is not about the tables.
Others ==
    /\ clock \in 0..MaxTime
    /\ dispatch \in [Invocations -> [Slots -> DispatchRow]]
    /\ key \in [Revisions -> [Slots -> 0..(MaxTime + Window)]]
    /\ sent \in [Revisions -> [Slots -> Nat]]
    /\ misjudged \subseteq Revisions \X Slots
    /\ overran \subseteq Revisions \X Slots
    /\ acked \subseteq Revisions

LEMMA TypeParts == ReferralTypeOK <=> DbTyped(Db) /\ Others
<1>1. DbTyped(Db) <=> /\ run \in [Revisions -> RunStatus]
                      /\ slot \in [Revisions -> [Slots -> SlotRow]]
                      /\ proposal \in [Revisions -> [Causes -> ProposalStatus]]
    BY DEF DbTyped, Db
<1> QED BY <1>1 DEF ReferralTypeOK, Others

LEMMA TypePartsNext == ReferralTypeOK' <=> DbTyped(Db') /\ Others'
<1>1. DbTyped(Db') <=> /\ run' \in [Revisions -> RunStatus]
                       /\ slot' \in [Revisions -> [Slots -> SlotRow]]
                       /\ proposal' \in [Revisions -> [Causes -> ProposalStatus]]
    BY DEF DbTyped, Db
<1> QED BY <1>1 DEF ReferralTypeOK, Others

\* No attempt of the slot starts in a step.
NoStart(r, s) ==
    \A i \in Invocations : Posting(i, r, s)' =>
        Posting(i, r, s) /\ dispatch'[i][s].at = dispatch[i][s].at

LEMMA OnceCarried ==
    ASSUME ReferralTypeOK, ReferralTypeOK', NEW r \in Revisions, NEW s \in Slots, Once(r, s),
           slot'[r][s].first = slot[r][s].first, NoStart(r, s), FailedUnsent(r, s)',
           sent'[r][s] = sent[r][s], key'[r][s] = key[r][s], clock <= clock'
    PROVE  Once(r, s)'
<1>1. PICK x, y : x = slot[r][s] /\ y = slot'[r][s] OBVIOUS
<1>2. y.first = x.first BY <1>1
<1>3. Keyed(r, s)'
    <2>1. x.first \in Int /\ clock \in Int /\ clock' \in Int
        BY <1>1 DEF ReferralTypeOK, SlotRow, Never
    <2> QED BY <1>1, <1>2, <2>1 DEF Once, Keyed
<1>4. InTime(r, s)'
    <2> SUFFICES ASSUME NEW i \in Invocations, Posting(i, r, s)'
                 PROVE  /\ y.first # Never
                        /\ y.first <= dispatch'[i][s].at
                        /\ dispatch'[i][s].at <= clock'
                        /\ sent'[r][s] = 1 => dispatch'[i][s].at + Margin < key'[r][s]
        BY <1>1 DEF InTime
    <2>1. Posting(i, r, s) /\ dispatch'[i][s].at = dispatch[i][s].at BY DEF NoStart
    <2>2. /\ x.first # Never /\ x.first <= dispatch[i][s].at /\ dispatch[i][s].at <= clock
          /\ sent[r][s] = 1 => dispatch[i][s].at + Margin < key[r][s]
        BY <1>1, <2>1 DEF Once, InTime
    <2>3. dispatch[i][s].at \in Int /\ clock \in Int /\ clock' \in Int
        BY DEF ReferralTypeOK, DispatchRow
    <2> QED BY <1>2, <2>1, <2>2, <2>3
<1>5. Overlap(r, s)' BY DEF Once, Overlap, NoStart
<1> QED BY <1>3, <1>4, <1>5 DEF Once

LEMMA OnceQuiet ==
    ASSUME ReferralTypeOK, ReferralTypeOK', NEW r \in Revisions, NEW s \in Slots, Once(r, s),
           Follows(slot[r][s], slot'[r][s]), NoStart(r, s),
           sent'[r][s] = sent[r][s], key'[r][s] = key[r][s], clock <= clock'
    PROVE  Once(r, s)'
<1>1. PICK x, y : x = slot[r][s] /\ y = slot'[r][s] OBVIOUS
<1>2. y.first = x.first /\ (TakenAsFailed(y) => TakenAsFailed(x)) BY <1>1 DEF Follows
<1>3. FailedUnsent(r, s)'
    <2> SUFFICES ASSUME TakenAsFailed(y)
                 PROVE  sent'[r][s] = 0 /\ \A i \in Invocations : ~Posting(i, r, s)'
        BY <1>1 DEF FailedUnsent
    <2>1. sent[r][s] = 0 /\ \A i \in Invocations : ~Posting(i, r, s)
        BY <1>1, <1>2 DEF Once, FailedUnsent
    <2> QED BY <2>1 DEF NoStart
<1> QED BY <1>1, <1>2, <1>3, OnceCarried

LEMMA RecordedQuiet ==
    ASSUME NEW r \in Revisions, NEW s \in Slots, Recorded(r, s), ReferralTypeOK, ReferralTypeOK',
           Follows(slot[r][s], slot'[r][s]),
           slot'[r][s].message = slot[r][s].message, key'[r][s] = key[r][s], sent[r][s] <= sent'[r][s]
    PROVE  Recorded(r, s)'
<1>1. PICK x, y : x = slot[r][s] /\ y = slot'[r][s] OBVIOUS
<1>2. /\ x.status = "prepared" => x.first = Never
      /\ x.status \in {"delivered", "bounced"} => x.message > 0
      /\ x.message > 0 => sent[r][s] > 0
      /\ key'[r][s] > 0 => sent[r][s] > 0
    BY <1>1 DEF Recorded
<1>3. sent[r][s] \in Nat /\ sent'[r][s] \in Nat BY DEF ReferralTypeOK
<1>4. /\ y.status = "prepared" => y.first = Never
      /\ y.status \in {"delivered", "bounced"} => y.message > 0
      /\ y.message > 0 => sent'[r][s] > 0
      /\ key'[r][s] > 0 => sent'[r][s] > 0
    BY <1>1, <1>2, <1>3 DEF Follows
<1> QED BY <1>1, <1>4 DEF Recorded

\* The revision is replaced in no step that keeps the revisions.
LEMMA ReplacedQuiet ==
    ASSUME NEW r \in Revisions, NEW s \in Slots, Replaced(r, s), ReferralTypeOK, ReferralTypeOK',
           Kept(Db, Db'), NoStart(r, s), sent[r][s] <= sent'[r][s],
           Excused \subseteq Excused', acked \subseteq acked'
    PROVE  Replaced(r, s)'
<1> SUFFICES ASSUME run'[r] # "none", ~IsHead(Db', r), r \notin acked', <<r, s>> \notin Excused',
                    NEW i \in Invocations, Posting(i, r, s)'
             PROVE  sent'[r][s] > 0
    BY DEF Replaced
<1>1. run[r] # "none" /\ ~IsHead(Db, r) BY DEF Kept, Db
<1>2. Posting(i, r, s) BY DEF NoStart
<1>3. sent[r][s] > 0 BY <1>1, <1>2 DEF Replaced
<1>4. sent[r][s] \in Nat /\ sent'[r][s] \in Nat BY DEF ReferralTypeOK
<1> QED BY <1>3, <1>4

\* v is the attempt w, given up by its invocation.
Adrift(w, v) ==
    w.pc = "started" /\ v.pc = "adrift" /\ v.revision = w.revision /\ v.at = w.at

\* A step that starts no attempt and sends nothing.
Calm ==
    /\ Quiet(Db, Db') /\ Kept(Db, Db')
    /\ UNCHANGED <<key, sent, misjudged, overran, acked>>
    /\ clock <= clock'
    /\ \A i \in Invocations, s \in Slots :
          \/ dispatch'[i][s] = dispatch[i][s]
          \/ Adrift(dispatch[i][s], dispatch'[i][s])
          \/ dispatch'[i][s].pc = "idle"
          \/ dispatch'[i][s].pc = "claimed" /\ run'[dispatch'[i][s].revision] # "none"

LEMMA CalmStep ==
    ASSUME ReferralIInv, ReferralTypeOK', Tables(Db'), Calm
    PROVE  ReferralIInv'
<1>1. ReferralTypeOK BY DEF ReferralIInv
<1>2. ASSUME NEW r \in Revisions, NEW s \in Slots
      PROVE  /\ NoStart(r, s) /\ Follows(slot[r][s], slot'[r][s])
             /\ slot'[r][s].message = slot[r][s].message
    BY DEF Calm, NoStart, Posting, Adrift, Quiet, Db
<1>3. OnceUnlessExcused'
    <2> SUFFICES ASSUME NEW r \in Revisions, NEW s \in Slots, <<r, s>> \notin Excused'
                 PROVE  Once(r, s)'
        BY DEF OnceUnlessExcused
    <2>1. Once(r, s) BY DEF ReferralIInv, OnceUnlessExcused, Calm, Excused
    <2>2. sent' = sent /\ key' = key /\ clock <= clock' BY DEF Calm
    <2> QED BY <1>1, <1>2, <2>1, <2>2, OnceQuiet
<1>4. Late'
    <2> SUFFICES ASSUME NEW r \in Revisions, NEW s \in Slots
                 PROVE  Recorded(r, s)' /\ Replaced(r, s)'
        BY DEF Late
    <2>1. Recorded(r, s) /\ Replaced(r, s) BY DEF ReferralIInv, Late
    <2>2. sent[r][s] <= sent'[r][s] BY <1>1 DEF Calm, ReferralTypeOK
    <2>3. Kept(Db, Db') /\ Excused' = Excused /\ acked' = acked /\ key' = key BY DEF Calm, Excused
    <2>4. Recorded(r, s)' BY <1>1, <1>2, <2>1, <2>2, <2>3, RecordedQuiet
    <2>5. Replaced(r, s)' BY <1>1, <1>2, <2>1, <2>2, <2>3, ReplacedQuiet
    <2> QED BY <2>4, <2>5
<1>5. Attempts'
    <2> SUFFICES ASSUME NEW i \in Invocations, NEW s \in Slots
                 PROVE  Attempting(i, s)'
        BY DEF Attempts
    <2>1. Attempting(i, s) BY DEF ReferralIInv, Attempts
    <2>2. dispatch[i][s].revision \in Revisions BY <1>1 DEF ReferralTypeOK, DispatchRow
    <2>3. run[dispatch[i][s].revision] # "none" => run'[dispatch[i][s].revision] # "none"
        BY <2>2 DEF Calm, Kept, Db
    <2>4. CASE dispatch'[i][s] = dispatch[i][s] BY <2>1, <2>3, <2>4 DEF Attempting, Calm
    <2>5. CASE dispatch'[i][s].pc = "idle" BY <2>5 DEF Attempting
    <2>6. CASE dispatch'[i][s].pc = "claimed" /\ run'[dispatch'[i][s].revision] # "none"
        BY <2>6 DEF Attempting
    <2>7. CASE Adrift(dispatch[i][s], dispatch'[i][s]) BY <2>1, <2>3, <2>7 DEF Attempting, Adrift
    <2> QED BY <2>4, <2>5, <2>6, <2>7 DEF Calm
<1> QED BY <1>3, <1>4, <1>5 DEF ReferralIInv

LEMMA Parts ==
    ASSUME ReferralIInv
    PROVE  /\ Tables(Db) /\ DbTyped(Db) /\ Others /\ ReferralTypeOK
           /\ OnceUnlessExcused /\ Late /\ Attempts
BY TypeParts DEF ReferralIInv

LEMMA SameTables ==
    ASSUME db' = db
    PROVE  Db' = Db /\ Quiet(Db, Db') /\ Kept(Db, Db')
<1>1. Db' = Db BY DEF db, Db
<1> QED BY <1>1 DEF Quiet, Follows, Kept

LEMMA TickStep ==
    ASSUME ReferralIInv, ReferralTick
    PROVE  ReferralIInv'
<1>1. Tables(Db) /\ DbTyped(Db) /\ Others BY Parts
<1>2. Db' = Db /\ Quiet(Db, Db') /\ Kept(Db, Db') BY SameTables DEF ReferralTick
<1>3. UNCHANGED <<dispatch, key, sent, misjudged, overran, acked>> BY DEF ReferralTick, mail, history
<1>4. clock \in 0..MaxTime /\ clock' = clock + 1 /\ clock < MaxTime BY <1>1 DEF ReferralTick, Others
<1>5. MaxTime \in Nat BY ReferralDeliveryAssumption
<1>6. clock' \in 0..MaxTime /\ clock <= clock' BY <1>4, <1>5
<1>7. Others' BY <1>1, <1>3, <1>6 DEF Others
<1>8. ReferralTypeOK' BY <1>1, <1>2, <1>7, TypePartsNext
<1>9. Calm BY <1>2, <1>3, <1>6 DEF Calm
<1>10. Tables(Db') BY <1>1, <1>2
<1> QED BY <1>8, <1>9, <1>10, CalmStep

\* A step of the tables alone.
LEMMA TablesStep ==
    ASSUME ReferralIInv, NEW d, Tables(d), SameRevisions(Db, d), Quiet(Db, d), Commit(d),
           UNCHANGED <<clock, dispatch, mail, history>>
    PROVE  ReferralIInv'
<1>1. Others BY Parts
<1>2. Db' = d BY Committed DEF Tables
<1>3. UNCHANGED <<clock, dispatch, key, sent, misjudged, overran, acked>> BY DEF mail, history
<1>4. Others' BY <1>1, <1>3 DEF Others
<1>5. ReferralTypeOK' BY <1>2, <1>4, TypePartsNext DEF Tables
<1>6. Kept(Db, Db') BY <1>2, SameKept
<1>7. clock <= clock' BY <1>1, <1>3 DEF Others
<1>8. Calm BY <1>2, <1>3, <1>6, <1>7 DEF Calm
<1> QED BY <1>2, <1>5, <1>8, CalmStep

LEMMA PrepareStep ==
    ASSUME ReferralIInv, NEW i \in Invocations, NEW r \in Revisions, Prepare(i, r)
    PROVE  ReferralIInv'
<1>1. Tables(Db) /\ Others /\ clock \in 0..MaxTime BY Parts DEF Others
<1>2. PICK causes \in {{}, PayloadChanged, ScopeChanged, PayloadChanged \union ScopeChanged} :
          LET d == ResolveUnsafe(Expire(Conflict(Create(Db), r, causes), r), r)
              g == ClaimSlots(d, r)
          IN  /\ Commit(RefreshUnlessAttention(g, r))
              /\ dispatch' = [dispatch EXCEPT ![i] = [s \in Slots |->
                      IF s \in ClaimedSlots(d, r)
                      THEN ClaimedDispatch(r, g.slot[r][s].attempt)
                      ELSE IdleDispatch]]
    BY DEF Prepare
<1>3. PICK c : c = ResolveUnsafe(Expire(Conflict(Create(Db), r, causes), r), r) OBVIOUS
<1>4. PICK e : e = ClaimSlots(c, r) OBVIOUS
<1>5. PICK f : f = RefreshUnlessAttention(e, r) OBVIOUS
<1>6. PICK row : row = [s \in Slots |-> IF s \in ClaimedSlots(c, r)
                                       THEN ClaimedDispatch(r, e.slot[r][s].attempt)
                                       ELSE IdleDispatch]
    OBVIOUS
<1>7. Commit(f) /\ dispatch' = [dispatch EXCEPT ![i] = row] BY <1>2, <1>3, <1>4, <1>5, <1>6
<1>8. Tables(e) /\ Tables(f) /\ Kept(Db, f) /\ Quiet(Db, f) /\ f.run[r] # "none"
    BY <1>1, <1>3, <1>4, <1>5, PreparedTables DEF Prepare
<1>9. Db' = f /\ run' = f.run BY <1>7, <1>8, Committed DEF Tables
<1>10. UNCHANGED <<clock, key, sent, misjudged, overran, acked>> BY DEF Prepare, mail, history
<1>11. ASSUME NEW s \in Slots
      PROVE  /\ row[s] \in DispatchRow
             /\ row[s].pc \in {"idle", "claimed"}
             /\ row[s].pc = "claimed" => row[s].revision = r
    <2>1. IdleDispatch \in DispatchRow /\ IdleDispatch.pc = "idle"
        BY FirstRevision, ReferralDeliveryAssumption DEF IdleDispatch, DispatchRow
    <2>2. CASE s \in ClaimedSlots(c, r)
        <3>1. PICK n : n = e.slot[r][s].attempt OBVIOUS
        <3>2. n \in Nat BY <1>8, <3>1 DEF Tables, DbTyped, SlotRow
        <3>3. PICK w : w = [IdleDispatch EXCEPT !.pc = "claimed", !.revision = r, !.token = n] OBVIOUS
        <3>4. w = [pc |-> "claimed", revision |-> r, token |-> n, at |-> 0, message |-> 0]
            BY <3>3 DEF IdleDispatch
        <3>5. w \in DispatchRow BY <3>2, <3>4, ReferralDeliveryAssumption DEF DispatchRow
        <3>6. row[s] = w BY <1>6, <2>2, <3>1, <3>3 DEF ClaimedDispatch
        <3> QED BY <3>4, <3>5, <3>6
    <2>3. CASE s \notin ClaimedSlots(c, r)
        <3>1. row[s] = IdleDispatch BY <1>6, <2>3
        <3> QED BY <2>1, <3>1
    <2> QED BY <2>2, <2>3
<1>12. row \in [Slots -> DispatchRow] BY <1>6, <1>11
<1>13. dispatch \in [Invocations -> [Slots -> DispatchRow]] BY <1>1 DEF Others
<1>14. /\ dispatch' \in [Invocations -> [Slots -> DispatchRow]]
      /\ dispatch'[i] = row
      /\ \A j \in Invocations \ {i} : dispatch'[j] = dispatch[j]
    BY <1>7, <1>12, <1>13
<1>15. Others' BY <1>1, <1>10, <1>14 DEF Others
<1>16. ReferralTypeOK' BY <1>8, <1>9, <1>15, TypePartsNext DEF Tables
<1>17. ASSUME NEW j \in Invocations, NEW s \in Slots
       PROVE  \/ dispatch'[j][s] = dispatch[j][s]
              \/ dispatch'[j][s].pc = "idle"
              \/ dispatch'[j][s].pc = "claimed" /\ run'[dispatch'[j][s].revision] # "none"
    BY <1>8, <1>9, <1>11, <1>14
<1>18. clock <= clock' BY <1>1, <1>10
<1>19. Calm BY <1>8, <1>9, <1>10, <1>17, <1>18 DEF Calm
<1> QED BY <1>8, <1>9, <1>16, <1>19, CalmStep

LEMMA AbandonStep ==
    ASSUME ReferralIInv, NEW i \in Invocations, NEW s \in Slots, Abandon(i, s)
    PROVE  ReferralIInv'
<1>1. Tables(Db) /\ DbTyped(Db) /\ Others /\ clock \in 0..MaxTime BY Parts DEF Others
<1>2. Db' = Db /\ Quiet(Db, Db') /\ Kept(Db, Db') BY SameTables DEF Abandon
<1>3. UNCHANGED <<clock, key, sent, misjudged, overran, acked>> BY DEF Abandon, mail, history
<1>4. IdleDispatch \in DispatchRow /\ IdleDispatch.pc = "idle"
    BY FirstRevision, ReferralDeliveryAssumption DEF IdleDispatch, DispatchRow
<1>5. /\ dispatch' \in [Invocations -> [Slots -> DispatchRow]]
      /\ \A j \in Invocations, t \in Slots :
            dispatch'[j][t] = dispatch[j][t] \/ dispatch'[j][t].pc = "idle"
    BY <1>1, <1>4 DEF Abandon, Others
<1>6. Others' BY <1>1, <1>3, <1>5 DEF Others
<1>7. ReferralTypeOK' BY <1>1, <1>2, <1>6, TypePartsNext
<1>8. clock <= clock' BY <1>1, <1>3
<1>9. Calm BY <1>2, <1>3, <1>5, <1>8 DEF Calm
<1>10. Tables(Db') BY <1>1, <1>2
<1> QED BY <1>7, <1>9, <1>10, CalmStep

LEMMA WithSlotQuiet ==
    ASSUME Tables(Db), NEW r \in Revisions, NEW s \in Slots, run[r] # "none", NEW y \in SlotRow,
           Follows(slot[r][s], y), y.message = slot[r][s].message
    PROVE  Quiet(Db, WithSlot(r, s, y))
<1>1. PICK e : e = WithSlot(r, s, y) OBVIOUS
<1>2. /\ e.slot[r][s] = y
      /\ \A q \in Revisions, t \in Slots : <<q, t>> # <<r, s>> => e.slot[q][t] = slot[q][t]
    BY <1>1, WithSlotTables DEF SlotSet
<1>3. ASSUME NEW q \in Revisions, NEW t \in Slots
      PROVE  Follows(slot[q][t], e.slot[q][t]) /\ e.slot[q][t].message = slot[q][t].message
    <2>1. CASE q = r /\ t = s BY <1>2, <2>1
    <2>2. CASE ~(q = r /\ t = s)
        <3>1. e.slot[q][t] = slot[q][t] BY <1>2, <2>2
        <3> QED BY <3>1 DEF Follows
    <2> QED BY <2>1, <2>2
<1> QED BY <1>1, <1>3 DEF Quiet, Db

LEMMA EffectiveStatus ==
    ASSUME NEW old, NEW event \in {"delivered"} \union InFlight \union Terminal
    PROVE  Effective(old, event) \in {"delivered", "bounced", "unverifiable", "provider_accepted"}
BY DEF Effective, InFlight, Terminal

LEMMA RecordEventStep ==
    ASSUME ReferralIInv, NEW r \in Revisions, NEW s \in Slots, RecordEvent(r, s)
    PROVE  ReferralIInv'
<1>1. Tables(Db) /\ Late /\ slot[r][s] \in SlotRow BY Parts DEF DbTyped, Db
<1>2. PICK event \in {"delivered"} \union InFlight \union Terminal :
          LET new == Effective(slot[r][s].status, event)
              d == Refresh(WithStatus(r, s, new), r)
          IN  Commit(IF new \in Terminal /\ slot[r][s].status \notin Terminal THEN Oblige(d) ELSE d)
    BY DEF RecordEvent
<1>3. PICK new : new = Effective(slot[r][s].status, event) OBVIOUS
<1>4. new \in {"delivered", "bounced", "unverifiable", "provider_accepted"} BY <1>3, EffectiveStatus
<1>5. PICK x, y : x = slot[r][s] /\ y = [x EXCEPT !.status = new] OBVIOUS
<1>6. y = [status |-> new, attempt |-> x.attempt, lease |-> x.lease,
           first |-> x.first, proven |-> x.proven, message |-> x.message]
    BY <1>1, <1>4, <1>5, StatusForm DEF SlotStatus, InFlight, Terminal
<1>7. y \in SlotRow BY <1>1, <1>4, <1>5, <1>6 DEF SlotRow, SlotStatus, InFlight, Terminal
<1>8. x.message \in Nat /\ x.message # 0 BY <1>1, <1>5 DEF RecordEvent, SlotRow
<1>9. Follows(x, y) /\ y.message = x.message
    BY <1>4, <1>6, <1>8 DEF Follows, TakenAsFailed
<1>10. run[r] # "none"
    <2>1. NewSlot.message = 0 BY DEF NewSlot
    <2> QED BY <1>1, <1>5, <1>8, <2>1 DEF Tables, Unmade, Db
<1>11. PICK d : d = Refresh(WithSlot(r, s, y), r) OBVIOUS
<1>12. PICK f : f = IF y.status \in Terminal /\ slot[r][s].status \notin Terminal THEN Oblige(d) ELSE d
    OBVIOUS
<1>13. Tables(f) /\ SameRevisions(Db, f) /\ f.slot = WithSlot(r, s, y).slot
    BY <1>1, <1>7, <1>10, <1>11, <1>12, EventTables
<1>14. Quiet(Db, f)
    <2>1. Quiet(Db, WithSlot(r, s, y)) BY <1>1, <1>5, <1>7, <1>9, <1>10, WithSlotQuiet
    <2> QED BY <1>13, <2>1 DEF Quiet
<1>15. Commit(f)
    <2>1. WithStatus(r, s, new) = WithSlot(r, s, y) BY <1>5 DEF WithStatus
    <2>2. y.status = new BY <1>6
    <2> QED BY <1>2, <1>3, <1>11, <1>12, <2>1, <2>2
<1> QED BY <1>13, <1>14, <1>15, TablesStep DEF RecordEvent

LEMMA MarkDeadlineStep ==
    ASSUME ReferralIInv, NEW r \in Revisions, NEW s \in Slots, MarkDeadline(r, s)
    PROVE  ReferralIInv'
<1>1. Tables(Db) /\ slot[r][s] \in SlotRow BY Parts DEF DbTyped, Db
<1>2. PICK x, y : x = slot[r][s] /\ y = [x EXCEPT !.status = "unverifiable"] OBVIOUS
<1>3. "unverifiable" \in SlotStatus BY DEF SlotStatus, Terminal
<1>4. y = [status |-> "unverifiable", attempt |-> x.attempt, lease |-> x.lease,
           first |-> x.first, proven |-> x.proven, message |-> x.message]
    BY <1>1, <1>2, <1>3, StatusForm
<1>5. y \in SlotRow BY <1>1, <1>2, <1>3, <1>4 DEF SlotRow
<1>6. Follows(x, y) /\ y.message = x.message BY <1>4 DEF Follows, TakenAsFailed
<1>7. run[r] # "none" BY DEF MarkDeadline, Existing, Db
<1>8. PICK d : d = Refresh(WithSlot(r, s, y), r) OBVIOUS
<1>9. PICK f : f = IF r # Head(Db) /\ run[Head(Db)] = "delivered" THEN d
                   ELSE Refresh(Open(d, Head(Db), {"recovery"}), Head(Db))
    OBVIOUS
<1>10. Tables(f) /\ SameRevisions(Db, f) /\ f.slot = WithSlot(r, s, y).slot
    BY <1>1, <1>5, <1>7, <1>8, <1>9, DeadlineTables
<1>11. Quiet(Db, f)
    <2>1. Quiet(Db, WithSlot(r, s, y)) BY <1>1, <1>2, <1>5, <1>6, <1>7, WithSlotQuiet
    <2> QED BY <1>10, <2>1 DEF Quiet
<1>12. Commit(f)
    <2>1. WithStatus(r, s, "unverifiable") = WithSlot(r, s, y) BY <1>2 DEF WithStatus
    <2> QED BY <1>8, <1>9, <2>1 DEF MarkDeadline
<1> QED BY <1>10, <1>11, <1>12, TablesStep DEF MarkDeadline

LEMMA OpenDriftStep ==
    ASSUME ReferralIInv, NEW r \in Revisions, OpenDrift(r)
    PROVE  ReferralIInv'
<1>1. Tables(Db) /\ DbTyped(Db) BY Parts
<1>2. PICK o : o = Open(Db, r, {"data_drift"}) OBVIOUS
<1>3. /\ DbTyped(o) /\ o.run = Db.run /\ o.slot = Db.slot
      /\ \A q \in Revisions \ {r} : o.proposal[q] = Db.proposal[q]
      /\ \A c \in Causes : o.proposal[r][c] =
            IF c \in {"data_drift"} /\ ~Pending(Db, r, c) THEN "open" ELSE Db.proposal[r][c]
    BY <1>1, <1>2, OpenForm
<1>4. SameRevisions(Db, o) BY <1>3 DEF SameRevisions
<1>5. \A q \in Revisions : IsHead(o, q) <=> IsHead(Db, q) BY <1>4, HeadKept
<1>6. Consecutive(o) BY <1>1, <1>4, ConsecutiveKept DEF Tables
<1>7. Db.run[r] # "none" BY DEF OpenDrift, IsHead
<1>8. Unmade(o) BY <1>1, <1>3, <1>7 DEF Tables, Unmade
<1>9. Unpromoted(o) BY <1>1, <1>3, <1>5 DEF Tables, Unpromoted, Causes
<1>10. ASSUME NEW q \in Revisions, IsHead(o, q) PROVE Obliged(o, q)
    <2>1. Obliged(Db, q) BY <1>1, <1>5, <1>10 DEF Tables
    <2>2. \A c \in Recovery : c \in Causes /\ c \notin {"data_drift"} BY DEF Recovery, Causes
    <2>3. \A c \in Recovery : o.proposal[q][c] = Db.proposal[q][c] BY <1>3, <2>2
    <2> QED BY <1>3, <2>1, <2>3 DEF Obliged, FailureFollowed, Obligation
<1>11. Tables(o) BY <1>3, <1>6, <1>8, <1>9, <1>10 DEF Tables
<1>12. Quiet(Db, o) BY <1>3, SameSlotsQuiet
<1>13. Commit(o) BY <1>2 DEF OpenDrift
<1> QED BY <1>4, <1>11, <1>12, <1>13, TablesStep DEF OpenDrift

LEMMA DismissDriftStep ==
    ASSUME ReferralIInv, NEW r \in Revisions, DismissDrift(r)
    PROVE  ReferralIInv'
<1>1. Tables(Db) /\ DbTyped(Db) /\ proposal \in [Revisions -> [Causes -> ProposalStatus]]
    BY Parts DEF DbTyped, Db
<1>2. PICK o : o = [run |-> run, slot |-> slot, proposal |-> proposal'] OBVIOUS
<1>3. "data_drift" \in Causes BY DEF Causes
<1>4. /\ o.run = Db.run /\ o.slot = Db.slot /\ o.proposal = proposal'
      /\ proposal' \in [Revisions -> [Causes -> ProposalStatus]]
      /\ \A q \in Revisions, c \in Causes :
            proposal'[q][c] = IF q = r /\ c = "data_drift" THEN "none" ELSE proposal[q][c]
    BY <1>1, <1>2, <1>3 DEF DismissDrift, Db, ProposalStatus
<1>5. DbTyped(o) BY <1>1, <1>2, <1>4 DEF DbTyped, Db
<1>6. SameRevisions(Db, o) BY <1>4 DEF SameRevisions
<1>7. \A q \in Revisions : IsHead(o, q) <=> IsHead(Db, q) BY <1>6, HeadKept
<1>8. Consecutive(o) BY <1>1, <1>6, ConsecutiveKept DEF Tables
<1>9. Unmade(o) BY <1>1, <1>4 DEF Tables, Unmade, Db
<1>10. Unpromoted(o) BY <1>1, <1>4, <1>7 DEF Tables, Unpromoted, Db
<1>11. ASSUME NEW q \in Revisions, IsHead(o, q) PROVE Obliged(o, q)
    <2>1. Obliged(Db, q) BY <1>1, <1>7, <1>11 DEF Tables
    <2>2. \A c \in Recovery : c \in Causes /\ c # "data_drift" BY DEF Recovery, Causes
    <2>3. \A c \in Recovery : o.proposal[q][c] = Db.proposal[q][c] BY <1>4, <2>2 DEF Db
    <2> QED BY <1>4, <2>1, <2>3 DEF Obliged, FailureFollowed, Obligation
<1>12. Tables(o) BY <1>5, <1>8, <1>9, <1>10, <1>11 DEF Tables
<1>13. Quiet(Db, o) BY <1>4, SameSlotsQuiet
<1>14. Commit(o) BY <1>2 DEF DismissDrift, Commit
<1> QED BY <1>6, <1>12, <1>13, <1>14, TablesStep DEF DismissDrift

\* The invocation i is now at v with slot s, and no other dispatch changed.
OnlyDispatch(i, s, v) ==
    /\ dispatch' \in [Invocations -> [Slots -> DispatchRow]]
    /\ dispatch'[i][s] = v
    /\ \A j \in Invocations, t \in Slots : <<j, t>> # <<i, s>> => dispatch'[j][t] = dispatch[j][t]

\* The row of one slot of one invocation.
LEMMA OneDispatch ==
    ASSUME Others, NEW i \in Invocations, NEW s \in Slots, NEW v \in DispatchRow,
           dispatch' = [dispatch EXCEPT ![i][s] = v]
    PROVE  OnlyDispatch(i, s, v)
<1>1. dispatch \in [Invocations -> [Slots -> DispatchRow]] BY DEF Others
<1>2. PICK line : line = [dispatch[i] EXCEPT ![s] = v] OBVIOUS
<1>3. /\ line \in [Slots -> DispatchRow] /\ line[s] = v
      /\ \A t \in Slots \ {s} : line[t] = dispatch[i][t]
    BY <1>1, <1>2
<1>4. dispatch' = [dispatch EXCEPT ![i] = line] BY <1>2
<1>5. /\ dispatch' \in [Invocations -> [Slots -> DispatchRow]]
      /\ dispatch'[i] = line
      /\ \A j \in Invocations \ {i} : dispatch'[j] = dispatch[j]
    BY <1>1, <1>3, <1>4
<1> QED BY <1>3, <1>5 DEF OnlyDispatch

\* A step of the invocation i for the slot s of revision r touches no other.
TouchesOnly(i, r, s) ==
    /\ clock' = clock /\ acked' = acked
    /\ Excused \subseteq Excused' /\ Excused' \subseteq Excused \union {<<r, s>>}
    /\ dispatch[i][s].revision = r
    /\ dispatch'[i][s].revision = r \/ dispatch'[i][s].pc = "idle"
    /\ \A j \in Invocations, u \in Slots : <<j, u>> # <<i, s>> => dispatch'[j][u] = dispatch[j][u]
    /\ \A q \in Revisions, t \in Slots : <<q, t>> # <<r, s>> =>
           slot'[q][t] = slot[q][t] /\ sent'[q][t] = sent[q][t] /\ key'[q][t] = key[q][t]

\* The slots other than (r, s) in a step of that slot.
LEMMA OtherSlots ==
    ASSUME ReferralIInv, ReferralTypeOK', Kept(Db, Db'), NEW r \in Revisions, NEW s \in Slots,
           NEW i \in Invocations, TouchesOnly(i, r, s),
           NEW q \in Revisions, NEW t \in Slots, <<q, t>> # <<r, s>>
    PROVE  /\ <<q, t>> \notin Excused' => Once(q, t)'
           /\ Recorded(q, t)'
           /\ Replaced(q, t)'
<1> USE DEF TouchesOnly
<1>1. ReferralTypeOK /\ OnceUnlessExcused /\ Late BY Parts
<1>2. Follows(slot[q][t], slot'[q][t]) BY DEF Follows
<1>3. NoStart(q, t)
    <2> SUFFICES ASSUME NEW j \in Invocations, Posting(j, q, t)'
                 PROVE  Posting(j, q, t) /\ dispatch'[j][t].at = dispatch[j][t].at
        BY DEF NoStart
    <2>1. <<j, t>> # <<i, s>> BY DEF Posting
    <2>2. dispatch'[j][t] = dispatch[j][t] BY <2>1
    <2> QED BY <2>2 DEF Posting
<1>4. sent[q][t] \in Nat /\ clock \in Nat BY <1>1, ReferralDeliveryAssumption DEF ReferralTypeOK
<1>5. sent[q][t] <= sent'[q][t] /\ clock <= clock' BY <1>4
<1>6. ASSUME <<q, t>> \notin Excused' PROVE Once(q, t)'
    <2>1. Once(q, t) BY <1>1, <1>6 DEF OnceUnlessExcused
    <2> QED BY <1>1, <1>2, <1>3, <1>5, <2>1, OnceQuiet
<1>7. Recorded(q, t)' BY <1>1, <1>2, <1>5, RecordedQuiet DEF Late
<1>8. Replaced(q, t)' BY <1>1, <1>3, <1>5, ReplacedQuiet DEF Late
<1> QED BY <1>6, <1>7, <1>8

\* The start of an attempt: the one step after which a message may be made.
LEMMA StartAttemptStep ==
    ASSUME ReferralIInv, NEW i \in Invocations, NEW s \in Slots, StartAttempt(i, s)
    PROVE  ReferralIInv'
<1>1. Tables(Db) /\ DbTyped(Db) /\ Others /\ ReferralTypeOK BY Parts
<1>2. PICK w \in DispatchRow : w = dispatch[i][s] BY <1>1 DEF Others
<1>3. PICK r \in Revisions : r = w.revision BY DEF DispatchRow
<1>4. PICK x \in SlotRow : x = slot[r][s] BY <1>1 DEF DbTyped, Db
<1>5. PICK y : y = StartedSlot(x) OBVIOUS
<1>6. /\ w.pc = "claimed" /\ x.status = "sending"
      /\ x.first = Never \/ x.proven \/ Remembered(x)
      /\ run[r] # "none" /\ IsHead(Db, r)
      /\ slot' = [slot EXCEPT ![r][s] = y]
      /\ dispatch' = [dispatch EXCEPT ![i][s] = [w EXCEPT !.pc = "started", !.at = clock]]
    BY <1>2, <1>3, <1>4, <1>5 DEF StartAttempt, Holds
<1>7. UNCHANGED <<clock, run, proposal, key, sent, misjudged, overran, acked>> /\ Excused' = Excused
    BY DEF StartAttempt, mail, history, Excused
<1>8. clock \in 0..MaxTime /\ clock \in Nat /\ Margin \in Nat /\ Window \in Nat
    BY <1>1, ReferralDeliveryAssumption DEF Others
<1>9. /\ y \in SlotRow /\ y.first = (IF x.first = Never THEN clock ELSE x.first)
      /\ y.proven = FALSE /\ y.status = "sending" /\ y.message = x.message
    BY <1>5, <1>6, <1>8, StartedForm
<1>10. PICK v : v = [w EXCEPT !.pc = "started", !.at = clock] OBVIOUS
<1>11. v = [pc |-> "started", revision |-> w.revision, token |-> w.token, at |-> clock, message |-> w.message]
    BY <1>10 DEF DispatchRow
<1>12. v \in DispatchRow /\ v.pc = "started" /\ v.revision = r /\ v.at = clock
    BY <1>3, <1>8, <1>11 DEF DispatchRow
<1>13. /\ dispatch' \in [Invocations -> [Slots -> DispatchRow]]
       /\ dispatch'[i][s] = v
       /\ \A j \in Invocations, t \in Slots : <<j, t>> # <<i, s>> => dispatch'[j][t] = dispatch[j][t]
    <2>1. dispatch' = [dispatch EXCEPT ![i][s] = v] BY <1>6, <1>10
    <2>2. OnlyDispatch(i, s, v) BY <1>1, <1>12, <2>1, OneDispatch
    <2> QED BY <2>2 DEF OnlyDispatch
<1>14. PICK e : e = WithSlot(r, s, y) OBVIOUS
<1>15. /\ Tables(e) /\ SameRevisions(Db, e) /\ e.slot[r][s] = y
       /\ \A q \in Revisions, t \in Slots : <<q, t>> # <<r, s>> => e.slot[q][t] = slot[q][t]
    <2>1. SlotSet(e, r, s, y) BY <1>1, <1>6, <1>9, <1>14, WithSlotTables
    <2> QED BY <1>9, <2>1 DEF SlotSet, Terminal
<1>16. Db' = e
    <2>1. Db = [run |-> run, slot |-> slot, proposal |-> proposal] BY DEF Db
    <2>2. e = [run |-> run, slot |-> slot', proposal |-> proposal]
        BY <1>1, <1>6, <1>14, <2>1, DbExcept DEF WithSlot
    <2> QED BY <1>7, <2>2 DEF Db
<1>17. slot' = e.slot BY <1>16 DEF Db
<1>18. Others' BY <1>1, <1>7, <1>13 DEF Others
<1>19. ReferralTypeOK' BY <1>15, <1>16, <1>18, TypePartsNext DEF Tables
<1>20. Kept(Db, Db') BY <1>15, <1>16, SameKept
<1>21. ASSUME NEW q \in Revisions, NEW t \in Slots, <<q, t>> # <<r, s>>
       PROVE  (<<q, t>> \notin Excused' => Once(q, t)') /\ Recorded(q, t)' /\ Replaced(q, t)'
    <2>1. TouchesOnly(i, r, s) BY <1>2, <1>3, <1>7, <1>12, <1>13, <1>15, <1>17 DEF TouchesOnly
    <2> QED BY <1>19, <1>20, <1>21, <2>1, OtherSlots
<1>22. ASSUME <<r, s>> \notin Excused PROVE Once(r, s)'
    <2>1. Keyed(r, s) /\ InTime(r, s) /\ Overlap(r, s) /\ FailedUnsent(r, s)
        BY <1>1, <1>22, Parts DEF OnceUnlessExcused, Once
    <2>2. slot'[r][s] = y BY <1>15, <1>17
    <2>3. sent[r][s] \in Nat /\ key[r][s] \in Nat /\ (x.first # Never => x.first \in Nat)
        BY <1>1, ReferralDeliveryAssumption DEF Others, SlotRow
    <2>4. x.first # Never => y.first = x.first BY <1>9
    <2>5. ASSUME NEW j \in Invocations, j # i, Posting(j, r, s)'
          PROVE  Posting(j, r, s) /\ dispatch'[j][s].at = dispatch[j][s].at
        BY <1>13, <2>5 DEF Posting
    <2>7. y.first # Never /\ y.first <= clock
        BY <1>4, <1>8, <1>9, <2>1 DEF Keyed, Never
    <2>8. Keyed(r, s)'
        <3>1. sent[r][s] <= 1 /\ (sent[r][s] = 1 => x.first # Never /\ key[r][s] >= x.first + Window)
            BY <1>4, <2>1 DEF Keyed
        <3>2. sent[r][s] = 1 => y.first # Never /\ key[r][s] >= y.first + Window
            BY <2>4, <3>1
        <3>3. /\ y.first <= clock' /\ sent'[r][s] <= 1
              /\ sent'[r][s] = 1 => y.first # Never /\ key'[r][s] >= y.first + Window
            BY <1>7, <2>7, <3>1, <3>2
        <3> QED BY <2>2, <3>3 DEF Keyed
    <2>9. sent[r][s] = 1 => clock + Margin < key[r][s]
        <3> HAVE sent[r][s] = 1
        <3>1. x.first # Never /\ key[r][s] >= x.first + Window BY <1>4, <2>1 DEF Keyed
        <3>2. ~x.proven BY <1>4, <2>1 DEF FailedUnsent, TakenAsFailed
        <3>3. clock < x.first + Window - Margin BY <1>6, <3>1, <3>2 DEF Remembered
        <3> QED BY <1>8, <2>3, <3>1, <3>3
    <2>10. InTime(r, s)'
        <3> SUFFICES ASSUME NEW j \in Invocations, Posting(j, r, s)'
                     PROVE  /\ y.first # Never
                            /\ y.first <= dispatch'[j][s].at
                            /\ dispatch'[j][s].at <= clock
                            /\ sent[r][s] = 1 => dispatch'[j][s].at + Margin < key[r][s]
            BY <1>7, <2>2 DEF InTime
        <3>1. CASE j = i
            <4>1. dispatch'[j][s].at = clock BY <1>12, <1>13, <3>1
            <4> QED BY <1>8, <2>7, <2>9, <4>1
        <3>2. CASE j # i BY <1>4, <2>1, <2>4, <2>5, <3>2 DEF InTime
        <3> QED BY <3>1, <3>2
    <2>11. ASSUME NEW j \in Invocations, j # i, Posting(j, r, s)' PROVE Margin < Window
        <3>1. x.first # Never /\ x.first <= dispatch[j][s].at /\ dispatch[j][s].at <= clock
            BY <1>4, <2>1, <2>5, <2>11 DEF InTime
        <3>2. ~x.proven BY <1>4, <2>1, <2>5, <2>11 DEF FailedUnsent, TakenAsFailed
        <3>3. clock < x.first + Window - Margin BY <1>6, <3>1, <3>2 DEF Remembered
        <3>4. x.first <= clock BY <1>4, <2>1 DEF Keyed
        <3> QED BY <1>8, <2>3, <3>1, <3>3, <3>4
    <2>12. Overlap(r, s)' BY <2>11 DEF Overlap
    <2>13. FailedUnsent(r, s)' BY <1>9, <2>2 DEF FailedUnsent, TakenAsFailed
    <2> QED BY <2>8, <2>10, <2>12, <2>13 DEF Once
<1>23. Recorded(r, s)'
    <2>1. slot'[r][s] = y BY <1>15, <1>17
    <2>2. (x.message > 0 => sent[r][s] > 0) /\ (key[r][s] > 0 => sent[r][s] > 0)
        BY <1>4, Parts DEF Late, Recorded
    <2> QED BY <1>7, <1>9, <2>1, <2>2 DEF Recorded
<1>24. Replaced(r, s)'
    <2>1. IsHead(Db', r) BY <1>6, <1>15, <1>16, HeadKept
    <2> QED BY <2>1 DEF Replaced
<1>25. OnceUnlessExcused'
    <2> SUFFICES ASSUME NEW q \in Revisions, NEW t \in Slots, <<q, t>> \notin Excused'
                 PROVE  Once(q, t)'
        BY DEF OnceUnlessExcused
    <2>1. CASE q = r /\ t = s BY <1>7, <1>22, <2>1
    <2>2. CASE <<q, t>> # <<r, s>> BY <1>21, <2>2
    <2> QED BY <2>1, <2>2
<1>26. Late'
    <2> SUFFICES ASSUME NEW q \in Revisions, NEW t \in Slots
                 PROVE  Recorded(q, t)' /\ Replaced(q, t)'
        BY DEF Late
    <2>1. CASE q = r /\ t = s BY <1>23, <1>24, <2>1
    <2>2. CASE <<q, t>> # <<r, s>> BY <1>21, <2>2
    <2> QED BY <2>1, <2>2
<1>27. Attempts'
    <2> SUFFICES ASSUME NEW j \in Invocations, NEW t \in Slots
                 PROVE  Attempting(j, t)'
        BY DEF Attempts
    <2>1. CASE j = i /\ t = s BY <1>6, <1>7, <1>12, <1>13, <2>1 DEF Attempting
    <2>2. CASE <<j, t>> # <<i, s>>
        <3>1. Attempting(j, t) BY Parts DEF Attempts
        <3>2. dispatch'[j][t] = dispatch[j][t] BY <1>13, <2>2
        <3> QED BY <1>7, <3>1, <3>2 DEF Attempting
    <2> QED BY <2>1, <2>2
<1> QED BY <1>15, <1>16, <1>19, <1>25, <1>26, <1>27 DEF ReferralIInv

\* An accepted POST.  Under its key the provider makes one message, unless the
\* slot was misjudged: the key outlives an attempt under way and the margin
\* after its start, and what comes later than that overran.
LEMMA AcceptStep ==
    ASSUME ReferralIInv, NEW i \in Invocations, NEW s \in Slots, Accept(i, s)
    PROVE  ReferralIInv' /\ \A r \in Revisions, t \in Slots :
              sent'[r][t] > sent[r][t] /\ ~IsHead(Db, r) => r \in acked \/ <<r, t>> \in Excused'
<1>1. Tables(Db) /\ DbTyped(Db) /\ Others /\ ReferralTypeOK BY Parts
<1>2. PICK w \in DispatchRow : w = dispatch[i][s] BY <1>1 DEF Others
<1>3. PICK r \in Revisions : r = w.revision BY DEF DispatchRow
<1>4. PICK id, k : /\ id = (IF clock >= key[r][s] THEN sent[r][s] + 1 ELSE sent[r][s])
                   /\ k = (IF clock >= key[r][s] THEN clock + Window ELSE key[r][s])
    OBVIOUS
<1>5. PICK v : v = (IF w.pc = "adrift" THEN IdleDispatch
                    ELSE [w EXCEPT !.pc = "accepted", !.at = 0, !.message = id])
    OBVIOUS
<1>6. /\ Posting(i, r, s)
      /\ sent' = [sent EXCEPT ![r][s] = id]
      /\ key' = [key EXCEPT ![r][s] = k]
      /\ overran' = (IF clock >= key[r][s] /\ sent[r][s] > 0 /\ clock > w.at + Margin
                     THEN overran \union {<<r, s>>} ELSE overran)
      /\ dispatch' = [dispatch EXCEPT ![i][s] = v]
    <2>1. sent[r][s] \in Nat BY <1>1 DEF Others
    <2>2. sent[r][s] + (IF clock >= key[r][s] THEN 1 ELSE 0) = id BY <1>4, <2>1
    <2> QED BY <1>2, <1>3, <1>4, <1>5, <2>2 DEF Accept
<1>7. UNCHANGED <<clock, db, misjudged, acked>> BY DEF Accept
<1>8. Db' = Db /\ Kept(Db, Db') /\ slot' = slot /\ run' = run BY <1>7, SameTables DEF db
<1>9. /\ clock \in 0..MaxTime /\ clock \in Nat /\ Margin \in Nat /\ Window \in Nat
      /\ Margin <= Window /\ MaxTime \in Nat
    BY <1>1, ReferralDeliveryAssumption DEF Others
<1>10. sent[r][s] \in Nat /\ key[r][s] \in 0..(MaxTime + Window) BY <1>1 DEF Others
<1>11. id \in Nat /\ k \in 0..(MaxTime + Window) /\ sent[r][s] <= id BY <1>4, <1>9, <1>10
<1>12. /\ overran \subseteq overran' /\ overran' \subseteq overran \union {<<r, s>>}
       /\ Excused \subseteq Excused' /\ Excused' \subseteq Excused \union {<<r, s>>}
       /\ overran' \subseteq Revisions \X Slots
    BY <1>1, <1>6, <1>7 DEF Excused, Others
<1>14. /\ v \in DispatchRow /\ v.pc \in {"idle", "accepted"}
       /\ v.pc = "accepted" => v.revision = r /\ v.message = id
    <2>1. CASE w.pc = "adrift"
        <3>1. v = IdleDispatch BY <1>5, <2>1
        <3>2. IdleDispatch \in DispatchRow /\ IdleDispatch.pc = "idle"
            BY FirstRevision, ReferralDeliveryAssumption DEF IdleDispatch, DispatchRow
        <3> QED BY <3>1, <3>2
    <2>2. CASE w.pc # "adrift"
        <3>1. v = [pc |-> "accepted", revision |-> w.revision, token |-> w.token, at |-> 0, message |-> id]
            BY <1>5, <2>2 DEF DispatchRow
        <3> QED BY <1>3, <1>9, <1>11, <3>1 DEF DispatchRow
    <2> QED BY <2>1, <2>2
<1>15. /\ dispatch' \in [Invocations -> [Slots -> DispatchRow]]
       /\ dispatch'[i][s] = v
       /\ \A j \in Invocations, t \in Slots : <<j, t>> # <<i, s>> => dispatch'[j][t] = dispatch[j][t]
    <2>1. dispatch' = [dispatch EXCEPT ![i][s] = v] BY <1>6
    <2>2. OnlyDispatch(i, s, v) BY <1>1, <1>14, <2>1, OneDispatch
    <2> QED BY <2>2 DEF OnlyDispatch
<1>16. /\ sent' \in [Revisions -> [Slots -> Nat]]
       /\ sent'[r][s] = id
       /\ \A q \in Revisions, t \in Slots : <<q, t>> # <<r, s>> => sent'[q][t] = sent[q][t]
    BY <1>1, <1>6, <1>11 DEF Others
<1>17. /\ key' \in [Revisions -> [Slots -> 0..(MaxTime + Window)]]
       /\ key'[r][s] = k
       /\ \A q \in Revisions, t \in Slots : <<q, t>> # <<r, s>> => key'[q][t] = key[q][t]
    BY <1>1, <1>6, <1>11 DEF Others
<1>18. Others' BY <1>1, <1>7, <1>12, <1>15, <1>16, <1>17 DEF Others
<1>19. ReferralTypeOK' BY <1>1, <1>8, <1>18, TypePartsNext
<1>20. ASSUME NEW q \in Revisions, NEW t \in Slots, <<q, t>> # <<r, s>>
       PROVE  (<<q, t>> \notin Excused' => Once(q, t)') /\ Recorded(q, t)' /\ Replaced(q, t)'
    <2>1. TouchesOnly(i, r, s)
        BY <1>2, <1>3, <1>7, <1>8, <1>12, <1>14, <1>15, <1>16, <1>17 DEF TouchesOnly
    <2> QED BY <1>8, <1>19, <1>20, <2>1, OtherSlots
<1>21. ASSUME NEW j \in Invocations, Posting(j, r, s)'
       PROVE  j # i /\ Posting(j, r, s) /\ dispatch'[j][s].at = dispatch[j][s].at
    BY <1>14, <1>15, <1>21 DEF Posting
<1>22. ASSUME <<r, s>> \notin Excused'
       PROVE  /\ Once(r, s)'
              /\ sent[r][s] > 0 => id = sent[r][s]
    <2>1. Keyed(r, s) /\ InTime(r, s) /\ Overlap(r, s) /\ FailedUnsent(r, s)
        BY <1>1, <1>12, <1>22, Parts DEF OnceUnlessExcused, Once
    <2>2. PICK x \in SlotRow : x = slot[r][s] BY <1>1 DEF DbTyped, Db
    <2>3. /\ x.first # Never /\ x.first <= w.at /\ w.at <= clock
          /\ sent[r][s] = 1 => w.at + Margin < key[r][s]
          /\ x.first <= clock /\ sent[r][s] <= 1
          /\ sent[r][s] = 1 => key[r][s] >= x.first + Window
        BY <1>2, <1>6, <2>1, <2>2 DEF InTime, Keyed
    <2>4. w.at \in Nat /\ x.first \in Nat BY <1>9, <2>3 DEF DispatchRow, SlotRow
    <2>5. sent[r][s] = 1 => ~(clock >= key[r][s])
        <3> HAVE sent[r][s] = 1
        <3>1. w.at + Margin < key[r][s] BY <2>3
        <3>2. ~(clock >= key[r][s] /\ clock > w.at + Margin)
            BY <1>6, <1>10, <1>22 DEF Excused
        <3> QED BY <1>9, <1>10, <2>4, <3>1, <3>2
    <2>6. /\ id = 1 => k >= x.first + Window
          /\ id <= 1
          /\ sent[r][s] > 0 => id = sent[r][s]
        BY <1>4, <1>9, <1>10, <2>3, <2>4, <2>5
    <2>7. Keyed(r, s)' BY <1>7, <1>8, <1>16, <1>17, <2>2, <2>3, <2>6 DEF Keyed
    <2>8. ASSUME NEW j \in Invocations, Posting(j, r, s)', id = 1
          PROVE  dispatch[j][s].at + Margin < k
        <3>1. j # i /\ Posting(j, r, s) BY <1>21, <2>8
        <3>2. dispatch[j][s].at <= clock /\ (sent[r][s] = 1 => dispatch[j][s].at + Margin < key[r][s])
            BY <2>1, <3>1 DEF InTime
        <3>3. Margin < Window BY <1>6, <2>1, <3>1 DEF Overlap
        <3>4. dispatch[j][s].at \in Nat BY <1>1, <1>9 DEF Others, DispatchRow
        <3> QED BY <1>4, <1>9, <1>10, <2>3, <2>5, <2>8, <3>2, <3>3, <3>4
    <2>9. InTime(r, s)'
        <3> SUFFICES ASSUME NEW j \in Invocations, Posting(j, r, s)'
                     PROVE  /\ x.first # Never
                            /\ x.first <= dispatch'[j][s].at
                            /\ dispatch'[j][s].at <= clock
                            /\ id = 1 => dispatch'[j][s].at + Margin < k
            BY <1>7, <1>8, <1>16, <1>17, <2>2 DEF InTime
        <3>1. Posting(j, r, s) /\ dispatch'[j][s].at = dispatch[j][s].at BY <1>21
        <3> QED BY <2>1, <2>2, <2>8, <3>1 DEF InTime
    <2>10. Overlap(r, s)' BY <1>21, <2>1 DEF Overlap
    <2>11. FailedUnsent(r, s)' BY <1>6, <1>8, <2>1 DEF FailedUnsent
    <2> QED BY <2>6, <2>7, <2>9, <2>10, <2>11 DEF Once
<1>23. id > 0
    <2>1. key[r][s] > 0 => sent[r][s] > 0 BY Parts DEF Late, Recorded
    <2> QED BY <1>4, <1>9, <1>10, <2>1
<1>24. Recorded(r, s)'
    <2>1. Recorded(r, s) BY Parts DEF Late
    <2> QED BY <1>8, <1>16, <1>23, <2>1 DEF Recorded
<1>25. Replaced(r, s)' BY <1>16, <1>23 DEF Replaced
<1>26. OnceUnlessExcused'
    <2> SUFFICES ASSUME NEW q \in Revisions, NEW t \in Slots, <<q, t>> \notin Excused'
                 PROVE  Once(q, t)'
        BY DEF OnceUnlessExcused
    <2>1. CASE q = r /\ t = s BY <1>22, <2>1
    <2>2. CASE <<q, t>> # <<r, s>> BY <1>20, <2>2
    <2> QED BY <2>1, <2>2
<1>27. Late'
    <2> SUFFICES ASSUME NEW q \in Revisions, NEW t \in Slots
                 PROVE  Recorded(q, t)' /\ Replaced(q, t)'
        BY DEF Late
    <2>1. CASE q = r /\ t = s BY <1>24, <1>25, <2>1
    <2>2. CASE <<q, t>> # <<r, s>> BY <1>20, <2>2
    <2> QED BY <2>1, <2>2
<1>28. Attempts'
    <2> SUFFICES ASSUME NEW j \in Invocations, NEW t \in Slots
                 PROVE  Attempting(j, t)'
        BY DEF Attempts
    <2>1. CASE j = i /\ t = s
        <3>1. run[r] # "none" BY <1>6, Parts DEF Attempts, Attempting, Posting
        <3> QED BY <1>8, <1>14, <1>15, <1>16, <1>23, <2>1, <3>1 DEF Attempting
    <2>2. CASE <<j, t>> # <<i, s>>
        <3>1. Attempting(j, t) BY Parts DEF Attempts
        <3>2. dispatch'[j][t] = dispatch[j][t] BY <1>15, <2>2
        <3>3. dispatch[j][t].revision \in Revisions BY <1>1 DEF Others, DispatchRow
        <3>4. sent[dispatch[j][t].revision][t] > 0 => sent'[dispatch[j][t].revision][t] > 0
            BY <1>16, <1>23, <3>3
        <3> QED BY <1>8, <3>1, <3>2, <3>4 DEF Attempting
    <2> QED BY <2>1, <2>2
<1>29. ASSUME NEW q \in Revisions, NEW t \in Slots, sent'[q][t] > sent[q][t], ~IsHead(Db, q)
       PROVE  q \in acked \/ <<q, t>> \in Excused'
    <2>1. q = r /\ t = s
        <3>1. sent[q][t] \in Nat BY <1>1 DEF Others
        <3> QED BY <1>16, <1>29, <3>1
    <2>2. id > sent[r][s] BY <1>16, <1>29, <2>1
    <2>3. CASE <<r, s>> \in Excused' BY <2>1, <2>3
    <2>4. CASE <<r, s>> \notin Excused'
        <3>1. ~(sent[r][s] > 0) BY <1>10, <1>11, <1>22, <2>2, <2>4
        <3>2. run[r] # "none" BY <1>6, Parts DEF Attempts, Attempting, Posting
        <3>3. Replaced(r, s) BY Parts DEF Late
        <3>4. <<r, s>> \notin Excused BY <1>12, <2>4
        <3> QED BY <1>6, <1>29, <2>1, <3>1, <3>2, <3>3, <3>4 DEF Replaced
    <2> QED BY <2>3, <2>4
<1>30. Tables(Db') BY <1>1, <1>8
<1> QED BY <1>19, <1>26, <1>27, <1>28, <1>29, <1>30 DEF ReferralIInv

\* finalize_provider_attempt when the claim still holds the slot.
HeldOutcome(i, s, w, r, x, status, v) ==
    /\ Commit(Refresh(WithSlot(r, s, FinalizedSlot(x, w, status)), r))
    /\ misjudged' = IF status = "transport_failed" /\ OtherAttempt(i, r, s)
                    THEN misjudged \union {<<r, s>>} ELSE misjudged
    /\ v \in After(w, status)
    /\ dispatch' = [dispatch EXCEPT ![i][s] = v]
    /\ UNCHANGED <<clock, mail, overran, acked>>

\* Where the invocation is after it.
LEMMA AfterForm ==
    ASSUME NEW w \in DispatchRow, NEW status, NEW v \in After(w, status)
    PROVE  /\ v \in DispatchRow
           /\ v.pc = "idle" \/ Adrift(w, v)
           /\ v.pc # "idle" => status = "ambiguous"
<1>1. IdleDispatch \in DispatchRow /\ IdleDispatch.pc = "idle"
    BY FirstRevision, ReferralDeliveryAssumption DEF IdleDispatch, DispatchRow
<1>2. CASE v = IdleDispatch BY <1>1, <1>2
<1>3. CASE v # IdleDispatch
    <2>1. /\ w.pc = "started" /\ status = "ambiguous"
          /\ v = [w EXCEPT !.pc = "adrift"]
        BY <1>3 DEF After
    <2>2. v = [pc |-> "adrift", revision |-> w.revision, token |-> w.token, at |-> w.at,
               message |-> w.message]
        BY <2>1 DEF DispatchRow
    <2> QED BY <2>1, <2>2 DEF DispatchRow, Adrift
<1> QED BY <1>2, <1>3

LEMMA FinalizeHeld ==
    ASSUME ReferralIInv, NEW i \in Invocations, NEW s \in Slots, NEW w \in DispatchRow, w = dispatch[i][s],
           NEW r \in Revisions, r = w.revision, NEW x, x = slot[r][s],
           NEW status \in Outcomes(w.pc), NEW v, HeldOutcome(i, s, w, r, x, status, v)
    PROVE  ReferralIInv'
<1>1. Tables(Db) /\ DbTyped(Db) /\ Others /\ ReferralTypeOK BY Parts
<1>2. x \in SlotRow BY <1>1 DEF DbTyped, Db
<1>3. /\ status \in {"transport_failed", "ambiguous", "provider_accepted"}
      /\ w.pc # "idle"
      /\ status = "provider_accepted" => w.pc = "accepted"
      /\ status = "transport_failed" => w.pc = "started"
    BY DEF Outcomes
<1>4. status \in SlotStatus /\ status \notin Terminal BY <1>3 DEF SlotStatus, InFlight, Terminal
<1>5. PICK y : y = FinalizedSlot(x, w, status) OBVIOUS
<1>6. /\ y \in SlotRow /\ y.status = status /\ y.first = x.first /\ y.proven = x.proven
      /\ y.message = IF status = "provider_accepted" THEN w.message ELSE x.message
    <2>1. SlotOutcome(y, x, w, status) BY <1>2, <1>4, <1>5, FinalizedForm
    <2> QED BY <2>1 DEF SlotOutcome
<1>7. Attempting(i, s) BY Parts DEF Attempts
<1>8. run[r] # "none" BY <1>3, <1>7 DEF Attempting
<1>9. PICK e, f : e = WithSlot(r, s, y) /\ f = Refresh(e, r) OBVIOUS
<1>10. /\ Tables(e) /\ SameRevisions(Db, e) /\ e.slot[r][s] = y
       /\ \A q \in Revisions, t \in Slots : <<q, t>> # <<r, s>> => e.slot[q][t] = slot[q][t]
    <2>1. y.status \notin Terminal BY <1>4, <1>6
    <2>2. e = WithSlot(r, s, y) BY <1>9
    <2>3. SlotSet(e, r, s, y) BY <1>1, <1>6, <1>8, <2>2, WithSlotTables
    <2> QED BY <2>1, <2>3 DEF SlotSet
<1>11. e.run[r] # "none" BY <1>8, <1>10 DEF SameRevisions, Db
<1>12. TablesBut(e, r) /\ (IsHead(e, r) => FailureFollowed(e, r)) BY <1>10, TablesAreBut
<1>13. Tables(f) /\ SameRevisions(e, f) /\ f.slot = e.slot BY <1>9, <1>11, <1>12, RefreshTables
<1>14. SameRevisions(Db, f) BY <1>10, <1>13 DEF SameRevisions
<1>15. DbTyped(f) /\ Commit(f) BY <1>5, <1>9, <1>13 DEF Tables, HeldOutcome
<1>16. Db' = f /\ slot' = e.slot BY <1>13, <1>15, Committed
<1>17. Kept(Db, Db') BY <1>14, <1>16, SameKept
<1>18. UNCHANGED <<clock, key, sent, overran, acked>> BY DEF HeldOutcome, mail
<1>19. /\ v \in DispatchRow
       /\ v.pc = "idle" \/ Adrift(w, v)
       /\ v.pc # "idle" => status = "ambiguous"
    BY AfterForm DEF HeldOutcome
<1>20. /\ dispatch' \in [Invocations -> [Slots -> DispatchRow]]
       /\ dispatch'[i][s] = v
       /\ \A j \in Invocations, t \in Slots : <<j, t>> # <<i, s>> => dispatch'[j][t] = dispatch[j][t]
    <2>1. dispatch' = [dispatch EXCEPT ![i][s] = v] BY DEF HeldOutcome
    <2>2. OnlyDispatch(i, s, v) BY <1>1, <1>19, <2>1, OneDispatch
    <2> QED BY <2>2 DEF OnlyDispatch
<1>21. /\ Excused \subseteq Excused' /\ Excused' \subseteq Excused \union {<<r, s>>}
       /\ misjudged' \subseteq Revisions \X Slots
    BY <1>1, <1>18 DEF HeldOutcome, Others, Excused
<1>22. Others' BY <1>1, <1>18, <1>20, <1>21 DEF Others
<1>23. ReferralTypeOK' BY <1>15, <1>16, <1>22, TypePartsNext
<1>24. sent[r][s] \in Nat /\ clock \in Nat BY <1>1, ReferralDeliveryAssumption DEF Others
<1>25. ASSUME NEW q \in Revisions, NEW t \in Slots, <<q, t>> # <<r, s>>
       PROVE  (<<q, t>> \notin Excused' => Once(q, t)') /\ Recorded(q, t)' /\ Replaced(q, t)'
    <2>1. TouchesOnly(i, r, s)
        BY <1>10, <1>16, <1>18, <1>19, <1>20, <1>21 DEF TouchesOnly, Adrift
    <2> QED BY <1>17, <1>23, <1>25, <2>1, OtherSlots
<1>26. ASSUME NEW j \in Invocations, Posting(j, r, s)'
       PROVE  /\ Posting(j, r, s) /\ dispatch'[j][s].at = dispatch[j][s].at
              /\ j # i \/ status = "ambiguous"
    BY <1>19, <1>20, <1>26 DEF Posting, Adrift
<1>27. NoStart(r, s) BY <1>26 DEF NoStart
<1>28. slot'[r][s] = y BY <1>10, <1>16
<1>29. ASSUME <<r, s>> \notin Excused' PROVE Once(r, s)'
    <2>1. Once(r, s) BY <1>1, <1>21, <1>29, Parts DEF OnceUnlessExcused
    <2>2. FailedUnsent(r, s)'
        <3> SUFFICES ASSUME TakenAsFailed(y)
                     PROVE  sent[r][s] = 0 /\ \A j \in Invocations : ~Posting(j, r, s)'
            BY <1>18, <1>28 DEF FailedUnsent
        <3>1. CASE status = "transport_failed"
            <4>1. ~OtherAttempt(i, r, s) BY <1>29, <3>1 DEF HeldOutcome, Excused
            <4>2. sent[r][s] = 0 /\ \A j \in Invocations \ {i} : ~Posting(j, r, s)
                BY <1>24, <4>1 DEF OtherAttempt
            <4> QED BY <1>26, <3>1, <4>2
        <3>2. CASE status # "transport_failed"
            <4>1. TakenAsFailed(x) BY <1>6, <3>2 DEF TakenAsFailed
            <4>2. sent[r][s] = 0 /\ \A j \in Invocations : ~Posting(j, r, s)
                BY <2>1, <4>1 DEF Once, FailedUnsent
            <4> QED BY <1>26, <4>2
        <3> QED BY <3>1, <3>2
    <2>3. slot'[r][s].first = slot[r][s].first BY <1>6, <1>28
    <2>4. sent'[r][s] = sent[r][s] /\ key'[r][s] = key[r][s] /\ clock <= clock' BY <1>18, <1>24
    <2> QED BY <1>1, <1>23, <1>27, <2>1, <2>2, <2>3, <2>4, OnceCarried
<1>30. Recorded(r, s)'
    <2>1. Recorded(r, s) BY Parts DEF Late
    <2>2. status = "provider_accepted" => sent[r][s] > 0 BY <1>3, <1>7 DEF Attempting
    <2>3. y.message > 0 => sent[r][s] > 0
        BY <1>6, <2>1, <2>2 DEF Recorded
    <2> QED BY <1>3, <1>6, <1>18, <1>28, <2>1, <2>3 DEF Recorded
<1>31. Replaced(r, s)'
    <2>1. Replaced(r, s) BY Parts DEF Late
    <2>2. sent[r][s] <= sent'[r][s] /\ acked \subseteq acked' BY <1>18, <1>24
    <2> QED BY <1>1, <1>17, <1>21, <1>23, <1>27, <2>1, <2>2, ReplacedQuiet
<1>32. OnceUnlessExcused'
    <2> SUFFICES ASSUME NEW q \in Revisions, NEW t \in Slots, <<q, t>> \notin Excused'
                 PROVE  Once(q, t)'
        BY DEF OnceUnlessExcused
    <2>1. CASE q = r /\ t = s BY <1>29, <2>1
    <2>2. CASE <<q, t>> # <<r, s>> BY <1>25, <2>2
    <2> QED BY <2>1, <2>2
<1>33. Late'
    <2> SUFFICES ASSUME NEW q \in Revisions, NEW t \in Slots
                 PROVE  Recorded(q, t)' /\ Replaced(q, t)'
        BY DEF Late
    <2>1. CASE q = r /\ t = s BY <1>30, <1>31, <2>1
    <2>2. CASE <<q, t>> # <<r, s>> BY <1>25, <2>2
    <2> QED BY <2>1, <2>2
<1>34. Attempts'
    <2> SUFFICES ASSUME NEW j \in Invocations, NEW t \in Slots
                 PROVE  Attempting(j, t)'
        BY DEF Attempts
    <2>1. CASE j = i /\ t = s
        <3>1. run'[r] # "none" BY <1>8, <1>17 DEF Kept, Db
        <3> QED BY <1>19, <1>20, <2>1, <3>1 DEF Attempting, Adrift
    <2>2. CASE <<j, t>> # <<i, s>>
        <3>1. Attempting(j, t) BY Parts DEF Attempts
        <3>2. dispatch'[j][t] = dispatch[j][t] BY <1>20, <2>2
        <3>3. dispatch[j][t].revision \in Revisions BY <1>1 DEF Others, DispatchRow
        <3>4. run[dispatch[j][t].revision] # "none" => run'[dispatch[j][t].revision] # "none"
            BY <1>17, <3>3 DEF Kept, Db
        <3> QED BY <1>18, <3>1, <3>2, <3>4 DEF Attempting
    <2> QED BY <2>1, <2>2
<1> QED BY <1>13, <1>16, <1>23, <1>32, <1>33, <1>34 DEF ReferralIInv

LEMMA FinalizeStep ==
    ASSUME ReferralIInv, NEW i \in Invocations, NEW s \in Slots, Finalize(i, s)
    PROVE  ReferralIInv'
<1>1. Tables(Db) /\ DbTyped(Db) /\ Others /\ ReferralTypeOK BY Parts
<1>2. PICK w \in DispatchRow : w = dispatch[i][s] BY <1>1 DEF Others
<1>3. PICK r \in Revisions : r = w.revision BY DEF DispatchRow
<1>4. PICK x : x = slot[r][s] OBVIOUS
<1>5. UNCHANGED <<clock, mail, overran, acked>> BY DEF Finalize
<1>6. PICK status, v :
      /\ status \in Outcomes(w.pc) /\ v \in After(w, status)
      /\ dispatch' = [dispatch EXCEPT ![i][s] = v]
      /\ \/ /\ Commit(Refresh(WithSlot(r, s, FinalizedSlot(x, w, status)), r))
            /\ misjudged' = IF status = "transport_failed" /\ OtherAttempt(i, r, s)
                            THEN misjudged \union {<<r, s>>} ELSE misjudged
         \/ (Commit(Refresh(Db, r)) \/ UNCHANGED db) /\ UNCHANGED misjudged
    BY <1>2, <1>3, <1>4 DEF Finalize
<1>7. CASE /\ Commit(Refresh(WithSlot(r, s, FinalizedSlot(x, w, status)), r))
           /\ misjudged' = IF status = "transport_failed" /\ OtherAttempt(i, r, s)
                           THEN misjudged \union {<<r, s>>} ELSE misjudged
    BY <1>2, <1>3, <1>4, <1>5, <1>6, <1>7, FinalizeHeld DEF HeldOutcome
<1>8. CASE (Commit(Refresh(Db, r)) \/ UNCHANGED db) /\ UNCHANGED misjudged
    <2>1. w.pc # "idle" BY <1>6 DEF Outcomes
    <2>2. Db.run[r] # "none" BY <1>2, <1>3, <2>1, Parts DEF Attempts, Attempting, Db
    <2>3. Tables(Db') /\ Quiet(Db, Db') /\ Kept(Db, Db')
        <3>1. CASE Commit(Refresh(Db, r))
            <4>1. /\ Tables(Refresh(Db, r)) /\ SameRevisions(Db, Refresh(Db, r))
                  /\ Quiet(Db, Refresh(Db, r))
                BY <1>1, <2>2, RefreshKept
            <4>2. Db' = Refresh(Db, r) BY <3>1, <4>1, Committed DEF Tables
            <4> QED BY <4>1, <4>2, SameKept
        <3>2. CASE UNCHANGED db BY <1>1, <3>2, SameTables
        <3> QED BY <1>8, <3>1, <3>2
    <2>4. UNCHANGED <<clock, key, sent, misjudged, overran, acked>> BY <1>5, <1>8 DEF mail
    <2>5. v \in DispatchRow /\ (v.pc = "idle" \/ Adrift(w, v)) BY <1>6, AfterForm
    <2>6. /\ dispatch' \in [Invocations -> [Slots -> DispatchRow]]
          /\ dispatch'[i][s] = v
          /\ \A j \in Invocations, t \in Slots : <<j, t>> # <<i, s>> => dispatch'[j][t] = dispatch[j][t]
        <3>1. OnlyDispatch(i, s, v) BY <1>1, <1>6, <2>5, OneDispatch
        <3> QED BY <3>1 DEF OnlyDispatch
    <2>7. Others' BY <1>1, <2>4, <2>6 DEF Others
    <2>8. ReferralTypeOK' BY <2>3, <2>7, TypePartsNext DEF Tables
    <2>9. \A j \in Invocations, t \in Slots :
             \/ dispatch'[j][t] = dispatch[j][t]
             \/ dispatch'[j][t].pc = "idle"
             \/ Adrift(dispatch[j][t], dispatch'[j][t])
        BY <1>2, <2>5, <2>6
    <2>10. clock <= clock' BY <1>1, <2>4, ReferralDeliveryAssumption DEF Others
    <2>11. Calm BY <2>3, <2>4, <2>9, <2>10 DEF Calm
    <2> QED BY <2>3, <2>8, <2>11, CalmStep
<1> QED BY <1>6, <1>7, <1>8

\* A correction.  What may still arrive of the revision it replaces was
\* acknowledged, and what was not acknowledged can no more arrive.
LEMMA PromoteStep ==
    ASSUME ReferralIInv, NEW r \in Revisions, Promote(r)
    PROVE  ReferralIInv'
<1>1. Tables(Db) /\ DbTyped(Db) /\ Others /\ ReferralTypeOK BY Parts
<1>2. /\ IsHead(Db, r) /\ r < MaxRevision
      /\ acked' = (IF MayArriveLate(r) THEN acked \union {r} ELSE acked)
      /\ run' = [run EXCEPT ![r + 1] = "prepared"]
      /\ UNCHANGED <<clock, slot, dispatch, key, sent, misjudged, overran>> /\ Excused' = Excused
    BY DEF Promote, mail, Excused
<1>3. PICK n \in Revisions : n = r + 1 BY <1>2, FirstRevision DEF Revisions
<1>4. /\ run \in [Revisions -> RunStatus]
      /\ proposal \in [Revisions -> [Causes -> ProposalStatus]]
      /\ slot \in [Revisions -> [Slots -> SlotRow]]
    BY <1>1 DEF DbTyped, Db
<1>5. /\ run' \in [Revisions -> RunStatus] /\ run'[n] = "prepared"
      /\ \A q \in Revisions \ {n} : run'[q] = run[q]
    BY <1>2, <1>3, <1>4 DEF RunStatus
<1>6. PICK row : row = [c \in Causes |-> IF proposal[r][c] = "open" THEN "promoted" ELSE proposal[r][c]]
    OBVIOUS
<1>7. proposal' = [proposal EXCEPT ![r] = row] BY <1>6 DEF Promote
<1>8. row \in [Causes -> ProposalStatus] BY <1>4, <1>6 DEF ProposalStatus
<1>9. /\ proposal' \in [Revisions -> [Causes -> ProposalStatus]]
      /\ \A q \in Revisions \ {r} : proposal'[q] = proposal[q]
    BY <1>4, <1>7, <1>8
<1>10. PICK e : e = [run |-> run', slot |-> slot, proposal |-> proposal'] OBVIOUS
<1>11. Db' = e BY <1>2, <1>10 DEF Db
<1>12. DbTyped(e) /\ e.run = run' /\ e.slot = slot /\ e.proposal = proposal'
    BY <1>4, <1>5, <1>9, <1>10 DEF DbTyped
<1>13. run[r] # "none" /\ run[n] = "none" BY <1>2, <1>3 DEF IsHead, Db
<1>14. \A q \in Revisions : run[q] # "none" => q <= r
    BY <1>1, <1>2, HeadIsLast DEF Tables, Db
<1>15. IsHead(e, n)
    <2> SUFFICES ASSUME n < MaxRevision PROVE e.run[n + 1] = "none"
        BY <1>5, <1>12 DEF IsHead
    <2>1. n + 1 \in Revisions /\ n + 1 # n /\ ~(n + 1 <= r) BY <1>3, FirstRevision DEF Revisions
    <2>2. run[n + 1] = "none" BY <1>14, <2>1
    <2> QED BY <1>5, <1>12, <2>1, <2>2
<1>16. \A p, q \in Revisions : p <= q /\ e.run[q] # "none" => e.run[p] # "none"
    <2> SUFFICES ASSUME NEW p \in Revisions, NEW q \in Revisions, p <= q, run'[q] # "none"
                 PROVE  run'[p] # "none"
        BY <1>12
    <2>1. CASE p = n BY <1>5, <2>1
    <2>2. CASE p # n /\ q # n
        <3>1. run[q] # "none" BY <1>5, <2>2
        <3>2. run[p] # "none" BY <1>1, <3>1 DEF Tables, Consecutive, Db
        <3> QED BY <1>5, <2>2, <3>2
    <2>3. CASE p # n /\ q = n
        <3>1. p <= r BY <1>3, <2>3, FirstRevision DEF Revisions
        <3>2. run[p] # "none" BY <1>1, <1>13, <3>1 DEF Tables, Consecutive, Db
        <3> QED BY <1>5, <2>3, <3>2
    <2> QED BY <2>1, <2>2, <2>3
<1>17. Consecutive(e) BY <1>15, <1>16 DEF Consecutive
<1>18. \A q \in Revisions : IsHead(e, q) => q = n
    <2> SUFFICES ASSUME NEW q \in Revisions, IsHead(e, q) PROVE q = n OBVIOUS
    <2>1. Head(e) = n /\ Head(e) = q BY <1>15, <1>17, HeadIsOne
    <2> QED BY <2>1
<1>19. n # r BY <1>3, FirstRevision DEF Revisions
<1>20. (\A s \in Slots : slot[n][s] = NewSlot) /\ (\A c \in Causes : proposal[n][c] = "none")
    BY <1>1, <1>13 DEF Tables, Unmade, Db
<1>21. Unmade(e)
    <2> SUFFICES ASSUME NEW q \in Revisions, e.run[q] = "none"
                 PROVE  (\A s \in Slots : e.slot[q][s] = NewSlot) /\ \A c \in Causes : e.proposal[q][c] = "none"
        BY DEF Unmade
    <2>1. q # n /\ q # r /\ run[q] = "none" BY <1>5, <1>12, <1>13, <1>19
    <2>2. e.slot[q] = slot[q] /\ e.proposal[q] = proposal[q] BY <1>9, <1>12, <2>1
    <2> QED BY <1>1, <2>1, <2>2 DEF Tables, Unmade, Db
<1>22. \A c \in Causes : e.proposal[n][c] = "none" BY <1>9, <1>12, <1>19, <1>20
<1>23. Unpromoted(e) BY <1>18, <1>22 DEF Unpromoted
<1>24. Obliged(e, n)
    <2>1. \A c \in Recovery : c \in Causes BY DEF Causes
    <2>2. \A s \in Slots : e.slot[n][s].status = "prepared" BY <1>12, <1>20 DEF NewSlot
    <2> QED BY <1>5, <1>12, <1>22, <2>1, <2>2 DEF Obliged, FailureFollowed, Obligation, Terminal
<1>25. Tables(e) BY <1>12, <1>17, <1>18, <1>21, <1>23, <1>24 DEF Tables
<1>26. acked' \subseteq Revisions /\ acked \subseteq acked' BY <1>1, <1>2 DEF Others
<1>27. Others' BY <1>1, <1>2, <1>26 DEF Others
<1>28. ReferralTypeOK' BY <1>11, <1>12, <1>27, TypePartsNext
<1>29. clock <= clock' /\ clock \in Int BY <1>1, <1>2, ReferralDeliveryAssumption DEF Others
<1>30. ASSUME NEW q \in Revisions, NEW s \in Slots
       PROVE  /\ NoStart(q, s) /\ Follows(slot[q][s], slot'[q][s])
              /\ slot'[q][s] = slot[q][s] /\ sent'[q][s] = sent[q][s] /\ key'[q][s] = key[q][s]
              /\ sent[q][s] <= sent'[q][s]
    <2>1. sent[q][s] \in Nat BY <1>1 DEF Others
    <2> QED BY <1>2, <2>1 DEF NoStart, Posting, Follows
<1>31. OnceUnlessExcused'
    <2> SUFFICES ASSUME NEW q \in Revisions, NEW s \in Slots, <<q, s>> \notin Excused'
                 PROVE  Once(q, s)'
        BY DEF OnceUnlessExcused
    <2>1. Once(q, s) BY <1>2, Parts DEF OnceUnlessExcused
    <2> QED BY <1>1, <1>28, <1>29, <1>30, <2>1, OnceQuiet
<1>32. ASSUME NEW q \in Revisions, NEW s \in Slots PROVE Replaced(q, s)'
    <2> SUFFICES ASSUME run'[q] # "none", ~IsHead(Db', q), q \notin acked', <<q, s>> \notin Excused',
                        NEW i \in Invocations, Posting(i, q, s)'
                 PROVE  sent'[q][s] > 0
        BY DEF Replaced
    <2>1. q # n BY <1>11, <1>15
    <2>2. run[q] # "none" BY <1>5, <2>1
    <2>3. Posting(i, q, s) /\ <<q, s>> \notin Excused /\ q \notin acked
        BY <1>2, <1>26 DEF Posting
    <2>4. CASE q # r
        <3>1. ~IsHead(Db, q) BY <1>1, <1>2, <2>4, HeadIsOne DEF Tables
        <3>2. Replaced(q, s) BY Parts DEF Late
        <3>3. sent[q][s] > 0 BY <2>2, <2>3, <3>1, <3>2 DEF Replaced
        <3> QED BY <1>2, <3>3
    <2>5. CASE q = r
        <3>1. ~MayArriveLate(r) BY <1>2, <2>5
        <3>2. Recorded(r, s) BY Parts DEF Late
        <3>3. Once(r, s) BY <2>3, <2>5, Parts DEF OnceUnlessExcused
        <3>4. slot[r][s].first # Never BY <2>3, <2>5, <3>3 DEF Once, InTime
        <3>5. slot[r][s].status \notin {"sending", "ambiguous", "unverifiable"} \union InFlight
            BY <3>1, <3>4 DEF MayArriveLate
        <3>6. slot[r][s].status # "transport_failed"
            BY <2>3, <2>5, <3>3 DEF Once, FailedUnsent, TakenAsFailed
        <3>7. slot[r][s].status # "prepared" BY <3>2, <3>4 DEF Recorded
        <3>8. slot[r][s].status \in SlotStatus BY <1>4 DEF SlotRow
        <3>9. slot[r][s].status \in {"delivered", "bounced"}
            BY <3>5, <3>6, <3>7, <3>8 DEF SlotStatus, Terminal, InFlight
        <3>10. sent[r][s] > 0 BY <3>2, <3>9 DEF Recorded
        <3> QED BY <1>2, <2>5, <3>10
    <2> QED BY <2>4, <2>5
<1>33. Late'
    <2> SUFFICES ASSUME NEW q \in Revisions, NEW s \in Slots PROVE Recorded(q, s)' /\ Replaced(q, s)'
        BY DEF Late
    <2>1. Recorded(q, s) BY Parts DEF Late
    <2>2. Recorded(q, s)' BY <1>1, <1>28, <1>30, <2>1, RecordedQuiet
    <2> QED BY <1>32, <2>2
<1>34. Attempts'
    <2> SUFFICES ASSUME NEW i \in Invocations, NEW s \in Slots PROVE Attempting(i, s)'
        BY DEF Attempts
    <2>1. Attempting(i, s) BY Parts DEF Attempts
    <2>2. dispatch[i][s].revision \in Revisions BY <1>1 DEF Others, DispatchRow
    <2>3. run[dispatch[i][s].revision] # "none" => run'[dispatch[i][s].revision] # "none"
        BY <1>5, <2>2
    <2> QED BY <1>2, <2>1, <2>3 DEF Attempting
<1> QED BY <1>11, <1>25, <1>28, <1>31, <1>33, <1>34 DEF ReferralIInv

LEMMA InitialTables ==
    ASSUME ReferralInit
    PROVE  Tables(Db)
<1>1. NewSlot \in SlotRow
    BY ReferralDeliveryAssumption DEF NewSlot, SlotRow, SlotStatus
<1>2. /\ Db.run = [r \in Revisions |-> "none"]
      /\ Db.slot = [r \in Revisions |-> [s \in Slots |-> NewSlot]]
      /\ Db.proposal = [r \in Revisions |-> [c \in Causes |-> "none"]]
    BY DEF ReferralInit, Db
<1>3. DbTyped(Db) BY <1>1 DEF ReferralInit, Db, DbTyped, RunStatus, ProposalStatus
<1>4. \A r \in Revisions : Db.run[r] = "none" BY <1>2
<1>5. \A r \in Revisions : ~IsHead(Db, r) BY <1>4 DEF IsHead
<1>6. Consecutive(Db) BY <1>4, FirstRevision DEF Consecutive
<1>7. Unmade(Db) BY <1>2 DEF Unmade
<1>8. Unpromoted(Db) BY <1>5 DEF Unpromoted
<1> QED BY <1>3, <1>5, <1>6, <1>7, <1>8 DEF Tables

LEMMA InitReferralIInv == ReferralInit => ReferralIInv
<1> SUFFICES ASSUME ReferralInit PROVE ReferralIInv OBVIOUS
<1>1. Tables(Db) BY InitialTables
<1>2. /\ clock = 0 /\ misjudged = {} /\ overran = {} /\ acked = {}
      /\ \A r \in Revisions, s \in Slots : slot[r][s] = NewSlot /\ key[r][s] = 0 /\ sent[r][s] = 0
      /\ \A i \in Invocations, s \in Slots : dispatch[i][s] = IdleDispatch
      /\ key \in [Revisions -> [Slots -> {0}]] /\ sent \in [Revisions -> [Slots -> {0}]]
      /\ dispatch \in [Invocations -> [Slots -> {IdleDispatch}]]
    BY DEF ReferralInit
<1>3. IdleDispatch \in DispatchRow /\ IdleDispatch.pc = "idle"
    BY FirstRevision, ReferralDeliveryAssumption DEF IdleDispatch, DispatchRow
<1>4. 0 \in 0..MaxTime /\ 0 \in 0..(MaxTime + Window) BY ReferralDeliveryAssumption
<1>5. Others BY <1>2, <1>3, <1>4 DEF Others
<1>6. ReferralTypeOK BY <1>1, <1>5, TypeParts DEF Tables
<1>7. /\ NewSlot.first = -1 /\ NewSlot.status = "prepared" /\ NewSlot.message = 0 /\ NewSlot.proven = FALSE
    BY DEF NewSlot, Never
<1>8. \A i \in Invocations, r \in Revisions, s \in Slots : ~Posting(i, r, s)
    BY <1>2, <1>3 DEF Posting
<1>9. ASSUME NEW r \in Revisions, NEW s \in Slots PROVE Once(r, s) /\ Recorded(r, s) /\ Replaced(r, s)
    <2>1. Keyed(r, s) BY <1>2, <1>7 DEF Keyed
    <2>2. InTime(r, s) /\ Overlap(r, s) BY <1>8 DEF InTime, Overlap
    <2>3. FailedUnsent(r, s) BY <1>2, <1>8 DEF FailedUnsent
    <2>4. Recorded(r, s) BY <1>2, <1>7 DEF Recorded, Never
    <2>5. Replaced(r, s) BY <1>8 DEF Replaced
    <2> QED BY <2>1, <2>2, <2>3, <2>4, <2>5 DEF Once
<1>10. Attempts BY <1>2, <1>3 DEF Attempts, Attempting
<1> QED BY <1>1, <1>6, <1>9, <1>10 DEF ReferralIInv, OnceUnlessExcused, Late

\* What LateOnlyIfAcknowledged says of a step.
LateStep ==
    \A r \in Revisions, s \in Slots :
        sent'[r][s] > sent[r][s] /\ ~IsHead(Db, r) => r \in acked \/ <<r, s>> \in Excused'

LEMMA SentUnchanged ==
    ASSUME ReferralIInv, sent' = sent
    PROVE  LateStep
<1> SUFFICES ASSUME NEW r \in Revisions, NEW s \in Slots PROVE ~(sent'[r][s] > sent[r][s])
    BY DEF LateStep
<1>1. sent[r][s] \in Nat BY Parts DEF Others
<1> QED BY <1>1

LEMMA ReferralStep ==
    ASSUME ReferralIInv, ReferralNext
    PROVE  ReferralIInv' /\ LateStep
<1>1. CASE ReferralTick BY <1>1, TickStep, SentUnchanged DEF ReferralTick, mail
<1>2. ASSUME NEW i \in Invocations, NEW r \in Revisions, Prepare(i, r)
      PROVE  ReferralIInv' /\ LateStep
    BY <1>2, PrepareStep, SentUnchanged DEF Prepare, mail
<1>3. ASSUME NEW i \in Invocations, NEW s \in Slots, Dispatch(i, s)
      PROVE  ReferralIInv' /\ LateStep
    <2>1. CASE StartAttempt(i, s) BY <2>1, StartAttemptStep, SentUnchanged DEF StartAttempt, mail
    <2>2. CASE Accept(i, s) BY <2>2, AcceptStep DEF LateStep
    <2>3. CASE Finalize(i, s) BY <2>3, FinalizeStep, SentUnchanged DEF Finalize, mail
    <2>4. CASE Abandon(i, s) BY <2>4, AbandonStep, SentUnchanged DEF Abandon, mail
    <2> QED BY <1>3, <2>1, <2>2, <2>3, <2>4 DEF Dispatch
<1>4. ASSUME NEW r \in Revisions, NEW s \in Slots, RecordEvent(r, s)
      PROVE  ReferralIInv' /\ LateStep
    BY <1>4, RecordEventStep, SentUnchanged DEF RecordEvent, mail
<1>5. ASSUME NEW r \in Revisions, NEW s \in Slots, MarkDeadline(r, s)
      PROVE  ReferralIInv' /\ LateStep
    BY <1>5, MarkDeadlineStep, SentUnchanged DEF MarkDeadline, mail
<1>6. ASSUME NEW r \in Revisions, Correct(r)
      PROVE  ReferralIInv' /\ LateStep
    <2>1. CASE OpenDrift(r) BY <2>1, OpenDriftStep, SentUnchanged DEF OpenDrift, mail
    <2>2. CASE DismissDrift(r) BY <2>2, DismissDriftStep, SentUnchanged DEF DismissDrift, mail
    <2>3. CASE Promote(r) BY <2>3, PromoteStep, SentUnchanged DEF Promote, mail
    <2> QED BY <1>6, <2>1, <2>2, <2>3 DEF Correct
<1> QED BY <1>1, <1>2, <1>3, <1>4, <1>5, <1>6 DEF ReferralNext

LEMMA ReferralStutter ==
    ASSUME ReferralIInv, UNCHANGED referralVars
    PROVE  ReferralIInv' /\ LateStep
<1>1. /\ UNCHANGED <<clock, dispatch, key, sent, misjudged, overran, acked>> /\ db' = db
    BY DEF referralVars, mail, history
<1>2. Tables(Db) /\ DbTyped(Db) /\ Others BY Parts
<1>3. Db' = Db /\ Quiet(Db, Db') /\ Kept(Db, Db') BY <1>1, SameTables
<1>4. Others' BY <1>1, <1>2 DEF Others
<1>5. ReferralTypeOK' BY <1>2, <1>3, <1>4, TypePartsNext
<1>6. clock <= clock' BY <1>1, <1>2 DEF Others
<1>7. Calm BY <1>1, <1>3, <1>6 DEF Calm
<1>8. Tables(Db') BY <1>2, <1>3
<1> QED BY <1>1, <1>5, <1>7, <1>8, CalmStep, SentUnchanged

\* The tables of the report are in order, and the two invariants of its slots
\* hold, after every RPC, POST, event and correction.
THEOREM ReferralInductive == ReferralSpec => []ReferralIInv
<1>1. ReferralIInv /\ [ReferralNext]_referralVars => ReferralIInv'
    BY ReferralStep, ReferralStutter
<1> QED BY InitReferralIInv, <1>1, PTL DEF ReferralSpec

\* Every row of the report's tables and every attempt is of its type.
THEOREM ReferralTypeCorrect == ReferralSpec => []ReferralTypeOK
<1>1. ReferralIInv => ReferralTypeOK BY DEF ReferralIInv
<1> QED BY <1>1, ReferralInductive, PTL

\* Nobody is sent a revision twice unless one of the slot's attempts was stamped
\* transport_failed while another had been accepted or still could be, or a
\* repetition reached the provider later than the margin after its start.
THEOREM SentOnce == ReferralSpec => []SentTwiceOnlyIfMisjudgedOrLate
<1>1. ReferralIInv => SentTwiceOnlyIfMisjudgedOrLate
    <2> SUFFICES ASSUME ReferralIInv, NEW r \in Revisions, NEW s \in Slots,
                        sent[r][s] > 1, <<r, s>> \notin Excused
                 PROVE  FALSE
        BY DEF SentTwiceOnlyIfMisjudgedOrLate
    <2>1. sent[r][s] <= 1 BY Parts DEF OnceUnlessExcused, Once, Keyed
    <2>2. sent[r][s] \in Nat BY Parts DEF Others
    <2> QED BY <2>1, <2>2
<1> QED BY <1>1, ReferralInductive, PTL

\* The newest revision asks for attention exactly while a recovery proposal for
\* it is open, in whatever order events, deadlines, retries and corrections come.
THEOREM AttentionObliged == ReferralSpec => []AttentionHasObligation
<1>1. ReferralIInv => AttentionHasObligation
    BY DEF ReferralIInv, Tables, Obliged, Obligation, AttentionHasObligation, Db
<1> QED BY <1>1, ReferralInductive, PTL

\* Nothing is sent of a replaced revision that its replacement did not
\* acknowledge, but for a slot that was misjudged or a repetition that overran.
THEOREM LateAcknowledged == ReferralSpec => LateOnlyIfAcknowledged
<1>1. ReferralIInv /\ [ReferralNext]_referralVars => [LateStep]_referralVars
    BY ReferralStep, ReferralStutter
<1>2. ReferralSpec => [][LateStep]_referralVars
    BY <1>1, ReferralInductive, PTL DEF ReferralSpec
<1> QED BY <1>2 DEF LateStep, LateOnlyIfAcknowledged

==============================================================================
