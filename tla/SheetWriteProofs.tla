--------------------------- MODULE SheetWriteProofs ---------------------------
(***************************************************************************)
(* Theorems about SheetWrite and the KillSwitch it reads, for any number of *)
(* operators, edits and operator runs, any skew of their clocks and any     *)
(* length of time: the switch, what a result says, and what a batch may     *)
(* overwrite.                                                               *)
(***************************************************************************)
EXTENDS SheetWrite, FiniteSetTheorems, TLAPS

(* The kill switch *)

IsLatest(e, set) == e \in set /\ \A d \in set : Overtakes(e, d)

\* What the script confirmed was the latest of the table it had read back.
SwitchInv ==
    /\ SwitchTypeOK
    /\ \A o \in Operators : runs[o].pc = "confirmed" =>
          /\ runs[o].seen \subseteq events
          /\ IsLatest(Row(o), runs[o].seen)

\* Nothing is confirmed yet.
LEMMA SwitchInitInv == SwitchInit => SwitchInv
<1> SUFFICES ASSUME SwitchInit PROVE SwitchInv
    OBVIOUS
<1> DEFINE setup == [at |-> 0, engaged |-> FALSE, script |-> TRUE, by |-> "setup"]
<1>1. setup \in Event
    BY DEF Event
<1>2. SwitchTypeOK
  <2>1. [pc |-> "idle", at |-> 0, engaged |-> FALSE, seen |-> {}] \in Run
      BY DEF Run
  <2> QED
      BY <1>1, <2>1 DEF SwitchInit, SwitchTypeOK
<1>3. \A o \in Operators : runs[o].pc = "idle"
    BY DEF SwitchInit
<1> QED
    BY <1>2, <1>3 DEF SwitchInv

\* Rows that are added leave the invariant, when the invocation that ran does.
LEMMA RanInv ==
    ASSUME SwitchInv, SwitchTypeOK', NEW o \in Operators, NEW row \in Run,
           runs' = [runs EXCEPT ![o] = row],
           \/ events' = events
           \/ \E new \in Event : events' = events \union {new},
           row.pc # "confirmed"
    PROVE  SwitchInv'
<1>1. events \subseteq events' /\ events \subseteq Event
    BY DEF SwitchInv, SwitchTypeOK
<1>2. ASSUME NEW p \in Operators, runs'[p].pc = "confirmed"
      PROVE  /\ runs'[p].seen \subseteq events'
             /\ IsLatest(Row(p)', runs'[p].seen)
  <2>1. p # o /\ runs'[p] = runs[p]
      BY <1>2 DEF SwitchInv, SwitchTypeOK
  <2>2. Row(p)' = Row(p)
      BY <2>1 DEF Row
  <2> QED
      BY <1>1, <1>2, <2>1, <2>2 DEF SwitchInv
<1> QED
    BY <1>2 DEF SwitchInv, IsLatest, Overtakes

\* Every step of the operators and of their clocks keeps the invariant.
LEMMA SwitchNextInv == SwitchInv /\ SwitchNext => SwitchInv'
<1> SUFFICES ASSUME SwitchInv, SwitchNext PROVE SwitchInv'
    OBVIOUS
<1>1. CASE Tick
    BY <1>1 DEF Tick, SwitchInv, SwitchTypeOK, Row, IsLatest, Overtakes
<1>2. ASSUME NEW o \in Operators, Stamp(o) \/ Record(o) \/ ReadBack(o) \/ ByHand(o)
      PROVE  SwitchInv'
  <2>0. runs[o] \in Run /\ runs \in [Operators -> Run] /\ events \subseteq Event /\ now \in Nat
      BY DEF SwitchInv, SwitchTypeOK
  <2>1. CASE Stamp(o)
    <3>1. PICK at \in Stamps, engaged \in BOOLEAN :
             runs' = [runs EXCEPT ![o] =
                         [runs[o] EXCEPT !.pc = "record", !.at = at, !.engaged = engaged]]
        BY <2>1 DEF Stamp
    <3> DEFINE row == [runs[o] EXCEPT !.pc = "record", !.at = at, !.engaged = engaged]
    <3>2. at \in Nat
        BY DEF Stamps
    <3>3. row \in Run /\ row.pc = "record"
        BY <2>0, <3>2 DEF Run
    <3>4. events' = events /\ now' = now
        BY <2>1 DEF Stamp
    <3> HIDE DEF row
    <3>5. SwitchTypeOK'
        BY <2>0, <3>1, <3>3, <3>4 DEF SwitchTypeOK, row
    <3> QED
        BY <3>1, <3>3, <3>4, <3>5, RanInv DEF row
  <2>2. ASSUME NEW pc \in {"readBack", "unconfirmed"}, Ran(o, pc), now' = now,
               events' = events \/ \E new \in Event : events' = events \union {new}
        PROVE  SwitchInv'
    <3> DEFINE row == [runs[o] EXCEPT !.pc = pc]
    <3>1. row \in Run /\ row.pc = pc
        BY <2>0 DEF Run
    <3>2. runs' = [runs EXCEPT ![o] = row]
        BY <2>2 DEF Ran
    <3> HIDE DEF row
    <3>3. SwitchTypeOK'
        BY <2>0, <2>2, <3>1, <3>2 DEF SwitchTypeOK
    <3> QED
        BY <2>2, <3>1, <3>2, <3>3, RanInv
  <2>3. CASE Record(o)
    <3>1. Row(o) \in Event
        BY <2>0 DEF Row, Event, Run
    <3>2. now' = now
        BY <2>3 DEF Record
    <3>3. \/ events' = events \union {Row(o)} /\ \E pc \in {"readBack", "unconfirmed"} : Ran(o, pc)
          \/ Ran(o, "unconfirmed") /\ events' = events
        BY <2>3 DEF Record
    <3> QED
        BY <2>2, <3>1, <3>2, <3>3
  <2>4. CASE ByHand(o)
    <3>1. PICK at \in Stamps, engaged \in BOOLEAN :
             events' = events \union {[at |-> at, engaged |-> engaged, script |-> FALSE, by |-> o]}
        BY <2>4 DEF ByHand
    <3>2. [at |-> at, engaged |-> engaged, script |-> FALSE, by |-> o] \in Event
        BY DEF Event, Stamps
    <3>3. Ran(o, "unconfirmed") /\ now' = now
        BY <2>4 DEF ByHand
    <3> QED
        BY <2>2, <3>1, <3>2, <3>3
  <2>5. CASE ReadBack(o)
    <3>1. CASE Ran(o, "unconfirmed")
        BY <2>2, <2>5, <3>1 DEF ReadBack
    <3>2. CASE /\ Row(o) \in Latest
               /\ runs' = [runs EXCEPT ![o] = [runs[o] EXCEPT !.pc = "confirmed", !.seen = events]]
      <4>1. events' = events /\ now' = now
          BY <2>5 DEF ReadBack
      <4> DEFINE row == [runs[o] EXCEPT !.pc = "confirmed", !.seen = events]
      <4>2. row \in Run /\ row.seen = events /\ row.at = runs[o].at /\ row.engaged = runs[o].engaged
          BY <2>0 DEF Run
      <4> HIDE DEF row
      <4>3. runs' = [runs EXCEPT ![o] = row]
          BY <3>2 DEF row
      <4>4. SwitchTypeOK'
          BY <2>0, <4>1, <4>2, <4>3 DEF SwitchTypeOK
      <4>5. IsLatest(Row(o), events)
          BY <3>2 DEF Latest, IsLatest
      <4>6. ASSUME NEW p \in Operators, runs'[p].pc = "confirmed"
            PROVE  runs'[p].seen \subseteq events' /\ IsLatest(Row(p)', runs'[p].seen)
        <5>1. CASE p = o
          <6>1. runs'[p] = row
              BY <2>0, <4>3, <5>1
          <6>2. Row(p)' = Row(o)
              BY <4>2, <5>1, <6>1 DEF Row
          <6> QED
              BY <4>1, <4>2, <4>5, <6>1, <6>2
        <5>2. CASE p # o
          <6>1. runs'[p] = runs[p]
              BY <2>0, <4>3, <5>2
          <6>2. Row(p)' = Row(p)
              BY <6>1 DEF Row
          <6> QED
              BY <4>1, <4>6, <6>1, <6>2 DEF SwitchInv
        <5> QED
            BY <5>1, <5>2
      <4> QED
          BY <4>1, <4>4, <4>6 DEF SwitchInv, IsLatest, Overtakes
    <3> QED
        BY <2>5, <3>1, <3>2 DEF ReadBack
  <2> QED
      BY <1>2, <2>1, <2>3, <2>4, <2>5
<1> QED
    BY <1>1, <1>2 DEF SwitchNext

\* What the invariant says of the switch: a confirmed engagement holds.
LEMMA EngagementHolds == SwitchInv => ConfirmedEngageHolds
<1> SUFFICES ASSUME SwitchInv, NEW o \in Operators,
                    runs[o].pc = "confirmed", runs[o].engaged, Clear
             PROVE  TakenBack(o)
    BY DEF ConfirmedEngageHolds
<1>1. PICK e \in events : e \in Latest /\ ~e.engaged
    BY DEF Clear, Latest
<1>2. e \in Event /\ Row(o) \in Event
    BY DEF SwitchInv, SwitchTypeOK, Row, Event, Run
<1>3. runs[o].seen \subseteq events /\ IsLatest(Row(o), runs[o].seen)
    BY DEF SwitchInv
<1>4. Row(o).at = runs[o].at /\ Row(o).engaged
    BY DEF Row
<1>5. Overtakes(e, Row(o))
    BY <1>1, <1>3 DEF IsLatest, Latest
<1>6. e.at > runs[o].at
    BY <1>1, <1>2, <1>4, <1>5 DEF Overtakes, Event
<1>7. e \notin runs[o].seen
    BY <1>1, <1>2, <1>3, <1>4, <1>6 DEF IsLatest, Overtakes, Event
<1> QED
    BY <1>1, <1>6, <1>7 DEF TakenBack

\* The operator script alone: whatever invocations, clocks and rows by hand do,
\* a switch whose engagement was confirmed reads engaged until somebody takes
\* the engagement back.
THEOREM EngagementStays == SwitchSpec => []ConfirmedEngageHolds
<1>1. SwitchInv /\ [SwitchNext]_switch => SwitchInv'
  <2>1. SwitchInv /\ UNCHANGED switch => SwitchInv'
      BY DEF switch, SwitchInv, SwitchTypeOK, Row, IsLatest, Overtakes
  <2> QED
      BY <2>1, SwitchNextInv
<1> QED
    BY <1>1, SwitchInitInv, EngagementHolds, PTL DEF SwitchSpec

-----------------------------------------------------------------------------
(* The write *)

Before == {"authorization", "reads", "gate", "mutation"}

\* The count and the certification follow the control.
CountAt ==
    /\ call.pc \in Before =>
          call.count = 0 /\ call.cert = "not_attempted" /\ call.status = "none"
    /\ call.pc \in {"gate", "mutation", "postState", "settlement", "recovery", "rollback"} =>
          call.action = "change"
    /\ call.pc \in {"postState", "settlement", "recovery", "rollback"} => call.count = 1
    /\ call.pc = "postState" => call.cert \in {"postimage_rejected", "ambiguous"}
    /\ call.pc \in {"settlement", "recovery", "rollback", "rollbackRecovery"} =>
          call.cert = "ambiguous"
    /\ call.status = "unchanged" \/ call.cert = "not_attempted" => call.count = 0
    /\ call.cert = "postimage_verified" => call.count = 1

\* Which batches were applied and which may be.
Accounts ==
    /\ call.count = 0 => ours = {} /\ net = {}
    /\ call.count = 1 => "rollback" \notin ours \union net
    /\ ours \intersect net = {}
    /\ call.pc = "postState" \/ call.cert = "postimage_verified" => "forward" \in ours

\* Only the forward batch brings about what a change wants, so a read that shows
\* it has seen the batch.
DesiredIsOurs ==
    call.action = "change" /\ (book.own = "desired" \/ call.saw.own = "desired") =>
        "forward" \in ours

\* The Drive version a call compares with is not ahead of the content, so an
\* edit after the read of the content is newer than that version.
EditsAreNewer ==
    /\ drive <= changes /\ call.before <= changes /\ call.fenced <= changes
    /\ call.pc = "reads" /\ call.form = "values" /\ "metadata" \in call.todo =>
          "own" \in call.todo
    /\ call.pc = "reads" /\ "own" \notin call.todo /\ book.own = "edited" =>
          lastEdit > call.before
    /\ call.pc \in {"gate", "mutation"} \/ call.count # 0 =>
          (book.own = "edited" => lastEdit > call.fenced)

IInv == TypeOK /\ SwitchInv /\ CountAt /\ Accounts /\ DesiredIsOurs /\ EditsAreNewer

\* The initial states satisfy the invariant.
LEMMA InitIInv == Init => IInv
<1> SUFFICES ASSUME Init PROVE IInv
    OBVIOUS
<1>1. PICK form \in {"values", "structure"}, action \in {"no_op", "change"} :
         /\ book = [own |-> IF action = "no_op" THEN "desired" ELSE "planned",
                    rest |-> "planned"]
         /\ call = [pc |-> "authorization", form |-> form, action |-> action, todo |-> {},
                    before |-> drive, fenced |-> 0, version |-> 0, saw |-> Unread, count |-> 0,
                    cert |-> "not_attempted", status |-> "none"]
    BY DEF Init
<1>2. changes = 2 /\ lastEdit = 0 /\ edits = 0 /\ drive \in {1, 2} /\ permit = TRUE
      /\ net = {} /\ ours = {}
    BY DEF Init
<1>3. SwitchInv
    BY SwitchInitInv DEF Init
<1>4. book \in Book /\ Unread \in Book
    BY <1>1 DEF Book, Unread
<1>5. call \in Call
    BY <1>1, <1>2, <1>4 DEF Call, PC, Certification
<1>6. TypeOK
    BY <1>2, <1>3, <1>4, <1>5 DEF TypeOK, SwitchInv
<1>7. CountAt /\ Accounts
    BY <1>1, <1>2 DEF CountAt, Accounts, Before
<1>8. DesiredIsOurs
    BY <1>1 DEF DesiredIsOurs, Unread
<1>9. EditsAreNewer
    BY <1>1, <1>2 DEF EditsAreNewer
<1> QED
    BY <1>3, <1>6, <1>7, <1>8, <1>9 DEF IInv

\* The parts of the invariant that speak of the call, with a row for it.
RowOK(row) ==
    /\ row \in Call
    /\ row.action = call.action /\ row.count = call.count
    /\ row.pc \in Before => row.cert = "not_attempted" /\ row.status = "none" /\ row.count = 0
    /\ row.pc \in {"gate", "mutation"} => row.action = "change"
    /\ row.pc \in {"postState", "settlement", "recovery", "rollback", "rollbackRecovery"} =>
          \/ row.pc = call.pc /\ row.cert = call.cert
          \/ row.pc = "rollback" /\ call.pc = "recovery" /\ row.cert = "ambiguous"
    /\ row.status = "unchanged" \/ row.cert = "not_attempted" => row.count = 0
    /\ row.cert = "postimage_verified" => row.count = 1 /\ "forward" \in ours
    /\ row.saw.own = "desired" => call.saw.own = "desired" \/ book.own = "desired"
    /\ row.before <= changes /\ row.fenced <= changes
    /\ row.pc = "reads" /\ row.form = "values" /\ "metadata" \in row.todo => "own" \in row.todo
    /\ row.pc = "reads" /\ "own" \notin row.todo /\ book.own = "edited" => lastEdit > row.before
    /\ row.count # 0 => row.fenced = call.fenced
    /\ row.pc \in {"gate", "mutation"} => (book.own = "edited" => lastEdit > row.fenced)

\* A step that only moves the call on.
LEMMA GoesIInv ==
    ASSUME IInv, NEW row, RowOK(row), Goes(row)
    PROVE  IInv'
<1>1. call' = row /\ UNCHANGED <<book, changes, lastEdit, edits, ours, drive, permit, net>>
    BY DEF Goes, workbook, outside
<1>2. now' = now /\ events' = events /\ runs' = runs
    BY DEF Goes, outside, switch
<1>3. SwitchInv'
    BY <1>2 DEF IInv, SwitchInv, SwitchTypeOK, IsLatest, Row, Overtakes
<1>4. TypeOK'
    BY <1>1, <1>3 DEF IInv, TypeOK, SwitchInv, RowOK
<1>5. row.pc \in PC /\ row.count \in 0..2
    BY DEF RowOK, Call
<1>6. CountAt'
    BY <1>1, <1>5 DEF IInv, CountAt, RowOK, Before
<1>7. Accounts'
    BY <1>1 DEF IInv, Accounts, RowOK, CountAt
<1>8. DesiredIsOurs'
    BY <1>1 DEF IInv, DesiredIsOurs, RowOK
<1>9. EditsAreNewer'
    BY <1>1 DEF IInv, EditsAreNewer, RowOK
<1> QED
    BY <1>3, <1>4, <1>6, <1>7, <1>8, <1>9 DEF IInv

\* The rows an action leaves to are calls.
LEMMA Rows ==
    ASSUME TypeOK
    PROVE  /\ \A pc \in PC : /\ To(pc) \in Call /\ To(pc).pc = pc
                             /\ To(pc).saw.own = "planned" /\ To(pc).todo = {}
                             /\ To(pc).action = call.action /\ To(pc).form = call.form
                             /\ To(pc).before = call.before /\ To(pc).fenced = call.fenced
                             /\ To(pc).count = call.count /\ To(pc).cert = call.cert
                             /\ To(pc).status = call.status
           /\ \A status \in {"none", "unchanged", "changed", "failed"}, cert \in Certification :
                 LET row == Ends(status, cert)
                 IN  /\ row \in Call /\ row.pc = "done" /\ row.saw.own = "planned"
                     /\ row.action = call.action /\ row.count = call.count
                     /\ row.before = call.before /\ row.fenced = call.fenced
                     /\ row.cert = cert /\ row.status = status
           /\ \A read \in call.todo :
                 LET row == Done(read)
                 IN  /\ row \in Call /\ row.pc = call.pc /\ row.saw = call.saw
                     /\ row.todo = call.todo \ {read}
                     /\ row.action = call.action /\ row.form = call.form
                     /\ row.before = call.before /\ row.fenced = call.fenced
                     /\ row.count = call.count /\ row.cert = call.cert
                     /\ row.status = call.status
<1>1. call \in Call /\ Unread \in Book
    BY DEF TypeOK, Unread, Book
<1>2. ASSUME NEW pc \in PC
      PROVE  /\ To(pc) \in Call /\ To(pc).pc = pc
             /\ To(pc).saw.own = "planned" /\ To(pc).todo = {}
             /\ To(pc).action = call.action /\ To(pc).form = call.form
             /\ To(pc).before = call.before /\ To(pc).fenced = call.fenced
             /\ To(pc).count = call.count /\ To(pc).cert = call.cert
             /\ To(pc).status = call.status
    BY <1>1 DEF To, Call, Unread
<1>3. ASSUME NEW status \in {"none", "unchanged", "changed", "failed"}, NEW cert \in Certification
      PROVE  LET row == Ends(status, cert)
             IN  /\ row \in Call /\ row.pc = "done" /\ row.saw.own = "planned"
                 /\ row.action = call.action /\ row.count = call.count
                 /\ row.before = call.before /\ row.fenced = call.fenced
                 /\ row.cert = cert /\ row.status = status
  <2>1. "done" \in PC
      BY DEF PC
  <2>2. To("done") \in Call /\ To("done").pc = "done" /\ To("done").saw.own = "planned"
        /\ To("done").action = call.action /\ To("done").before = call.before
        /\ To("done").fenced = call.fenced /\ To("done").count = call.count
      BY <1>2, <2>1
  <2> QED
      BY <2>2 DEF Ends, Call
<1>4. ASSUME NEW read \in call.todo
      PROVE  LET row == Done(read)
             IN  /\ row \in Call /\ row.pc = call.pc /\ row.saw = call.saw
                 /\ row.todo = call.todo \ {read}
                 /\ row.action = call.action /\ row.form = call.form
                 /\ row.before = call.before /\ row.fenced = call.fenced
                 /\ row.count = call.count /\ row.cert = call.cert
                 /\ row.status = call.status
    BY <1>1 DEF Done, Call
<1> QED
    BY <1>2, <1>3, <1>4

\* A call that ends leaves the invariant.
LEMMA EndsIInv ==
    ASSUME IInv, NEW status \in {"unchanged", "changed", "failed"}, NEW cert \in Certification,
           Goes(Ends(status, cert)),
           status = "unchanged" \/ cert = "not_attempted" => call.count = 0,
           cert = "postimage_verified" => call.count = 1 /\ "forward" \in ours
    PROVE  IInv'
<1> DEFINE row == Ends(status, cert)
<1>1. /\ row \in Call /\ row.pc = "done" /\ row.saw.own = "planned"
      /\ row.action = call.action /\ row.count = call.count
      /\ row.before = call.before /\ row.fenced = call.fenced
      /\ row.cert = cert /\ row.status = status
    BY Rows DEF IInv
<1>2. Goes(row)
    OBVIOUS
<1> HIDE DEF row
<1>3. RowOK(row)
    BY <1>1 DEF RowOK, IInv, EditsAreNewer, Before
<1> QED
    BY <1>2, <1>3, GoesIInv

\* The certifications the code names.
LEMMA Certifications ==
    {"not_attempted", "preimage_verified", "postimage_verified", "postimage_rejected", "ambiguous"}
        \subseteq Certification
BY DEF Certification

\* The preflight, up to the mutation boundary.
LEMMA PreflightIInv ==
    IInv /\ (Authorize \/ ReadMetadata \/ ReadContent \/ Fenced \/ Gate) => IInv'
<1> SUFFICES ASSUME IInv, Authorize \/ ReadMetadata \/ ReadContent \/ Fenced \/ Gate
             PROVE  IInv'
    OBVIOUS
<1>0. call.count = 0 /\ call.cert = "not_attempted" /\ call.status = "none" /\ call \in Call
    BY DEF IInv, CountAt, Before, TypeOK, Authorize, ReadMetadata, ReadContent, Fenced, Gate
<1>1. CASE Goes(Fails("not_attempted"))
    BY <1>0, <1>1, EndsIInv, Certifications DEF Fails
<1>2. CASE Authorize /\ ~Goes(Fails("not_attempted"))
  <2> DEFINE row == [To("reads") EXCEPT !.todo = {"metadata", "own", "rest"}]
  <2>1. "reads" \in PC
      BY DEF PC
  <2>2. /\ row \in Call /\ row.pc = "reads" /\ row.saw.own = "planned"
        /\ row.todo = {"metadata", "own", "rest"}
        /\ row.action = call.action /\ row.before = call.before /\ row.fenced = call.fenced
        /\ row.count = call.count /\ row.cert = call.cert /\ row.status = call.status
      BY <2>1, Rows DEF IInv, Call
  <2>3. Goes(row)
      BY <1>2 DEF Authorize
  <2> HIDE DEF row
  <2>4. RowOK(row)
      BY <1>0, <2>2 DEF RowOK, IInv, EditsAreNewer, Before
  <2> QED
      BY <2>3, <2>4, GoesIInv
<1>3. CASE ReadMetadata /\ ~Goes(Fails("not_attempted"))
  <2>1. call.pc = "reads" /\ "metadata" \in call.todo
      BY <1>3 DEF ReadMetadata
  <2>2. /\ Done("metadata") \in Call /\ Done("metadata").pc = "reads"
        /\ Done("metadata").saw = call.saw
        /\ Done("metadata").todo = call.todo \ {"metadata"}
        /\ Done("metadata").action = call.action /\ Done("metadata").form = call.form
        /\ Done("metadata").before = call.before /\ Done("metadata").fenced = call.fenced
        /\ Done("metadata").count = 0 /\ Done("metadata").cert = "not_attempted"
        /\ Done("metadata").status = "none"
      BY <1>0, <2>1, Rows DEF IInv
  <2>3. CASE call.form = "values" /\ Goes([Done("metadata") EXCEPT !.before = drive])
    <3> DEFINE row == [Done("metadata") EXCEPT !.before = drive]
    <3>1. /\ row \in Call /\ row.pc = "reads" /\ row.saw = call.saw
          /\ row.todo = call.todo \ {"metadata"} /\ row.before = drive
          /\ row.action = call.action /\ row.fenced = call.fenced
          /\ row.count = 0 /\ row.cert = "not_attempted" /\ row.status = "none"
        BY <2>2 DEF Call, IInv, TypeOK
    <3>2. Goes(row)
        BY <2>3
    <3> HIDE DEF row
    <3>3. "own" \in row.todo
        BY <2>1, <2>3, <3>1 DEF IInv, EditsAreNewer
    <3>4. RowOK(row)
        BY <1>0, <2>1, <3>1, <3>3 DEF RowOK, IInv, EditsAreNewer, Before
    <3> QED
        BY <3>2, <3>4, GoesIInv
  <2>4. CASE call.form = "structure" /\ Goes(Done("metadata"))
    <3> DEFINE row == Done("metadata")
    <3> HIDE DEF row
    <3>1. RowOK(row)
        BY <1>0, <2>1, <2>2, <2>4 DEF RowOK, IInv, EditsAreNewer, Before, row
    <3> QED
        BY <2>4, <3>1, GoesIInv DEF row
  <2> QED
      BY <1>3, <2>3, <2>4 DEF ReadMetadata
<1>4. CASE ReadContent /\ ~Goes(Fails("not_attempted"))
  <2>1. PICK read \in call.todo \ {"metadata"} : book[read] = Preimage[read] /\ Goes(Done(read))
      BY <1>4 DEF ReadContent
  <2>2. call.pc = "reads" /\ (call.form = "values" => "metadata" \notin call.todo)
      BY <1>4 DEF ReadContent
  <2> DEFINE row == Done(read)
  <2>3. /\ row \in Call /\ row.pc = "reads" /\ row.saw = call.saw /\ row.todo = call.todo \ {read}
        /\ row.action = call.action /\ row.form = call.form
        /\ row.before = call.before /\ row.fenced = call.fenced
        /\ row.count = 0 /\ row.cert = "not_attempted" /\ row.status = "none"
      BY <1>0, <2>1, <2>2, Rows DEF IInv
  <2>4. Goes(row)
      BY <2>1
  <2> HIDE DEF row
  <2>5. read = "own" => book.own # "edited"
      BY <2>1 DEF Preimage
  <2>6. RowOK(row)
      BY <1>0, <2>2, <2>3, <2>5 DEF RowOK, IInv, EditsAreNewer, Before
  <2> QED
      BY <2>4, <2>6, GoesIInv
<1>5. CASE Fenced /\ ~Goes(Fails("not_attempted"))
  <2>1. call.pc = "reads" /\ call.todo = {} /\ drive = call.before
      BY <1>5 DEF Fenced, Fence
  <2>2. CASE call.action = "no_op" /\ Goes(Ends("unchanged", "not_attempted"))
      BY <1>0, <2>2, EndsIInv, Certifications
  <2>3. CASE call.action # "no_op" /\ Goes([To("gate") EXCEPT !.fenced = drive])
    <3> DEFINE row == [To("gate") EXCEPT !.fenced = drive]
    <3>1. "gate" \in PC
        BY DEF PC
    <3>2. /\ row \in Call /\ row.pc = "gate" /\ row.saw.own = "planned"
          /\ row.action = call.action /\ row.before = call.before /\ row.fenced = drive
          /\ row.count = 0 /\ row.cert = "not_attempted" /\ row.status = "none"
        BY <1>0, <3>1, Rows DEF IInv, TypeOK, Call
    <3>3. row.action = "change"
        BY <1>0, <2>3, <3>2 DEF Call
    <3>4. Goes(row)
        BY <2>3
    <3> HIDE DEF row
    <3>5. RowOK(row)
        BY <1>0, <2>1, <3>2, <3>3 DEF RowOK, IInv, EditsAreNewer, Before
    <3> QED
        BY <3>4, <3>5, GoesIInv
  <2> QED
      BY <1>5, <2>2, <2>3 DEF Fenced
<1>6. CASE Gate /\ ~Goes(Fails("not_attempted"))
  <2>1. call.pc = "gate" /\ Goes(To("mutation"))
      BY <1>6 DEF Gate
  <2>2. "mutation" \in PC
      BY DEF PC
  <2> DEFINE row == To("mutation")
  <2>3. /\ row \in Call /\ row.pc = "mutation" /\ row.saw.own = "planned"
        /\ row.action = call.action /\ row.before = call.before /\ row.fenced = call.fenced
        /\ row.count = 0 /\ row.cert = "not_attempted" /\ row.status = "none"
      BY <1>0, <2>2, Rows DEF IInv
  <2>4. Goes(row)
      BY <2>1
  <2> HIDE DEF row
  <2>5. RowOK(row)
      BY <1>0, <2>1, <2>3 DEF RowOK, IInv, EditsAreNewer, CountAt, Before
  <2> QED
      BY <2>4, <2>5, GoesIInv
<1> QED
    BY <1>1, <1>2, <1>3, <1>4, <1>5, <1>6

\* Reads and verdicts after a batch.
LEMMA SettlementIInv ==
    IInv /\ (OpenRound \/ Look \/ PostState \/ Settle \/ Recover \/ RecoverRollback) => IInv'
<1> SUFFICES ASSUME IInv, OpenRound \/ Look \/ PostState \/ Settle \/ Recover \/ RecoverRollback
             PROVE  IInv'
    OBVIOUS
<1>0. call \in Call /\ TypeOK
    BY DEF IInv, TypeOK
<1>1. CASE OpenRound
  <2> DEFINE row == [call EXCEPT !.version = drive, !.todo = {"own", "rest"}]
  <2>1. call.pc \in {"postState", "settlement", "recovery", "rollbackRecovery"} /\ Goes(row)
      BY <1>1 DEF OpenRound, Rounds
  <2>2. /\ row \in Call /\ row.pc = call.pc /\ row.saw = call.saw
        /\ row.action = call.action /\ row.before = call.before /\ row.fenced = call.fenced
        /\ row.count = call.count /\ row.cert = call.cert /\ row.status = call.status
      BY <1>0 DEF Call, TypeOK
  <2> HIDE DEF row
  <2>3. RowOK(row)
      BY <2>1, <2>2 DEF RowOK, IInv, EditsAreNewer, CountAt, Accounts, Before
  <2> QED
      BY <2>1, <2>3, GoesIInv
<1>2. CASE Look
  <2>1. PICK read \in call.todo : Goes([Done(read) EXCEPT !.saw[read] = book[read]])
      BY <1>2 DEF Look
  <2> DEFINE row == [Done(read) EXCEPT !.saw[read] = book[read]]
  <2>2. /\ Done(read) \in Call /\ Done(read).pc = call.pc /\ Done(read).saw = call.saw
        /\ Done(read).todo = call.todo \ {read}
        /\ Done(read).action = call.action /\ Done(read).form = call.form
        /\ Done(read).before = call.before /\ Done(read).fenced = call.fenced
        /\ Done(read).count = call.count /\ Done(read).cert = call.cert
        /\ Done(read).status = call.status
      BY <1>0, <2>1, Rows
  <2>3. read \in {"metadata", "own", "rest"} /\ book \in Book /\ call.saw \in Book
      BY <1>0, <2>1 DEF Call, TypeOK
  <2>4. [call.saw EXCEPT ![read] = book[read]] \in Book
      BY <2>3 DEF Book
  <2>5. [call.saw EXCEPT ![read] = book[read]].own \in {call.saw.own, book.own}
      BY <2>3 DEF Book
  <2>6. /\ row \in Call /\ row.pc = call.pc /\ row.saw = [call.saw EXCEPT ![read] = book[read]]
        /\ row.todo = call.todo \ {read}
        /\ row.action = call.action /\ row.form = call.form
        /\ row.before = call.before /\ row.fenced = call.fenced
        /\ row.count = call.count /\ row.cert = call.cert /\ row.status = call.status
      BY <2>2, <2>4 DEF Call
  <2>7. Goes(row)
      BY <2>1
  <2> HIDE DEF row
  <2>8. call.pc # "reads"
      BY <1>2 DEF Look, Rounds
  <2>9. RowOK(row)
      BY <2>5, <2>6, <2>8 DEF RowOK, IInv, EditsAreNewer, CountAt, Accounts, Before
  <2> QED
      BY <2>7, <2>9, GoesIInv
<1>3. ASSUME Goes(To(call.pc)),
             call.pc \in {"postState", "settlement", "recovery", "rollbackRecovery"}
      PROVE  IInv'
  <2> DEFINE row == To(call.pc)
  <2>1. call.pc \in PC
      BY <1>3 DEF PC
  <2>2. /\ row \in Call /\ row.pc = call.pc /\ row.saw.own = "planned"
        /\ row.action = call.action /\ row.before = call.before /\ row.fenced = call.fenced
        /\ row.count = call.count /\ row.cert = call.cert /\ row.status = call.status
      BY <1>0, <2>1, Rows
  <2> HIDE DEF row
  <2>3. RowOK(row)
      BY <1>3, <2>2 DEF RowOK, IInv, EditsAreNewer, CountAt, Accounts, Before
  <2> QED
      BY <1>3, <2>3, GoesIInv DEF row
<1>4. ASSUME NEW status \in {"changed", "failed"}, NEW cert \in Certification,
             Goes(Ends(status, cert)), cert # "not_attempted",
             cert = "postimage_verified" => call.count = 1 /\ "forward" \in ours
      PROVE  IInv'
    BY <1>4, EndsIInv
<1>5. CASE PostState
  <2>1. call.pc = "postState" /\ call.count = 1 /\ "forward" \in ours
        /\ call.cert \in {"postimage_rejected", "ambiguous"}
      BY <1>5 DEF PostState, IInv, CountAt, Accounts
  <2>2. CASE Goes(Ends("changed", "postimage_verified"))
      BY <1>4, <2>1, <2>2, Certifications
  <2>3. CASE Goes(Fails("postimage_verified"))
      BY <1>4, <2>1, <2>3, Certifications DEF Fails
  <2>4. CASE Polled(PostStateMatches)
      BY <1>3, <2>1, <2>4 DEF Polled
  <2>5. CASE Goes(Fails(call.cert))
      BY <1>4, <2>1, <2>5, Certifications DEF Fails
  <2> QED
      BY <1>5, <2>2, <2>3, <2>4, <2>5 DEF PostState
<1>6. CASE Settle
  <2>1. call.pc = "settlement" /\ call.count = 1 /\ call.action = "change"
      BY <1>6 DEF Settle, IInv, CountAt
  <2>2. CASE SettledPostimage /\ Goes(Fails("postimage_verified"))
    <3>1. call.saw.own = "desired"
        BY <2>2 DEF SettledPostimage, Postimage
    <3>2. "forward" \in ours
        BY <2>1, <3>1 DEF IInv, DesiredIsOurs
    <3> QED
        BY <1>4, <2>1, <2>2, <3>2, Certifications DEF Fails
  <2>3. CASE Goes(Fails("preimage_verified")) \/ Goes(Fails("ambiguous"))
      BY <1>4, <2>3, Certifications DEF Fails
  <2> QED
      BY <1>6, <2>2, <2>3 DEF Settle
<1>7. CASE Recover
  <2>1. call.pc = "recovery" /\ call.count = 1 /\ call.cert = "ambiguous" /\ call.action = "change"
      BY <1>7 DEF Recover, IInv, CountAt
  <2>2. CASE Goes(Fails("preimage_verified"))
      BY <1>4, <2>2, Certifications DEF Fails
  <2>3. CASE Polled(SettledPreimage)
      BY <1>3, <2>1, <2>3 DEF Polled
  <2>4. CASE Goes(To("rollback"))
    <3> DEFINE row == To("rollback")
    <3>1. "rollback" \in PC
        BY DEF PC
    <3>2. /\ row \in Call /\ row.pc = "rollback" /\ row.saw.own = "planned"
          /\ row.action = call.action /\ row.before = call.before /\ row.fenced = call.fenced
          /\ row.count = call.count /\ row.cert = call.cert /\ row.status = call.status
        BY <1>0, <3>1, Rows
    <3> HIDE DEF row
    <3>3. RowOK(row)
        BY <2>1, <3>2 DEF RowOK, IInv, EditsAreNewer, CountAt, Before
    <3> QED
        BY <2>4, <3>3, GoesIInv DEF row
  <2> QED
      BY <1>7, <2>2, <2>3, <2>4 DEF Recover
<1>8. CASE RecoverRollback
  <2>1. call.pc = "rollbackRecovery"
      BY <1>8 DEF RecoverRollback
  <2>2. CASE Goes(Fails("preimage_verified")) \/ Goes(Fails("ambiguous"))
      BY <1>4, <2>2, Certifications DEF Fails
  <2>3. CASE Polled(SettledPreimage)
      BY <1>3, <2>1, <2>3 DEF Polled
  <2> QED
      BY <1>8, <2>2, <2>3 DEF RecoverRollback
<1> QED
    BY <1>1, <1>2, <1>5, <1>6, <1>7, <1>8

\* What a batch that is applied leaves in the workbook.
LEMMA ApplyKeeps ==
    ASSUME IInv, NEW batch \in Batches, Apply(batch)
    PROVE  /\ book' \in Book /\ changes' = changes + 1 /\ lastEdit' = lastEdit /\ edits' = edits
           /\ ours' = ours \union {batch}
           /\ book'.own = "edited" => book.own = "edited"
           /\ book'.own = "desired" => batch = "forward"
<1>1. PICK own \in Outcomes(batch) : book' = [book EXCEPT !.own = own]
    BY DEF Apply
<1>2. book \in Book
    BY DEF IInv, TypeOK
<1>3. own \in {"planned", "desired", "bad", "edited"}
      /\ (own = "edited" => book.own = "edited") /\ (own = "desired" => batch = "forward")
    BY <1>1, <1>2 DEF Outcomes, Book, Batches
<1>4. book' \in Book /\ book'.own = own
    BY <1>1, <1>2, <1>3 DEF Book
<1> QED
    BY <1>3, <1>4 DEF Apply

\* A batch is applied, or what is on its way changes: what else the invariant
\* says follows from the count and the accounts.
LEMMA BatchIInv ==
    ASSUME IInv, UNCHANGED outside, net' \subseteq Batches,
           UNCHANGED workbook \/ \E batch \in Batches : Apply(batch),
           call' \in Call, call'.action = call.action, call'.before = call.before,
           call'.fenced = call.fenced, call'.saw.own = "desired" => call.saw.own = "desired",
           call.pc = "mutation" \/ call.count # 0, call'.pc # "reads",
           CountAt', Accounts'
    PROVE  IInv'
<1>1. drive' = drive /\ permit' = permit /\ now' = now /\ events' = events /\ runs' = runs
    BY DEF outside, switch
<1>2. SwitchInv'
    BY <1>1 DEF IInv, SwitchInv, SwitchTypeOK, IsLatest, Row, Overtakes
<1>3. /\ book' \in Book /\ changes' \in Nat /\ changes <= changes' /\ lastEdit' = lastEdit
      /\ edits' = edits /\ ours \subseteq ours' /\ ours' \subseteq Batches
      /\ book'.own = "edited" => book.own = "edited"
      /\ book'.own = "desired" => book.own = "desired" \/ "forward" \in ours'
  <2>1. CASE UNCHANGED workbook
      BY <2>1 DEF workbook, IInv, TypeOK
  <2>2. ASSUME NEW batch \in Batches, Apply(batch)
        PROVE  /\ book' \in Book /\ changes' \in Nat /\ changes <= changes'
               /\ lastEdit' = lastEdit /\ edits' = edits
               /\ ours \subseteq ours' /\ ours' \subseteq Batches
               /\ book'.own = "edited" => book.own = "edited"
               /\ book'.own = "desired" => book.own = "desired" \/ "forward" \in ours'
      BY <2>2, ApplyKeeps DEF IInv, TypeOK
  <2> QED
      BY <2>1, <2>2
<1>4. TypeOK'
    BY <1>1, <1>2, <1>3 DEF IInv, TypeOK, SwitchInv
<1>5. DesiredIsOurs'
    BY <1>3 DEF IInv, DesiredIsOurs
<1>6. EditsAreNewer'
    BY <1>1, <1>3 DEF IInv, TypeOK, EditsAreNewer, Call
<1> QED
    BY <1>2, <1>4, <1>5, <1>6 DEF IInv

\* The row a batch that was counted leaves to.
LEMMA CountedRow ==
    ASSUME TypeOK, NEW pc \in PC, NEW cert \in Certification
    PROVE  LET row == Counted(pc, cert) IN
           /\ row \in Call /\ row.pc = pc /\ row.cert = cert
           /\ row.saw.own = "planned" /\ row.action = call.action
           /\ row.before = call.before /\ row.fenced = call.fenced
           /\ row.count = 1 /\ row.status = call.status
<1> DEFINE row == Counted(pc, cert)
<1>1. PICK r \in Call : r = To(pc)
    BY Rows
<1>2. /\ r.pc = pc /\ r.saw.own = "planned" /\ r.action = call.action
      /\ r.before = call.before /\ r.fenced = call.fenced /\ r.status = call.status
    BY <1>1, Rows
<1>3. row = [r EXCEPT !.count = 1, !.cert = cert]
    BY <1>1 DEF Counted
<1> HIDE DEF row
<1>4. row \in Call
  <2> DEFINE counted == [r EXCEPT !.count = 1]
  <2>1. counted \in Call
      BY DEF Call
  <2>2. row = [counted EXCEPT !.cert = cert]
      BY <1>3 DEF Call
  <2> HIDE DEF counted
  <2> QED
      BY <2>1, <2>2 DEF Call
<1>5. row.cert = cert
    BY <1>3 DEF Call
<1>6. row.pc = r.pc /\ row.saw = r.saw
    BY <1>3 DEF Call
<1>7. row.action = r.action /\ row.before = r.before /\ row.fenced = r.fenced
    BY <1>3 DEF Call
<1>8. row.count = 1 /\ row.status = r.status
    BY <1>3 DEF Call
<1> QED
    BY <1>2, <1>4, <1>5, <1>6, <1>7, <1>8 DEF row

\* The forward batch is sent.
LEMMA MutateIInv == IInv /\ Mutate => IInv'
<1> SUFFICES ASSUME IInv, Mutate PROVE IInv'
    OBVIOUS
<1>1. /\ call.pc = "mutation" /\ call.count = 0 /\ ours = {} /\ net = {}
      /\ call.action = "change" /\ call.status = "none" /\ call \in Call
    BY DEF Mutate, IInv, TypeOK, CountAt, Accounts, Before
<1>2. CASE Goes(Fails("not_attempted"))
    BY <1>1, <1>2, EndsIInv, Certifications DEF Fails
<1>3. ASSUME NEW ok, NEW err, Send("forward", ok, err),
             \A row \in {ok, err} :
                /\ row \in Call /\ row.saw.own = "planned" /\ row.action = call.action
                /\ row.before = call.before /\ row.fenced = call.fenced
                /\ row.count = 1 /\ row.status = "none",
             ok.pc = "postState", ok.cert \in {"postimage_rejected", "ambiguous"},
             err.pc \in {"settlement", "recovery"}, err.cert = "ambiguous"
      PROVE  IInv'
  <2>1. UNCHANGED outside
      BY <1>3 DEF Send
  <2>2. CASE Apply("forward") /\ call' \in {ok, err} /\ UNCHANGED net
    <3>1. ours' = {"forward"} /\ net' = {}
        BY <1>1, <2>2 DEF Apply
    <3>2. CountAt' /\ Accounts'
        BY <1>1, <1>3, <2>2, <3>1 DEF CountAt, Accounts, Before
    <3> QED
        BY <1>1, <1>3, <2>1, <2>2, <3>1, <3>2, BatchIInv DEF Batches
  <2>3. CASE call' = err /\ net' \in {net, net \union {"forward"}} /\ UNCHANGED workbook
    <3>1. ours' = {} /\ net' \subseteq {"forward"}
        BY <1>1, <2>3 DEF workbook
    <3>2. CountAt' /\ Accounts'
        BY <1>1, <1>3, <2>3, <3>1 DEF CountAt, Accounts, Before
    <3> QED
        BY <1>1, <1>3, <2>1, <2>3, <3>1, <3>2, BatchIInv DEF Batches
  <2> QED
      BY <1>3, <2>2, <2>3 DEF Send
<1>4. /\ "postState" \in PC /\ "settlement" \in PC /\ "recovery" \in PC
      /\ "postimage_rejected" \in Certification /\ "ambiguous" \in Certification
    BY DEF PC, Certification
<1>5. CASE Send("forward", Counted("postState", "postimage_rejected"),
                     Counted("settlement", "ambiguous"))
  <2> DEFINE ok == Counted("postState", "postimage_rejected")
             err == Counted("settlement", "ambiguous")
  <2>1. /\ ok \in Call /\ ok.pc = "postState" /\ ok.cert = "postimage_rejected"
        /\ ok.saw.own = "planned" /\ ok.action = call.action
        /\ ok.before = call.before /\ ok.fenced = call.fenced
        /\ ok.count = 1 /\ ok.status = "none"
      BY <1>1, <1>4, CountedRow DEF IInv
  <2>2. /\ err \in Call /\ err.pc = "settlement" /\ err.cert = "ambiguous"
        /\ err.saw.own = "planned" /\ err.action = call.action
        /\ err.before = call.before /\ err.fenced = call.fenced
        /\ err.count = 1 /\ err.status = "none"
      BY <1>1, <1>4, CountedRow DEF IInv
  <2>3. Send("forward", ok, err)
      BY <1>5
  <2> HIDE DEF ok, err
  <2> QED
      BY <1>3, <2>1, <2>2, <2>3
<1>6. CASE Send("forward", Counted("postState", "ambiguous"),
                     Counted("recovery", "ambiguous"))
  <2> DEFINE ok == Counted("postState", "ambiguous")
             err == Counted("recovery", "ambiguous")
  <2>1. /\ ok \in Call /\ ok.pc = "postState" /\ ok.cert = "ambiguous"
        /\ ok.saw.own = "planned" /\ ok.action = call.action
        /\ ok.before = call.before /\ ok.fenced = call.fenced
        /\ ok.count = 1 /\ ok.status = "none"
      BY <1>1, <1>4, CountedRow DEF IInv
  <2>2. /\ err \in Call /\ err.pc = "recovery" /\ err.cert = "ambiguous"
        /\ err.saw.own = "planned" /\ err.action = call.action
        /\ err.before = call.before /\ err.fenced = call.fenced
        /\ err.count = 1 /\ err.status = "none"
      BY <1>1, <1>4, CountedRow DEF IInv
  <2>3. Send("forward", ok, err)
      BY <1>6
  <2> HIDE DEF ok, err
  <2> QED
      BY <1>3, <2>1, <2>2, <2>3
<1> QED
    BY <1>2, <1>5, <1>6 DEF Mutate

\* The rollback is sent.
LEMMA RollbackIInv == IInv /\ Rollback => IInv'
<1> SUFFICES ASSUME IInv, Rollback PROVE IInv'
    OBVIOUS
<1> DEFINE row == [To("rollbackRecovery") EXCEPT !.count = 2]
<1>1. /\ call.pc = "rollback" /\ call.count = 1 /\ call.cert = "ambiguous"
      /\ "rollback" \notin ours \union net /\ ours \intersect net = {}
      /\ ours \subseteq Batches /\ net \subseteq Batches /\ call \in Call
      /\ Send("rollback", row, row)
    BY DEF Rollback, IInv, TypeOK, CountAt, Accounts
<1>2. /\ To("rollbackRecovery") \in Call /\ To("rollbackRecovery").pc = "rollbackRecovery"
      /\ To("rollbackRecovery").saw.own = "planned"
      /\ To("rollbackRecovery").action = call.action
      /\ To("rollbackRecovery").before = call.before
      /\ To("rollbackRecovery").fenced = call.fenced
      /\ To("rollbackRecovery").cert = "ambiguous"
      /\ To("rollbackRecovery").status = call.status
  <2>1. "rollbackRecovery" \in PC
      BY DEF PC
  <2> QED
      BY <1>1, <2>1, Rows DEF IInv
<1>3. /\ row \in Call /\ row.pc = "rollbackRecovery" /\ row.saw.own = "planned"
      /\ row.action = call.action /\ row.before = call.before /\ row.fenced = call.fenced
      /\ row.cert = "ambiguous" /\ row.count = 2 /\ row.status = call.status
    BY <1>2 DEF Call
<1> HIDE DEF row
<1>4. call.status # "unchanged"
    BY <1>1 DEF IInv, CountAt
<1>5. /\ call' = row /\ UNCHANGED outside
      /\ UNCHANGED workbook \/ \E batch \in Batches : Apply(batch)
      /\ \/ ours' = ours \union {"rollback"} /\ net' = net
         \/ ours' = ours /\ net' \in {net, net \union {"rollback"}}
    BY <1>1 DEF Send, Apply, workbook, Batches
<1>6. net' \subseteq Batches /\ ours' \intersect net' = {}
    BY <1>1, <1>5 DEF Batches
<1>7. CountAt' /\ Accounts'
    BY <1>3, <1>4, <1>5, <1>6 DEF CountAt, Accounts, Before
<1> QED
    BY <1>1, <1>3, <1>5, <1>6, <1>7, BatchIInv

\* A batch whose call threw is applied later.
LEMMA LateBatchIInv == IInv /\ LateBatch => IInv'
<1> SUFFICES ASSUME IInv, NEW batch \in net, net' = net \ {batch}, Apply(batch),
                    UNCHANGED <<outside, call>>
             PROVE  IInv'
    BY DEF LateBatch
<1>1. /\ net \subseteq Batches /\ call \in Call /\ ours' = ours \union {batch}
      /\ UNCHANGED outside /\ call' = call
    BY DEF IInv, TypeOK, Apply
<1>2. call.count # 0
    BY DEF IInv, Accounts
<1>3. CountAt'
    BY <1>1 DEF IInv, CountAt
<1>4. ours' \union net' = ours \union net /\ ours' \intersect net' = {}
    BY <1>1 DEF IInv, Accounts
<1>5. Accounts'
    BY <1>1, <1>2, <1>4 DEF IInv, Accounts
<1>6. call.pc # "reads"
    BY <1>2 DEF IInv, CountAt, Before
<1> QED
    BY <1>1, <1>2, <1>3, <1>5, <1>6, BatchIInv

\* A person edits the workbook.
LEMMA EditIInv == IInv /\ Edit => IInv'
<1> SUFFICES ASSUME IInv, Edit PROVE IInv'
    OBVIOUS
<1>1. /\ edits' = edits + 1 /\ changes' = changes + 1
      /\ UNCHANGED <<outside, net, ours, call>>
    BY DEF Edit
<1>2. drive' = drive /\ permit' = permit /\ now' = now /\ events' = events /\ runs' = runs
    BY <1>1 DEF outside, switch
<1>3. SwitchInv'
    BY <1>2 DEF IInv, SwitchInv, SwitchTypeOK, IsLatest, Row, Overtakes
<1>4. /\ book' \in Book
      /\ \/ book'.own = "edited" /\ lastEdit' = changes + 1
         \/ book'.own = book.own /\ lastEdit' = lastEdit
  <2>1. book \in Book
      BY DEF IInv, TypeOK
  <2>2. CASE book' = [book EXCEPT !.own = "edited"] /\ lastEdit' = changes'
      BY <1>1, <2>1, <2>2 DEF Book
  <2>3. CASE book' = [book EXCEPT !.rest = "edited"] /\ UNCHANGED lastEdit
      BY <2>1, <2>3 DEF Book
  <2>4. CASE UNCHANGED <<book, lastEdit>>
      BY <2>1, <2>4
  <2> QED
      BY <2>2, <2>3, <2>4 DEF Edit
<1>5. TypeOK'
    BY <1>1, <1>2, <1>3, <1>4 DEF IInv, TypeOK, SwitchInv
<1>6. CountAt' /\ Accounts'
    BY <1>1 DEF IInv, CountAt, Accounts
<1>7. DesiredIsOurs'
    BY <1>1, <1>4 DEF IInv, DesiredIsOurs
<1>8. EditsAreNewer'
    BY <1>1, <1>2, <1>4 DEF IInv, TypeOK, EditsAreNewer, Call
<1> QED
    BY <1>3, <1>5, <1>6, <1>7, <1>8 DEF IInv

\* Time, the permit and the operators of the switch.
LEMMA MeanwhileIInv ==
    IInv /\ (DriveAdvances \/ PermitExpires \/ Operate \/ UNCHANGED vars) => IInv'
<1> SUFFICES ASSUME IInv, DriveAdvances \/ PermitExpires \/ Operate \/ UNCHANGED vars
             PROVE  IInv'
    OBVIOUS
<1>1. /\ UNCHANGED <<book, changes, lastEdit, edits, ours, net, call>>
      /\ drive' = drive \/ drive' = changes
      /\ permit' \in BOOLEAN
      /\ SwitchNext \/ UNCHANGED switch
    BY DEF DriveAdvances, PermitExpires, Operate, vars, workbook, outside, IInv, TypeOK
<1>2. SwitchInv'
    BY <1>1, SwitchNextInv DEF IInv, switch, SwitchInv, SwitchTypeOK, Row, IsLatest, Overtakes
<1>3. TypeOK'
    BY <1>1, <1>2 DEF IInv, TypeOK, SwitchInv
<1>4. CountAt' /\ Accounts' /\ DesiredIsOurs'
    BY <1>1 DEF IInv, CountAt, Accounts, DesiredIsOurs
<1>5. EditsAreNewer'
    BY <1>1 DEF IInv, TypeOK, EditsAreNewer, Call
<1> QED
    BY <1>2, <1>3, <1>4, <1>5 DEF IInv

\* The invariant is inductive.
LEMMA NextIInv == IInv /\ [Next]_vars => IInv'
BY PreflightIInv, SettlementIInv, MutateIInv, RollbackIInv, LateBatchIInv, EditIInv, MeanwhileIInv
   DEF Next, Step

-----------------------------------------------------------------------------
(* The theorems *)

\* The invariant holds in every reachable state.
LEMMA Invariance == Spec => []IInv
BY InitIInv, NextIInv, PTL DEF Spec

\* The sizes of what was applied and of what is on its way.
LEMMA Sizes ==
    ASSUME NEW all, IsFiniteSet(all), ours \union net \subseteq all, ours \intersect net = {}
    PROVE  Cardinality(ours) + Cardinality(net) <= Cardinality(all)
<1>1. IsFiniteSet(ours) /\ IsFiniteSet(net) /\ IsFiniteSet(ours \union net)
    BY FS_Subset
<1>2. Cardinality(ours \union net) <= Cardinality(all)
    BY FS_Subset
<1>3. Cardinality(ours \union net)
          = Cardinality(ours) + Cardinality(net) - Cardinality(ours \intersect net)
    BY <1>1, FS_Union
<1>4. Cardinality(ours \intersect net) = 0
    BY FS_EmptySet
<1>5. Cardinality(ours) \in Nat /\ Cardinality(net) \in Nat
    BY <1>1, FS_CardinalityType
<1> QED
    BY <1>2, <1>3, <1>4, <1>5

\* What the invariant says of a result.
LEMMA TruthfulByInv == IInv => SheetTruthful
<1> SUFFICES ASSUME IInv PROVE SheetTruthful
    OBVIOUS
<1>1. /\ call.count \in 0..2 /\ ours \subseteq Batches /\ net \subseteq Batches
      /\ ours \intersect net = {}
    BY DEF IInv, TypeOK, Call, Accounts
<1>2. call.count = 0 => ours = {} /\ net = {}
    BY DEF IInv, Accounts
<1>3. call.count = 1 => ours \union net \subseteq {"forward"}
    BY <1>1 DEF IInv, Accounts, Batches
<1>4. call.cert = "postimage_verified" => ours = {"forward"} /\ net = {}
    BY <1>1, <1>3 DEF IInv, CountAt, Accounts
<1>5. call.status = "unchanged" \/ call.cert = "not_attempted" => ours = {} /\ net = {}
    BY <1>2 DEF IInv, CountAt
<1>6. Cardinality(ours) + Cardinality(net) <= call.count
  <2>1. CASE call.count = 0
    <3>1. Cardinality(ours) = 0 /\ Cardinality(net) = 0
        BY <1>2, <2>1, FS_EmptySet
    <3> QED
        BY <2>1, <3>1
  <2>2. CASE call.count = 1
    <3>1. IsFiniteSet({"forward"}) /\ Cardinality({"forward"}) = 1
        BY FS_Singleton
    <3> QED
        BY <1>1, <1>3, <2>2, <3>1, Sizes
  <2>3. CASE call.count = 2
    <3>1. IsFiniteSet({"forward"}) /\ Cardinality({"forward"}) = 1
        BY FS_Singleton
    <3>2. IsFiniteSet({"forward"} \union {"rollback"})
          /\ Cardinality({"forward"} \union {"rollback"}) = 2
        BY <3>1, FS_AddElement
    <3>3. ours \union net \subseteq {"forward"} \union {"rollback"}
        BY <1>1 DEF Batches
    <3>4. Cardinality(ours) + Cardinality(net) <= Cardinality({"forward"} \union {"rollback"})
        BY <1>1, <3>2, <3>3, Sizes
    <3> QED
        BY <2>3, <3>2, <3>4
  <2> QED
      BY <1>1, <2>1, <2>2, <2>3
<1> QED
    BY <1>4, <1>5, <1>6 DEF SheetTruthful

\* However edits, lost answers, late batches, operators and clocks interleave,
\* a result of writeStagingSheetValues or of normalizeStagingSheetStructure says
\* what was done to the workbook.
THEOREM ResultsTruthful == Spec => []SheetTruthful
BY Invariance, TruthfulByInv, PTL

\* The forward batch is sent from the mutation boundary, and is applied then or
\* after it was counted.
LEMMA ForwardApplied ==
    ASSUME IInv, [Next]_vars, "forward" \in ours' \ ours
    PROVE  call.pc = "mutation" \/ call.count # 0
<1>1. CASE Authorize \/ ReadMetadata \/ ReadContent \/ Fenced \/ Gate
    BY <1>1 DEF Authorize, ReadMetadata, ReadContent, Fenced, Gate, Goes, workbook
<1>2. CASE OpenRound \/ Look \/ PostState \/ Settle \/ Recover \/ RecoverRollback
    BY <1>2 DEF OpenRound, Look, PostState, Settle, Recover, RecoverRollback, Polled, Goes, workbook
<1>3. CASE Mutate
    BY <1>3 DEF Mutate
<1>4. CASE Rollback
    BY <1>4 DEF Rollback, IInv, CountAt
<1>5. CASE LateBatch
    BY <1>5 DEF LateBatch, IInv, Accounts
<1>6. CASE Edit \/ DriveAdvances \/ PermitExpires \/ Operate \/ UNCHANGED vars
    BY <1>6 DEF Edit, DriveAdvances, PermitExpires, Operate, vars, workbook
<1> QED
    BY <1>1, <1>2, <1>3, <1>4, <1>5, <1>6 DEF Next, Step

\* The forward batch overwrites only an edit that Drive did not show yet when the
\* trailing fence was read.
THEOREM ShownEditsSurvive == Spec => OverwritesOnlyUnseenEdit
<1>1. ASSUME IInv, [Next]_vars, book.own = "edited", "forward" \in ours' \ ours
      PROVE  lastEdit > call.fenced
    BY <1>1, ForwardApplied DEF IInv, EditsAreNewer
<1>2. IInv /\ [Next]_vars =>
         [book.own = "edited" /\ "forward" \in ours' \ ours => lastEdit > call.fenced]_vars
    BY <1>1
<1> QED
    BY <1>2, Invariance, PTL DEF Spec, OverwritesOnlyUnseenEdit

\* The mutation boundary is only passed when the switch reads clear.
LEMMA GatePassed ==
    ASSUME IInv, [Next]_vars, call.pc = "gate", call'.pc = "mutation"
    PROVE  Clear
<1>1. CASE Gate
  <2>1. CASE Goes(Fails("not_attempted"))
    <3>1. Fails("not_attempted").pc = "done"
        BY Rows DEF IInv, Fails, Certification
    <3> QED
        BY <2>1, <3>1 DEF Goes
  <2> QED
      BY <1>1, <2>1 DEF Gate
<1>2. CASE Step /\ ~Gate
    BY <1>2 DEF Step, Authorize, ReadMetadata, ReadContent, Fenced, Mutate, OpenRound, Look,
                PostState, Settle, Recover, Rollback, RecoverRollback, Rounds
<1>3. CASE Edit \/ DriveAdvances \/ LateBatch \/ PermitExpires \/ Operate \/ UNCHANGED vars
    BY <1>3 DEF Edit, DriveAdvances, LateBatch, PermitExpires, Operate, vars
<1> QED
    BY <1>1, <1>2, <1>3 DEF Next

\* A confirmed engagement of the kill switch that precedes the read at the
\* mutation boundary stops the write, unless it was taken back.
THEOREM EngagementStopsWrites == Spec => EngageStops
<1>1. ASSUME IInv, [Next]_vars, call.pc = "gate", call'.pc = "mutation",
             NEW o \in Operators, runs[o].pc = "confirmed", runs[o].engaged
      PROVE  TakenBack(o)
  <2>1. Clear
      BY <1>1, GatePassed
  <2> QED
      BY <1>1, <2>1, EngagementHolds DEF IInv, ConfirmedEngageHolds
<1>2. IInv /\ [Next]_vars =>
         [call.pc = "gate" /\ call'.pc = "mutation" =>
             \A o \in Operators :
                 runs[o].pc = "confirmed" /\ runs[o].engaged => TakenBack(o)]_vars
    BY <1>1
<1> QED
    BY <1>2, Invariance, PTL DEF Spec, EngageStops

=============================================================================
