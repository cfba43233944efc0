------------------------- MODULE GuardedWritesProofs -------------------------
(***************************************************************************)
(* Proofs about the guarded write of the document (EltWrite), and, for the  *)
(* composition of the two targets, that what SheetWriteProofs proves of a   *)
(* spreadsheet holds of it.                                                 *)
(***************************************************************************)
EXTENDS MCGuardedWrites, FiniteSetTheorems, TLAPS

\* Revision r is over, or is the document's and its fact block is no person's.
Unedited(r) == r <= doc.rev /\ (r = doc.rev => doc.facts # "edited")

\* Every revision a batchUpdate requires, or may come to require, is unedited.
Fence ==
    /\ \A b \in net : Unedited(b.rev)
    /\ Unedited(write.plan.rev)
    /\ write.committed # NoRevision => Unedited(write.committed)
    /\ write.pc = "rollback" => Unedited(write.after.rev)

\* The count follows the control.
CountAt ==
    /\ write.pc \in {"authorization", "preimage", "gate", "mutation"} => write.count = 0
    /\ write.pc \in {"settlement", "postimage", "rollback"} => write.count = 1

One(kind) == \E r \in Nat : net = {[kind |-> kind, rev |-> r]}

\* Which batches were applied and which may be, for each count.
Accounts ==
    /\ write.count = 0 => ours = {} /\ net = {}
    /\ write.count = 1 => \/ ours = {} /\ (net = {} \/ One("mutation"))
                          \/ ours = {"mutation"} /\ net = {}
    /\ write.count = 2 => \/ ours = {"mutation"} /\ (net = {} \/ One("rollback"))
                          \/ ours = {"mutation", "rollback"} /\ net = {}
    /\ write.pc \in {"postimage", "rollback"} => ours = {"mutation"} /\ net = {}

IInv == TypeOK /\ Fence /\ CountAt /\ Accounts

\* The initial states satisfy the invariant.
LEMMA InitIInv == Init => IInv
<1> USE EltWriteAssumption
<1> SUFFICES ASSUME Init PROVE IInv
    OBVIOUS
<1>1. TypeOK
  <2>1. PICK action \in {"no_op", "replace"} :
           /\ doc = [rev |-> 1, facts |-> IF action = "no_op" THEN "new" ELSE "old",
                     outside |-> "planned"]
           /\ write = [pc |-> "authorization", plan |-> [rev |-> 1, action |-> action],
                       before |-> 0, after |-> [rev |-> 0, drive |-> 0],
                       committed |-> NoRevision, count |-> 0, cert |-> "not_attempted",
                       status |-> "none"]
    BY DEF Init
  <2>2. doc \in Document
    BY <2>1 DEF Document, Facts
  <2>3. write \in Write
    BY <2>1 DEF Write, PC, Certification
  <2>4. changes \in Nat /\ drive \in Nat /\ edits \in 0..MaxEdits /\ ours \subseteq {"mutation", "rollback"}
    BY DEF Init
  <2>5. permit \in BOOLEAN /\ halted \in BOOLEAN /\ net \subseteq Batch
    BY DEF Init
  <2> QED
    BY <2>2, <2>3, <2>4, <2>5 DEF TypeOK
<1>2. Fence
    BY DEF Init, Fence, Unedited
<1>3. CountAt /\ Accounts
    BY DEF Init, CountAt, Accounts
<1> QED
    BY <1>1, <1>2, <1>3 DEF IInv

\* A step that only moves the call on keeps the invariant when the row does.
LEMMA GoesIInv ==
    ASSUME IInv, NEW row \in Write, Goes(row),
           row.plan = write.plan, row.committed = write.committed, row.count = write.count,
           row.pc = "rollback" => Unedited(row.after.rev) /\ write.pc = "postimage",
           row.pc \in {"authorization", "preimage", "gate", "mutation"} => write.count = 0,
           row.pc \in {"settlement", "postimage"} => FALSE
    PROVE  IInv'
<1>1. TypeOK'
    BY DEF IInv, TypeOK, Goes, document
<1>2. Fence'
    BY DEF IInv, Fence, Unedited, Goes, document
<1>3. CountAt' /\ Accounts'
    BY DEF IInv, CountAt, Accounts, One, Goes, document
<1> QED
    BY <1>1, <1>2, <1>3 DEF IInv
-----------------------------------------------------------------------------
(* The calls *)

\* The row of a call that is counted and sent.
LEMMA CountedRow ==
    ASSUME NEW row \in Write, row.count \in 0..1, NEW cert \in Certification
    PROVE  /\ Counted(row, cert) \in Write
           /\ Counted(row, cert).plan = row.plan
           /\ Counted(row, cert).count = row.count + 1
<1>1. row.count + 1 \in 0..2
    OBVIOUS
<1> DEFINE n == row.count + 1
<1>2. Counted(row, cert) = [row EXCEPT !.count = n, !.cert = cert]
    BY DEF Counted, Write
<1>3. n \in 0..2
    BY <1>1
<1> HIDE DEF n
<1>4. [row EXCEPT !.count = n, !.cert = cert] \in Write
    BY <1>3 DEF Write
<1> QED
    BY <1>2, <1>3, <1>4 DEF n, Write

\* A call of a fenced batch, counted beforehand, keeps the types and the fence.
LEMMA SendFence ==
    ASSUME IInv, NEW b \in Batch, NEW row \in Write, NEW ok \in PC, NEW err \in PC,
           Send(b, row, ok, err), Unedited(b.rev), row.plan = write.plan,
           ok # "rollback", err # "rollback"
    PROVE  TypeOK' /\ Fence'
<1> USE EltWriteAssumption
<1>0. /\ doc \in Document /\ doc.rev \in Nat /\ changes \in Nat /\ net \subseteq Batch
      /\ b.rev \in Nat /\ b.kind \in {"mutation", "rollback"} /\ write.plan.rev \in Nat
      /\ \A c \in net : c.rev \in Nat
    BY DEF IInv, TypeOK, Document, Batch, Write
<1>1. CASE Apply(b)
  <2>1. PICK facts \in {"old", "new", "bad"} : doc' = [doc EXCEPT !.rev = @ + 1, !.facts = facts]
    BY <1>1 DEF Apply
  <2>2. doc'.rev = doc.rev + 1 /\ doc'.facts # "edited" /\ doc' \in Document
    <3> DEFINE n == doc.rev + 1
    <3>1. n \in Nat
      BY <1>0
    <3>2. doc' = [doc EXCEPT !.rev = n, !.facts = facts]
      BY <1>0, <2>1 DEF Document
    <3> HIDE DEF n
    <3>3. doc'.rev = n /\ doc'.facts = facts /\ doc' \in Document
      BY <1>0, <3>1, <3>2 DEF Document, Facts
    <3> QED
      BY <3>3 DEF n
  <2>3. net' = net \/ net' \subseteq net \union {b}
    BY DEF Send
  <2>4. write' \in {[row EXCEPT !.pc = ok, !.committed = doc.rev + 1],
                    [row EXCEPT !.pc = err, !.committed = NoRevision]}
        \/ write' = [row EXCEPT !.pc = err, !.committed = NoRevision]
    BY DEF Send
  <2>5. write' \in Write /\ write'.plan = write.plan /\ write'.pc # "rollback"
        /\ write'.committed \in {doc.rev + 1, NoRevision}
    <3> DEFINE n == doc.rev + 1
    <3>1. n \in Nat
      BY <1>0
    <3> HIDE DEF n
    <3>2. \A m \in Nat \union {NoRevision}, pc \in PC :
             LET row2 == [row EXCEPT !.pc = pc, !.committed = m]
             IN  row2 \in Write /\ row2.plan = row.plan /\ row2.pc = pc /\ row2.committed = m
      BY DEF Write
    <3>3. \/ write' = [row EXCEPT !.pc = ok, !.committed = n]
          \/ write' = [row EXCEPT !.pc = err, !.committed = NoRevision]
      BY <2>4 DEF n
    <3>4. write' \in Write /\ write'.plan = row.plan /\ write'.pc \in {ok, err}
          /\ write'.committed \in {n, NoRevision}
      <4>1. CASE write' = [row EXCEPT !.pc = ok, !.committed = n]
        BY <3>1, <3>2, <4>1
      <4>2. CASE write' = [row EXCEPT !.pc = err, !.committed = NoRevision]
        BY <3>2, <4>2
      <4> QED
        BY <3>3, <4>1, <4>2
    <3> QED
      BY <3>4 DEF n
  <2>6. TypeOK'
    <3>1. changes' \in Nat /\ edits' \in 0..MaxEdits /\ ours' \subseteq {"mutation", "rollback"}
      BY <1>0, <1>1 DEF IInv, TypeOK, Apply
    <3>2. net' \subseteq Batch
      BY <1>0, <2>3
    <3>3. drive' \in Nat /\ permit' \in BOOLEAN /\ halted' \in BOOLEAN
      BY DEF IInv, TypeOK, Send
    <3> QED
      BY <2>2, <2>5, <3>1, <3>2, <3>3 DEF TypeOK
  <2>7. Fence'
    BY <1>0, <2>2, <2>3, <2>5 DEF IInv, Fence, Unedited
  <2> QED
    BY <2>6, <2>7
<1>2. CASE UNCHANGED document /\ net' \subseteq net \union {b}
             /\ write' = [row EXCEPT !.pc = err, !.committed = NoRevision]
  <2>1. write' \in Write /\ write'.plan = write.plan /\ write'.pc # "rollback"
        /\ write'.committed = NoRevision
    BY <1>2 DEF Write
  <2>2. TypeOK'
    BY <1>0, <1>2, <2>1 DEF IInv, TypeOK, Send, document
  <2>3. Fence'
    BY <1>0, <1>2, <2>1 DEF IInv, Fence, Unedited, document
  <2> QED
    BY <2>2, <2>3
<1> QED
    BY <1>1, <1>2 DEF Send

\* The mutation keeps the invariant.
LEMMA MutateIInv == IInv /\ Mutate => IInv'
<1> USE EltWriteAssumption
<1> SUFFICES ASSUME IInv, Mutate PROVE IInv'
    OBVIOUS
<1>0. write \in Write /\ write.count = 0 /\ write.plan.rev \in Nat /\ net = {} /\ ours = {}
    BY DEF IInv, TypeOK, CountAt, Accounts, Mutate, Write
<1>1. CASE ~permit
  <2>1. Fails("not_attempted") \in Write
    BY <1>0 DEF Fails, Ends, Write, PC, Certification
  <2>2. Goes(Fails("not_attempted"))
    BY <1>1 DEF Mutate
  <2> QED
    BY <1>0, <2>1, <2>2, GoesIInv DEF Fails, Ends, Write
<1>2. CASE permit
  <2> DEFINE b == [kind |-> "mutation", rev |-> write.plan.rev]
             row == Counted(write, "ambiguous")
  <2>1. b \in Batch /\ Unedited(b.rev)
    BY <1>0 DEF Batch, IInv, Fence
  <2>2. row \in Write /\ row.plan = write.plan /\ row.count = 1
    BY <1>0, CountedRow DEF Certification
  <2>3. Send(b, row, "postimage", "settlement")
    BY <1>2 DEF Mutate
  <2>4. TypeOK' /\ Fence'
    BY <2>1, <2>2, <2>3, SendFence DEF PC
  <2>5. CountAt' /\ Accounts'
    <3>1. CASE /\ ours' = {"mutation"} /\ net' = {}
               /\ write'.count = 1 /\ write'.pc \in {"postimage", "settlement"}
      BY <3>1 DEF CountAt, Accounts
    <3>2. CASE /\ ours' = {} /\ net' \in {{}, {b}}
               /\ write'.count = 1 /\ write'.pc = "settlement"
      <4>1. net' = {} \/ One("mutation")'
        BY <1>0, <3>2 DEF One
      <4> QED
        BY <3>2, <4>1 DEF CountAt, Accounts
    <3> QED
      BY <1>0, <2>2, <2>3, <3>1, <3>2 DEF Send, Apply, document, Write
  <2> QED
    BY <2>4, <2>5 DEF IInv
<1> QED
    BY <1>1, <1>2

\* The rollback keeps the invariant.
LEMMA RollbackIInv == IInv /\ Rollback => IInv'
<1> USE EltWriteAssumption
<1> SUFFICES ASSUME IInv, Rollback PROVE IInv'
    OBVIOUS
<1> DEFINE b == RollbackBatch
           row == Counted(write, "rollback_unverified")
<1>0. /\ write \in Write /\ write.count = 1 /\ write.after.rev \in Nat
      /\ net = {} /\ ours = {"mutation"}
    BY DEF IInv, TypeOK, CountAt, Accounts, Rollback, Write
<1>1. b \in Batch /\ Unedited(b.rev) /\ b = [kind |-> "rollback", rev |-> write.after.rev]
    BY <1>0 DEF Batch, RollbackBatch, IInv, Fence, Rollback
<1>2. row \in Write /\ row.plan = write.plan /\ row.count = 2
    BY <1>0, CountedRow DEF Certification
<1>3. Send(b, row, "recovery", "recovery")
    BY DEF Rollback
<1>4. TypeOK' /\ Fence'
    BY <1>1, <1>2, <1>3, SendFence DEF PC
<1>5. CountAt' /\ Accounts'
  <2>1. CASE /\ ours' = {"mutation", "rollback"} /\ net' = {}
             /\ write'.count = 2 /\ write'.pc = "recovery"
    BY <2>1 DEF CountAt, Accounts
  <2>2. CASE /\ ours' = {"mutation"} /\ net' \in {{}, {b}}
             /\ write'.count = 2 /\ write'.pc = "recovery"
    <3>1. net' = {} \/ One("rollback")'
      BY <1>0, <1>1, <2>2 DEF One
    <3> QED
      BY <2>2, <3>1 DEF CountAt, Accounts
  <2> QED
    BY <1>0, <1>1, <1>2, <1>3, <2>1, <2>2 DEF Send, Apply, document, Write
<1> QED
    BY <1>4, <1>5 DEF IInv
-----------------------------------------------------------------------------
(* The other steps *)

\* A row that ends the call with a status and a certification.
LEMMA EndsRow ==
    ASSUME NEW row \in Write, NEW status \in {"none", "no_change", "written", "failed"},
           NEW cert \in Certification
    PROVE  /\ Ends(row, status, cert) \in Write
           /\ Ends(row, status, cert).plan = row.plan
           /\ Ends(row, status, cert).committed = row.committed
           /\ Ends(row, status, cert).count = row.count
           /\ Ends(row, status, cert).pc = "done"
BY DEF Ends, Write, PC

\* A step to a row that ends the call keeps the invariant.
LEMMA EndsIInv ==
    ASSUME IInv, NEW row \in Write, NEW status \in {"none", "no_change", "written", "failed"},
           NEW cert \in Certification, Goes(Ends(row, status, cert)),
           row.plan = write.plan, row.committed = write.committed, row.count = write.count
    PROVE  IInv'
<1> DEFINE last == Ends(row, status, cert)
<1>1. /\ last \in Write /\ last.plan = row.plan /\ last.committed = row.committed
      /\ last.count = row.count /\ last.pc = "done"
    BY EndsRow
<1> HIDE DEF last
<1>2. Goes(last)
    BY DEF last
<1> QED
    BY <1>1, <1>2, GoesIInv

\* The reads and checks keep the invariant.
LEMMA ReadIInv == IInv /\ (Authorize \/ Preimage \/ Gate \/ Settle \/ Recover) => IInv'
<1> SUFFICES ASSUME IInv, Authorize \/ Preimage \/ Gate \/ Settle \/ Recover PROVE IInv'
    OBVIOUS
<1>0. write \in Write
    BY DEF IInv, TypeOK
<1>1. ASSUME NEW cert \in Certification, NEW status \in {"none", "no_change", "written", "failed"},
             Goes(Ends(write, status, cert))
      PROVE  IInv'
    BY <1>0, <1>1, EndsIInv
<1>2. ASSUME NEW pc \in {"preimage", "gate", "mutation"}, write.count = 0, Goes(To(pc))
      PROVE  IInv'
  <2> DEFINE row == To(pc)
  <2>1. /\ row \in Write /\ row.plan = write.plan /\ row.committed = write.committed
        /\ row.count = write.count /\ row.pc = pc
    BY <1>0, <1>2 DEF To, Write, PC
  <2> HIDE DEF row
  <2>2. Goes(row)
    BY <1>2 DEF row
  <2> QED
    BY <1>2, <2>1, <2>2, GoesIInv
<1>3. CASE Authorize
  <2>1. write.count = 0
    BY <1>3 DEF Authorize, IInv, CountAt
  <2> QED
    BY <1>1, <1>2, <1>3, <2>1 DEF Authorize, Fails, Certification
<1>4. CASE Preimage
  <2>1. write.count = 0
    BY <1>4 DEF Preimage, IInv, CountAt
  <2>2. CASE Goes(Fails("not_attempted"))
    BY <1>1, <2>2 DEF Fails, Certification
  <2>3. CASE ~Goes(Fails("not_attempted"))
    <3> DEFINE row == [write EXCEPT !.before = drive]
    <3>1. /\ row \in Write /\ row.plan = write.plan /\ row.committed = write.committed
          /\ row.count = write.count
      BY <1>0 DEF Write, IInv, TypeOK
    <3>2. Goes(IF write.plan.action = "no_op" THEN Ends(row, "no_change", "preimage_verified")
               ELSE [row EXCEPT !.pc = "gate"])
      BY <1>4, <2>3 DEF Preimage
    <3> HIDE DEF row
    <3>3. CASE Goes(Ends(row, "no_change", "preimage_verified"))
      BY <3>1, <3>3, EndsIInv DEF Certification
    <3>4. CASE Goes([row EXCEPT !.pc = "gate"])
      <4> DEFINE next == [row EXCEPT !.pc = "gate"]
      <4>1. /\ next \in Write /\ next.plan = row.plan /\ next.committed = row.committed
            /\ next.count = row.count /\ next.pc = "gate"
        BY <3>1 DEF Write, PC
      <4> HIDE DEF next
      <4>2. Goes(next)
        BY <3>4 DEF next
      <4> QED
        BY <2>1, <3>1, <4>1, <4>2, GoesIInv
    <3> QED
      BY <3>2, <3>3, <3>4
  <2> QED
    BY <2>2, <2>3
<1>5. CASE Gate
  <2>1. write.count = 0
    BY <1>5 DEF Gate, IInv, CountAt
  <2> QED
    BY <1>1, <1>2, <1>5, <2>1 DEF Gate, Fails, Certification
<1>6. CASE Settle \/ Recover
    BY <1>1, <1>6 DEF Settle, Recover, Fails, Certification
<1> QED
    BY <1>3, <1>4, <1>5, <1>6

\* The reading of the postimage keeps the invariant: the revision a rollback is
\* fenced by is the one the mutation committed.
LEMMA PostimageIInv == IInv /\ Postimage => IInv'
<1> SUFFICES ASSUME IInv, Postimage PROVE IInv'
    OBVIOUS
<1>0. write \in Write /\ doc.rev \in Nat /\ drive \in Nat
    BY DEF IInv, TypeOK, Document
<1>1. CASE Goes(Fails("postimage_rejected"))
    BY <1>0, <1>1, EndsIInv DEF Fails, Certification
<1>2. CASE Goes(Ends(write, "written", "postimage_verified"))
    BY <1>0, <1>2, EndsIInv DEF Certification
<1>3. CASE SafeRollback /\ Goes([write EXCEPT !.pc = "rollback",
                                              !.after = [rev |-> doc.rev, drive |-> drive]])
  <2> DEFINE read == [rev |-> doc.rev, drive |-> drive]
             row == [write EXCEPT !.pc = "rollback", !.after = read]
  <2>1. read \in [rev : Nat, drive : Nat]
    BY <1>0
  <2>2. read.rev = doc.rev
    OBVIOUS
  <2> HIDE DEF read
  <2>3. /\ row \in Write /\ row.plan = write.plan /\ row.committed = write.committed
        /\ row.count = write.count /\ row.pc = "rollback" /\ row.after = read
    BY <1>0, <2>1 DEF Write, PC
  <2>4. Unedited(doc.rev)
    <3>1. write.committed # NoRevision
      BY <1>0, <1>3, EltWriteAssumption DEF SafeRollback
    <3> QED
      BY <1>3, <3>1 DEF SafeRollback, IInv, Fence
  <2>5. Goes(row)
    BY <1>3 DEF read
  <2> HIDE DEF row
  <2>6. Unedited(row.after.rev)
    BY <2>2, <2>3, <2>4
  <2>7. write.pc = "postimage"
    BY DEF Postimage
  <2> QED
    BY <2>3, <2>5, <2>6, <2>7, GoesIInv
<1> QED
    BY <1>1, <1>2, <1>3 DEF Postimage
-----------------------------------------------------------------------------
(* What happens meanwhile *)

\* A person's edit advances the revision: what was unedited stays so.
LEMMA EditIInv == IInv /\ Edit => IInv'
<1> SUFFICES ASSUME IInv, Edit PROVE IInv'
    OBVIOUS
<1>0. doc \in Document /\ doc.rev \in Nat /\ write \in Write /\ net \subseteq Batch
    BY DEF IInv, TypeOK, Document
<1>1. doc' \in Document /\ (UNCHANGED doc \/ doc'.rev = doc.rev + 1)
  <2> DEFINE n == doc.rev + 1
  <2>1. n \in Nat
    BY <1>0
  <2> HIDE DEF n
  <2>2. \/ doc' = [doc EXCEPT !.rev = n, !.facts = "edited"]
        \/ doc' = [doc EXCEPT !.rev = n, !.outside = "edited"]
        \/ UNCHANGED doc
    BY <1>0 DEF Edit, n, Document
  <2>3. doc' \in Document /\ (UNCHANGED doc \/ doc'.rev = n)
    BY <1>0, <2>1, <2>2 DEF Document, Facts
  <2> QED
    BY <2>3 DEF n
<1>2. TypeOK'
  <2>1. edits' \in 0..MaxEdits /\ changes' \in Nat
    BY EltWriteAssumption DEF IInv, TypeOK, Edit
  <2> QED
    BY <1>1, <2>1 DEF IInv, TypeOK, Edit
<1>3. \A r \in Nat : Unedited(r) => Unedited(r)'
    BY <1>0, <1>1 DEF Unedited
<1>4. Fence'
  <2>1. \A b \in net : b.rev \in Nat
    BY <1>0 DEF Batch
  <2>2. write.plan.rev \in Nat /\ write.after.rev \in Nat
        /\ (write.committed # NoRevision => write.committed \in Nat)
    BY <1>0 DEF Write
  <2>3. UNCHANGED <<net, write>>
    BY DEF Edit
  <2> QED
    BY <1>3, <2>1, <2>2, <2>3 DEF IInv, Fence
<1>5. CountAt' /\ Accounts'
    BY DEF Edit, IInv, CountAt, Accounts, One
<1> QED
    BY <1>2, <1>4, <1>5 DEF IInv

\* A late batch is applied at a fenced revision and leaves the account right.
LEMMA LateIInv == IInv /\ LateBatch => IInv'
<1> SUFFICES ASSUME IInv, LateBatch PROVE IInv'
    OBVIOUS
<1>0. doc \in Document /\ doc.rev \in Nat /\ write \in Write /\ net \subseteq Batch
    BY DEF IInv, TypeOK, Document
<1>1. PICK b \in net : /\ net' = net \ {b}
                       /\ IF Applies(b) THEN Apply(b) ELSE UNCHANGED document
    BY DEF LateBatch
<1>2. CASE UNCHANGED document
  <2>1. TypeOK' /\ Fence'
    BY <1>1, <1>2 DEF LateBatch, document, IInv, TypeOK, Fence, Unedited
  <2>2. CountAt' /\ Accounts'
    <3>1. net' = {} \/ net = {}
      BY <1>0, <1>1 DEF IInv, Accounts, One, TypeOK, Write
    <3> QED
      BY <1>1, <1>2, <3>1 DEF LateBatch, document, IInv, CountAt, Accounts, One
  <2> QED
    BY <2>1, <2>2 DEF IInv
<1>3. CASE Apply(b)
  <2>1. PICK facts \in {"old", "new", "bad"} : doc' = [doc EXCEPT !.rev = @ + 1, !.facts = facts]
    BY <1>3 DEF Apply
  <2>2. doc'.rev = doc.rev + 1 /\ doc' \in Document
    <3> DEFINE n == doc.rev + 1
    <3>1. n \in Nat
      BY <1>0
    <3>2. doc' = [doc EXCEPT !.rev = n, !.facts = facts]
      BY <1>0, <2>1 DEF Document
    <3> HIDE DEF n
    <3>3. doc'.rev = n /\ doc' \in Document
      BY <1>0, <3>1, <3>2 DEF Document, Facts
    <3> QED
      BY <3>3 DEF n
  <2>3. b \in Batch /\ b.kind \in {"mutation", "rollback"}
    BY <1>0 DEF Batch
  <2>4. TypeOK'
    <3>1. changes' \in Nat /\ edits' \in 0..MaxEdits
      BY <1>3 DEF IInv, TypeOK, Apply
    <3>2. ours' \subseteq {"mutation", "rollback"}
      BY <1>3, <2>3 DEF IInv, TypeOK, Apply
    <3>3. net' \subseteq Batch
      BY <1>0, <1>1
    <3>4. drive' \in Nat /\ permit' \in BOOLEAN /\ halted' \in BOOLEAN /\ write' \in Write
      BY DEF LateBatch, IInv, TypeOK
    <3> QED
      BY <2>2, <3>1, <3>2, <3>3, <3>4 DEF TypeOK
  <2>5. \A r \in Nat : Unedited(r) => Unedited(r)'
    BY <1>0, <2>2 DEF Unedited
  <2>6. Fence'
    <3>1. \A c \in net : c.rev \in Nat
      BY <1>0 DEF Batch
    <3>2. write.plan.rev \in Nat /\ write.after.rev \in Nat
          /\ (write.committed # NoRevision => write.committed \in Nat)
      BY <1>0 DEF Write
    <3>3. net' \subseteq net /\ UNCHANGED write
      BY <1>1 DEF LateBatch
    <3> QED
      BY <2>5, <3>1, <3>2, <3>3 DEF IInv, Fence
  <2>7. CountAt' /\ Accounts'
    <3>1. UNCHANGED write /\ ours' = ours \union {b.kind}
      BY <1>3 DEF LateBatch, Apply
    <3>2. net # {} /\ write.count \in 0..2
      BY <1>0, <1>1 DEF Write
    <3>3. CASE write.count = 1 /\ ours = {} /\ One("mutation")
      <4>1. b.kind = "mutation" /\ net' = {}
        BY <1>1, <3>3 DEF One
      <4> QED
        BY <3>1, <3>2, <3>3, <4>1 DEF IInv, CountAt, Accounts
    <3>4. CASE write.count = 2 /\ ours = {"mutation"} /\ One("rollback")
      <4>1. b.kind = "rollback" /\ net' = {}
        BY <1>1, <3>4 DEF One
      <4> QED
        BY <3>1, <3>2, <3>4, <4>1 DEF IInv, CountAt, Accounts
    <3> QED
      BY <3>2, <3>3, <3>4 DEF IInv, Accounts
  <2> QED
    BY <2>4, <2>6, <2>7 DEF IInv
<1> QED
    BY <1>1, <1>2, <1>3

-----------------------------------------------------------------------------
(* Theorems *)

\* Every step keeps the invariant.
LEMMA NextIInv == IInv /\ [Next]_vars => IInv'
<1> SUFFICES ASSUME IInv, [Next]_vars PROVE IInv'
    OBVIOUS
<1>1. CASE Authorize \/ Preimage \/ Gate \/ Settle \/ Recover
    BY <1>1, ReadIInv
<1>2. CASE Mutate \/ Rollback \/ Postimage \/ Edit \/ LateBatch
    BY <1>2, MutateIInv, RollbackIInv, PostimageIInv, EditIInv, LateIInv
<1>3. CASE DriveAdvances \/ PermitExpires \/ KillSwitch \/ UNCHANGED vars
  <2>1. TypeOK'
    BY <1>3 DEF DriveAdvances, PermitExpires, KillSwitch, vars, document, IInv, TypeOK
  <2>2. UNCHANGED <<document, net, write>>
    BY <1>3 DEF DriveAdvances, PermitExpires, KillSwitch, vars, document
  <2> QED
    BY <2>1, <2>2 DEF document, IInv, Fence, Unedited, CountAt, Accounts, One
<1> QED
    BY <1>1, <1>2, <1>3 DEF Next, Step

\* The invariant holds throughout.
THEOREM Invariance == Spec => []IInv
BY InitIInv, NextIInv, PTL DEF Spec

\* The types hold throughout.
THEOREM TypeCorrect == Spec => []TypeOK
BY Invariance, PTL DEF IInv

\* The count in the result covers every batch that was applied or may be: the
\* number the store fences a document by is never too small.
THEOREM CountIsCover == Spec => []CountCovers
<1>1. IInv => CountCovers
  <2> SUFFICES ASSUME IInv PROVE CountCovers
    OBVIOUS
  <2>1. write.count \in 0..2
    BY DEF IInv, TypeOK, Write
  <2>2. Cardinality({}) = 0
    BY FS_EmptySet
  <2>3. \A x : Cardinality({x}) = 1
    BY FS_Singleton
  <2>4. Cardinality({"mutation", "rollback"}) = 2
    <3>1. IsFiniteSet({"mutation"}) /\ "rollback" \notin {"mutation"}
      BY FS_Singleton
    <3>2. Cardinality({"mutation"} \union {"rollback"}) = Cardinality({"mutation"}) + 1
      BY <3>1, FS_AddElement
    <3>3. {"mutation"} \union {"rollback"} = {"mutation", "rollback"}
      OBVIOUS
    <3> QED
      BY <2>3, <3>2, <3>3
  <2>5. \A kind : One(kind) => Cardinality(net) = 1
    BY <2>3 DEF One
  <2>6. CASE write.count = 0
    BY <2>2, <2>6 DEF IInv, Accounts, CountCovers
  <2>7. CASE write.count = 1
    BY <2>2, <2>3, <2>5, <2>7 DEF IInv, Accounts, CountCovers
  <2>8. CASE write.count = 2
    <3>1. \/ Cardinality(ours) = 1 /\ Cardinality(net) \in {0, 1}
          \/ Cardinality(ours) = 2 /\ Cardinality(net) = 0
      <4>1. \/ ours = {"mutation"} /\ (net = {} \/ One("rollback"))
            \/ ours = {"mutation", "rollback"} /\ net = {}
        BY <2>8 DEF IInv, Accounts
      <4>2. CASE ours = {"mutation"} /\ net = {}
        BY <2>2, <2>3, <4>2
      <4>3. CASE ours = {"mutation"} /\ One("rollback")
        <5>1. Cardinality(ours) = 1
          BY <2>3, <4>3
        <5>2. Cardinality(net) = 1
          BY <2>5, <4>3
        <5> QED
          BY <5>1, <5>2
      <4>4. CASE ours = {"mutation", "rollback"} /\ net = {}
        BY <2>2, <2>4, <4>4
      <4> QED
        BY <4>1, <4>2, <4>3, <4>4
    <3> QED
      BY <2>8, <3>1 DEF CountCovers
  <2> QED
    BY <2>1, <2>6, <2>7, <2>8
<1> QED
    BY <1>1, Invariance, PTL

\* What the fact block cannot hold while the plan was not applied, or not
\* taken back.
Block ==
    write.plan.action = "replace" =>
        /\ ours = {} => doc.facts # "new"
        /\ ours = {"mutation"} => doc.facts # "old"

\* A result is given once, at the end, with the count of its calls.
Results ==
    /\ write.pc \in PC \ {"authorization", "preimage", "done"} => write.plan.action = "replace"
    /\ write.pc = "recovery" => write.count = 2
    /\ write.status # "none" \/ write.cert = "rollback_verified" => write.pc = "done"

RInv == IInv /\ Block /\ Results /\ ResultTruthful

LEMMA InitRInv == Init => RInv
<1> SUFFICES ASSUME Init PROVE Block /\ Results /\ ResultTruthful
    BY InitIInv DEF RInv
<1> QED
    BY DEF Init, Block, Results, ResultTruthful, PC

\* A batch that is applied writes what its kind may write.
LEMMA ApplyBlock ==
    ASSUME IInv, Block, NEW b \in Batch, Apply(b), write'.plan = write.plan,
           b.kind = "rollback" => "mutation" \in ours
    PROVE  Block'
<1>1. PICK facts \in IF b.kind = "mutation" THEN {"new", "bad"} ELSE {"old", "bad"} :
         doc' = [doc EXCEPT !.rev = @ + 1, !.facts = facts]
    BY DEF Apply
<1>2. doc'.facts = facts
    BY <1>1 DEF IInv, TypeOK, Document
<1>3. ours' = ours \union {b.kind} /\ b.kind \in {"mutation", "rollback"}
    BY DEF Apply, Batch
<1> QED
    BY <1>1, <1>2, <1>3 DEF Block

LEMMA SendBlock ==
    ASSUME IInv, Block, NEW b \in Batch, NEW row \in Write, NEW ok \in PC, NEW err \in PC,
           Send(b, row, ok, err), row.plan = write.plan,
           b.kind = "rollback" => "mutation" \in ours
    PROVE  /\ Block'
           /\ write'.plan = write.plan
           /\ write'.pc \in {ok, err}
           /\ write'.count = row.count
           /\ write'.status = row.status
           /\ write'.cert = row.cert
<1>1. /\ write'.plan = write.plan
      /\ write'.pc \in {ok, err}
      /\ write'.count = row.count
      /\ write'.status = row.status
      /\ write'.cert = row.cert
  <2> DEFINE n == doc.rev + 1
  <2>1. \/ write' = [row EXCEPT !.pc = ok, !.committed = n]
        \/ write' = [row EXCEPT !.pc = err, !.committed = NoRevision]
    BY DEF Send
  <2> HIDE DEF n
  <2> QED
    BY <2>1 DEF Write
<1>2. Apply(b) \/ UNCHANGED document
    BY DEF Send
<1>3. UNCHANGED document => Block'
    BY <1>1 DEF document, Block
<1> QED
    BY <1>1, <1>2, <1>3, ApplyBlock

\* A call that is sent has no result yet.
LEMMA CallRInv == RInv /\ (Mutate \/ Rollback) => RInv'
<1> SUFFICES ASSUME RInv, Mutate \/ Rollback PROVE Block' /\ Results' /\ ResultTruthful'
    BY MutateIInv, RollbackIInv DEF RInv
<1>0. write \in Write /\ write.pc \in {"mutation", "rollback"} /\ write.status = "none"
    BY DEF RInv, IInv, TypeOK, Results, Mutate, Rollback
<1>1. ASSUME Mutate, ~permit PROVE Block' /\ Results' /\ ResultTruthful'
  <2>1. write' = Fails("not_attempted") /\ UNCHANGED document
    BY <1>1 DEF Mutate, Goes
  <2>2. /\ write'.plan = write.plan /\ write'.pc = "done" /\ write'.status = "failed"
        /\ write'.cert = "not_attempted"
    BY <1>0, <2>1 DEF Fails, Ends, Write
  <2> QED
    BY <2>1, <2>2 DEF RInv, Block, Results, ResultTruthful, document, PC
<1>2. ASSUME NEW b \in Batch, NEW row \in Write, NEW ok \in PC, NEW err \in PC,
             Send(b, row, ok, err), row.plan = write.plan, row.status = write.status,
             row.cert # "rollback_verified", ok # "done", err # "done",
             b.kind = "rollback" => "mutation" \in ours,
             ok = "recovery" \/ err = "recovery" => row.count = 2
      PROVE  Block' /\ Results' /\ ResultTruthful'
  <2>1. /\ Block'
        /\ write'.plan = write.plan /\ write'.pc \in {ok, err} /\ write'.count = row.count
        /\ write'.status = row.status /\ write'.cert = row.cert
    BY <1>2, SendBlock DEF RInv
  <2>2. write.plan.action = "replace"
    BY <1>0 DEF RInv, Results, PC
  <2> QED
    BY <1>0, <1>2, <2>1, <2>2 DEF Results, ResultTruthful
<1>3. ASSUME Mutate, permit PROVE Block' /\ Results' /\ ResultTruthful'
  <2> DEFINE b   == [kind |-> "mutation", rev |-> write.plan.rev]
             row == Counted(write, "ambiguous")
  <2>1. Send(b, row, "postimage", "settlement")
    BY <1>3 DEF Mutate
  <2>2. b \in Batch /\ b.kind = "mutation"
    BY <1>0 DEF Batch, Write
  <2>3. write.count = 0
    BY <1>3 DEF Mutate, RInv, IInv, CountAt
  <2>4. row \in Write /\ row.plan = write.plan
    BY <1>0, <2>3, CountedRow DEF Certification
  <2>5. row.status = write.status /\ row.cert = "ambiguous"
    BY <1>0 DEF Counted, Write
  <2> HIDE DEF b, row
  <2> QED
    BY <1>2, <2>1, <2>2, <2>4, <2>5 DEF PC
<1>4. ASSUME Rollback PROVE Block' /\ Results' /\ ResultTruthful'
  <2> DEFINE row == Counted(write, "rollback_unverified")
  <2>1. Send(RollbackBatch, row, "recovery", "recovery")
    BY <1>4 DEF Rollback
  <2>2. RollbackBatch \in Batch
    BY <1>0 DEF RollbackBatch, Batch, Write
  <2>3. write.count = 1 /\ ours = {"mutation"}
    BY <1>4 DEF Rollback, RInv, IInv, CountAt, Accounts
  <2>4. row \in Write /\ row.plan = write.plan /\ row.count = 2
    BY <1>0, <2>3, CountedRow DEF Certification
  <2>5. row.status = write.status /\ row.cert = "rollback_unverified"
    BY <1>0 DEF Counted, Write
  <2> HIDE DEF row
  <2> QED
    BY <1>2, <2>1, <2>2, <2>3, <2>4, <2>5 DEF PC
<1> QED
    BY <1>1, <1>3, <1>4

\* A row that ends the call: what it says must be so when it says it.
LEMMA EndsRInv ==
    ASSUME RInv, NEW row \in Write, NEW status \in {"no_change", "written", "failed"},
           NEW cert \in Certification, Goes(Ends(row, status, cert)), row.plan = write.plan,
           status = "written" => ours = {"mutation"} /\ net = {},
           status = "no_change" => ours = {} /\ net = {},
           cert = "rollback_verified" => ours = {"mutation", "rollback"} /\ net = {}
    PROVE  Block' /\ Results' /\ ResultTruthful'
<1>1. /\ write'.plan = write.plan /\ write'.pc = "done" /\ write'.status = status
      /\ write'.cert = cert /\ UNCHANGED <<document, net>>
    BY DEF Goes, Ends, Write
<1> QED
    BY <1>1 DEF RInv, Block, Results, ResultTruthful, document, PC

\* A row that goes on has no result and keeps its plan.
LEMMA GoesRInv ==
    ASSUME RInv, NEW row \in Write, Goes(row), row.plan = write.plan,
           row.status = "none", row.cert # "rollback_verified",
           row.pc \notin {"recovery", "done"},
           row.pc \in {"authorization", "preimage"} \/ write.plan.action = "replace"
    PROVE  Block' /\ Results' /\ ResultTruthful'
<1>1. write' = row /\ UNCHANGED <<document, net>>
    BY DEF Goes
<1> QED
    BY <1>1 DEF RInv, Block, Results, ResultTruthful, document

\* The call ends as written, unchanged or taken back only when it is.
LEMMA ReadRInv ==
    RInv /\ (Authorize \/ Preimage \/ Gate \/ Settle \/ Postimage \/ Recover) => RInv'
<1> SUFFICES ASSUME RInv, Authorize \/ Preimage \/ Gate \/ Settle \/ Postimage \/ Recover
             PROVE  Block' /\ Results' /\ ResultTruthful'
    BY ReadIInv, PostimageIInv DEF RInv
<1> DEFINE Kept == Block' /\ Results' /\ ResultTruthful'
<1>0. /\ write \in Write /\ IInv /\ CountAt /\ Accounts /\ Block
      /\ write.pc # "done" => write.status = "none" /\ write.cert # "rollback_verified"
      /\ write.pc \in {"gate", "mutation", "settlement", "postimage", "rollback", "recovery"} =>
             write.plan.action = "replace"
      /\ write.pc = "recovery" => write.count = 2
    BY DEF RInv, IInv, TypeOK, Results, PC
<1>1. ASSUME NEW cert \in Certification \ {"rollback_verified"}, Goes(Fails(cert)) PROVE Kept
    BY <1>0, <1>1, EndsRInv DEF Fails
<1>2. ASSUME NEW pc \in PC \ {"recovery", "done"}, Goes(To(pc)), write.pc # "done",
             pc \in {"authorization", "preimage"} \/ write.plan.action = "replace"
      PROVE  Kept
  <2>1. /\ To(pc) \in Write /\ To(pc).plan = write.plan /\ To(pc).status = write.status
        /\ To(pc).cert = write.cert /\ To(pc).pc = pc
    BY <1>0 DEF To, Write
  <2> QED
    BY <1>0, <1>2, <2>1, GoesRInv
<1>3. CASE Authorize
    BY <1>1, <1>2, <1>3 DEF Authorize, Certification, PC
<1>4. CASE Preimage
  <2> DEFINE row == [write EXCEPT !.before = drive]
  <2>1. /\ row \in Write /\ row.plan = write.plan /\ row.status = write.status
        /\ row.cert = write.cert
    BY <1>0 DEF Write, IInv, TypeOK
  <2>2. CASE Goes(Fails("not_attempted"))
    BY <1>1, <2>2 DEF Certification
  <2>3. CASE write.plan.action = "no_op" /\ Goes(Ends(row, "no_change", "preimage_verified"))
    <3>1. ours = {} /\ net = {}
      BY <1>0, <1>4 DEF Preimage, CountAt, Accounts
    <3> HIDE DEF row
    <3> QED
      BY <2>1, <2>3, <3>1, EndsRInv DEF Certification
  <2>4. CASE write.plan.action = "replace" /\ Goes([row EXCEPT !.pc = "gate"])
    <3> DEFINE next == [row EXCEPT !.pc = "gate"]
    <3> HIDE DEF row
    <3>1. /\ next \in Write /\ next.plan = write.plan /\ next.status = write.status
          /\ next.cert = write.cert /\ next.pc = "gate"
      BY <2>1 DEF Write, PC
    <3>2. Goes(next)
      BY <2>4
    <3> HIDE DEF next
    <3> QED
      BY <1>0, <1>4, <2>4, <3>1, <3>2, GoesRInv DEF Preimage
  <2>5. write.plan.action \in {"no_op", "replace"}
    BY <1>0 DEF Write
  <2> QED
    BY <1>4, <2>2, <2>3, <2>4, <2>5 DEF Preimage
<1>5. CASE Gate
    BY <1>0, <1>1, <1>2, <1>5 DEF Gate, Certification, PC
<1>6. CASE Settle
  <2>1. CASE SettledWritten /\ Goes(Ends(write, "written", "postimage_verified"))
    <3>1. doc.facts = "new" /\ write.count = 1 /\ write.plan.action = "replace"
      BY <1>0, <1>6, <2>1 DEF Settle, SettledWritten, CertifiedPostimage, CountAt
    <3>2. ours = {"mutation"} /\ net = {}
      BY <1>0, <3>1 DEF Block, Accounts
    <3> QED
      BY <1>0, <2>1, <3>2, EndsRInv DEF Certification
  <2> QED
    BY <1>1, <1>6, <2>1 DEF Settle, Certification
<1>7. CASE Postimage
  <2>1. ours = {"mutation"} /\ net = {}
    BY <1>0, <1>7 DEF Postimage, Accounts
  <2>2. CASE Goes(Ends(write, "written", "postimage_verified"))
    BY <1>0, <2>1, <2>2, EndsRInv DEF Certification
  <2>3. CASE Goes(Fails("postimage_rejected"))
    BY <1>1, <2>3 DEF Certification
  <2>4. CASE Goes([write EXCEPT !.pc = "rollback", !.after = [rev |-> doc.rev, drive |-> drive]])
    <3> DEFINE next == [write EXCEPT !.pc = "rollback",
                                     !.after = [rev |-> doc.rev, drive |-> drive]]
    <3>1. [rev |-> doc.rev, drive |-> drive] \in [rev : Nat, drive : Nat]
      BY <1>0 DEF IInv, TypeOK, Document
    <3>2. /\ next \in Write /\ next.plan = write.plan /\ next.status = write.status
          /\ next.cert = write.cert /\ next.pc = "rollback"
      BY <1>0, <3>1 DEF Write, PC
    <3>3. Goes(next)
      BY <2>4
    <3> HIDE DEF next
    <3> QED
      BY <1>0, <1>7, <3>2, <3>3, GoesRInv DEF Postimage
  <2> QED
    BY <1>7, <2>2, <2>3, <2>4 DEF Postimage
<1>8. CASE Recover
  <2>1. CASE Recovered /\ Goes(Fails("rollback_verified"))
    <3>1. doc.facts = "old" /\ write.count = 2 /\ write.plan.action = "replace"
      BY <1>0, <1>8, <2>1 DEF Recover, Recovered
    <3>2. ours = {"mutation", "rollback"} /\ net = {}
      BY <1>0, <3>1 DEF Block, Accounts
    <3> QED
      BY <1>0, <2>1, <3>2, EndsRInv DEF Fails, Certification
  <2> QED
    BY <1>1, <1>8, <2>1 DEF Recover, Certification
<1> QED
    BY <1>3, <1>4, <1>5, <1>6, <1>7, <1>8

\* Once a result is given, no batch is left that could make it untrue.
LEMMA NextRInv == RInv /\ [Next]_vars => RInv'
<1> SUFFICES ASSUME RInv, [Next]_vars PROVE RInv'
    OBVIOUS
<1>0. IInv' /\ write \in Write /\ net \subseteq Batch
    BY NextIInv DEF RInv, IInv, TypeOK
<1>1. CASE Authorize \/ Preimage \/ Gate \/ Settle \/ Postimage \/ Recover
    BY <1>1, ReadRInv
<1>2. CASE Mutate \/ Rollback
    BY <1>2, CallRInv
<1>3. CASE UNCHANGED <<document, net, write>>
    BY <1>0, <1>3 DEF document, RInv, Block, Results, ResultTruthful
<1>4. CASE Edit
  <2>1. doc'.facts \in {doc.facts, "edited"} /\ UNCHANGED <<ours, net, write>>
    BY <1>4 DEF Edit, RInv, IInv, TypeOK, Document
  <2> QED
    BY <1>0, <2>1 DEF RInv, Block, Results, ResultTruthful
<1>5. CASE LateBatch
  <2>1. PICK b \in net : /\ net' = net \ {b}
                         /\ IF Applies(b) THEN Apply(b) ELSE UNCHANGED document
    BY <1>5 DEF LateBatch
  <2>2. UNCHANGED write
    BY <1>5 DEF LateBatch
  <2>3. b \in Batch /\ (b.kind = "rollback" => "mutation" \in ours)
    <3>1. write.count \in {0, 1, 2}
      BY <1>0 DEF Write
    <3> QED
      BY <1>0, <2>1, <3>1 DEF RInv, IInv, Accounts, One
  <2>4. Block'
    <3>1. CASE Apply(b)
      BY <2>2, <2>3, <3>1, ApplyBlock DEF RInv
    <3>2. CASE UNCHANGED document
      BY <2>2, <3>2 DEF RInv, Block, document
    <3> QED
      BY <2>1, <3>1, <3>2
  <2>5. Results' /\ ResultTruthful'
    BY <2>1, <2>2 DEF RInv, Results, ResultTruthful
  <2> QED
    BY <1>0, <2>4, <2>5 DEF RInv
<1>6. CASE DriveAdvances \/ PermitExpires \/ KillSwitch \/ UNCHANGED vars
  <2>1. UNCHANGED <<document, net, write>>
    BY <1>6 DEF DriveAdvances, PermitExpires, KillSwitch, vars, document
  <2> QED
    BY <1>3, <2>1
<1> QED
    BY <1>1, <1>2, <1>4, <1>5, <1>6 DEF Next, Step

\* A written week was written by this call and not taken back, a verified
\* rollback took it back, and neither leaves a batch that may still be applied.
THEOREM ResultsTold == Spec => []ResultTruthful
BY InitRInv, NextRInv, PTL DEF Spec, RInv

\* No batch, prompt or late, is applied over a person's edit of the fact block:
\* each requires a revision that either is over or is not such an edit.
THEOREM NoOverwrite == Spec => EditsSurvive
<1>1. IInv /\ [Next]_vars => [doc.facts = "edited" => doc'.facts = "edited"]_vars
  <2> SUFFICES ASSUME IInv, Next, doc.facts = "edited" PROVE doc'.facts = "edited"
    OBVIOUS
  <2>1. ASSUME NEW b, Unedited(b.rev), Apply(b) PROVE FALSE
    BY <2>1 DEF Apply, Applies, Unedited
  <2>2. CASE Mutate
    <3>1. Unedited(write.plan.rev)
      BY DEF IInv, Fence
    <3> QED
      BY <2>1, <2>2, <3>1 DEF Mutate, Send, Goes, document
  <2>3. CASE Rollback
    <3>1. Unedited(write.after.rev)
      BY <2>3 DEF IInv, Fence, Rollback
    <3> QED
      BY <2>1, <2>3, <3>1 DEF Rollback, RollbackBatch, Send, document
  <2>4. CASE LateBatch
    <3>1. \A b \in net : Unedited(b.rev)
      BY DEF IInv, Fence
    <3> QED
      BY <2>1, <2>4, <3>1 DEF LateBatch, document
  <2>5. CASE Edit
    <3>1. doc \in Document
      BY DEF IInv, TypeOK
    <3> QED
      BY <2>5, <3>1 DEF Edit, Document
  <2>6. CASE Authorize \/ Preimage \/ Gate \/ Settle \/ Postimage \/ Recover
             \/ DriveAdvances \/ PermitExpires \/ KillSwitch
    BY <2>6 DEF Authorize, Preimage, Gate, Settle, Postimage, Recover, DriveAdvances,
               PermitExpires, KillSwitch, Goes, document
  <2> QED
    BY <2>2, <2>3, <2>4, <2>5, <2>6 DEF Next, Step
<1> QED
    BY <1>1, Invariance, PTL DEF Spec, EditsSurvive

-----------------------------------------------------------------------------
(* The composition *)

\* A behaviour of the composition is one of SheetWrite: a step of the other
\* target leaves the sheet alone.
LEMMA SheetRefined == MCSpec => Sheet!Spec
<1>1. MCInit => Sheet!Init
    BY DEF MCInit
<1>2. [MCNext]_<<target, vars, sheetVars>> => [Sheet!Next]_(Sheet!vars)
    BY DEF MCNext, sheetVars, Sheet!vars, Sheet!workbook, Sheet!outside, Sheet!switch
<1> QED
    BY <1>1, <1>2, PTL DEF MCSpec, Sheet!Spec

\* A result of writeStagingSheetValues or of normalizeStagingSheetStructure says
\* what was done to the workbook.
THEOREM SheetResultsTruthful == MCSpec => []SheetTruthful
BY SheetRefined, Sheet!ResultsTruthful, PTL DEF SheetTruthful

\* An edit that Drive shows at the trailing fence is not overwritten.
THEOREM ShownEditsSurvive == MCSpec => OverwritesOnlyUnseenEdit
BY SheetRefined, Sheet!ShownEditsSurvive, PTL DEF OverwritesOnlyUnseenEdit

\* A confirmed engagement of the kill switch stops the write of a sheet.
THEOREM EngagementStopsWrites == MCSpec => EngageStops
BY SheetRefined, Sheet!EngagementStopsWrites, PTL DEF EngageStops

=============================================================================
