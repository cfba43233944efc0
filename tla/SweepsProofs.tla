----------------------------- MODULE SweepsProofs -----------------------------
(***************************************************************************)
(* Theorems about Sweeps, for any applications, agencies, invocations and   *)
(* faults.  The invariant says, of every invocation, what it holds at each  *)
(* stage and what of it the tables already show; of the tables, which       *)
(* invocations a row can come from; and of the lock, that its holder alone  *)
(* is at work.                                                              *)
(***************************************************************************)
EXTENDS Sweeps, TLAPS

Types ==
    /\ kind \in {"agency", "referral"}
    /\ source \in [Apps -> Agencies \union {NoAgency}]
    /\ locked \subseteq Runs
    /\ status \in [Runs -> {"none", "running", "completed", "failed"}]
    /\ subs \in [Apps -> Submission]
    /\ items \in [Apps -> SUBSET Runs]
    /\ ledger \in [Apps -> Runs \union {NoRun}]
    /\ run \in [Runs -> Run]

\* Stages by what was read and written.
Early == {"idle", "create", "fetch", "tracked"}
Closed == {"fail", "release", "done", "killed"}
Stored == {"items", "alerts", "again", "complete"} \union Closed

\* What an invocation holds follows its stage.
Holds(r) ==
    /\ run[r].pc \in Early =>
          run[r].rows = {} /\ run[r].found = {} /\ run[r].alertable = {}
    /\ run[r].pc \in {"tracked", "check", "subs"} => kind = "agency"
    /\ run[r].pc = "alerted" =>
          kind = "referral" /\ run[r].alertable \subseteq run[r].found
    /\ kind = "referral" => run[r].rows = {}
    /\ run[r].pc \in {"subs", "items", "alerts"} =>
          /\ run[r].due \subseteq run[r].alertable /\ run[r].alertable \subseteq run[r].found
          /\ run[r].alertable \ run[r].due \subseteq Alerted
          /\ kind = "agency" => run[r].found \subseteq run[r].rows

\* What an invocation has written is in the tables.
Wrote(r) ==
    /\ status[r] = "completed" => run[r].pc \in Closed
    /\ run[r].pc \in {"items", "alerts", "again", "complete"} \/ status[r] = "completed" =>
          \A a \in run[r].rows : r \in subs[a].by
    /\ run[r].pc \in {"alerts", "again", "complete"} \/ status[r] = "completed" =>
          \A a \in run[r].found : r \in items[a]
    /\ run[r].pc \in {"again", "complete"} \/ status[r] = "completed" =>
          run[r].alertable \subseteq Alerted

\* What others wrote since an invocation looked, they wrote while it was at work.
Meets(r) ==
    /\ run[r].after \subseteq Ended
    /\ run[r].pc \in {"subs", "items", "alerts"} /\ ~run[r].blind =>
          \A a \in run[r].due : ledger[a] # NoRun => Overlap(ledger[a], r)
    /\ \A a, b \in Apps :
          /\ b \in run[r].rows /\ b \notin run[r].found /\ b \notin run[r].unread
          /\ source[a] # source[b] /\ NoAgency \notin {source[a], source[b]}
          => subs[a].by \intersect run[r].after = {}

\* The rows of the tables.
TableInv ==
    /\ \A a \in Apps : ledger[a] # NoRun => items[a] # {}
    /\ kind = "agency" => \A a \in Apps : items[a] # {} => a \in Tracked
    /\ \A a \in Apps, r \in Runs :
          r \in subs[a].by => a \in run[r].rows /\ run[r].pc \in Stored
    /\ \A a \in Tracked :
          ~subs[a].conflict => \E r \in subs[a].by : a \notin run[r].found

\* Over a pinned connection the holder of the lock is alone.
LockInv ==
    kind = "agency" /\ pinned =>
       /\ \A r, q \in locked : r = q
       /\ \A r \in Runs \ locked : run[r].pc \in {"idle", "done", "killed"}
       /\ \A r \in Runs :
             /\ run[r].pc \in {"check", "subs"} =>
                   (run[r].todo \union run[r].rows) \intersect Tracked = {}
             /\ run[r].pc = "items" => \A a \in run[r].found : items[a] = {}
       /\ \A a \in Apps, r, q \in Runs :
             {r, q} \subseteq subs[a].by \/ {r, q} \subseteq items[a] => r = q

RunInv == \A r \in Runs : Holds(r) /\ Wrote(r) /\ Meets(r)

IInv == Types /\ RunInv /\ TableInv /\ LockInv

-----------------------------------------------------------------------------
(* What a step of one invocation leaves to the others *)

\* A step of r changes nothing of another invocation but, by a reap, its status,
\* and adds to the tables, while it is at work, what it alone has written.
Steady(r) ==
    /\ UNCHANGED <<kind, pinned, source>>
    /\ Types'
    /\ \A q \in Runs \ {r} : run'[q] = run[q] /\ status'[q] \in {status[q], "failed"}
    /\ run'[r].after \subseteq Ended
    /\ r \in Ended => r \in Ended'
    /\ \A a \in Apps : /\ subs[a].by \subseteq subs'[a].by
                       /\ subs'[a].by \subseteq subs[a].by \union {r}
                       /\ subs'[a].by # subs[a].by => r \notin Ended
                       /\ items[a] \subseteq items'[a]
                       /\ ledger'[a] # ledger[a] => ledger'[a] = r /\ r \notin Ended

\* Ended invocations stay so, and alerts stay in the ledger.
LEMMA SteadyGrows ==
    ASSUME IInv, NEW r \in Runs, Steady(r)
    PROVE  Ended \subseteq Ended' /\ Alerted \subseteq Alerted'
<1>1. Ended \subseteq Ended'
    BY DEF Steady, Ended
<1>2. Alerted \subseteq Alerted'
    BY SweepsAssumption DEF Steady, Alerted
<1> QED
    BY <1>1, <1>2

\* What the invariant says of another invocation holds after the step.
LEMMA Others ==
    ASSUME IInv, NEW r \in Runs, Steady(r), NEW q \in Runs, q # r
    PROVE  Holds(q)' /\ Wrote(q)' /\ Meets(q)'
<1>1. run'[q] = run[q] /\ status'[q] \in {status[q], "failed"} /\ kind' = kind /\ source' = source
    BY DEF Steady
<1>2. Holds(q) /\ Wrote(q) /\ Meets(q)
    BY DEF IInv, RunInv
<1>3. Ended \subseteq Ended' /\ Alerted \subseteq Alerted'
    BY SteadyGrows
<1>4. Holds(q)'
    BY <1>1, <1>2, <1>3 DEF Holds
<1>5. Wrote(q)'
  <2>1. status'[q] = "completed" => status[q] = "completed"
      BY <1>1
  <2>2. \A a \in Apps : subs[a].by \subseteq subs'[a].by /\ items[a] \subseteq items'[a]
      BY DEF Steady
  <2>3. run[q].rows \subseteq Apps /\ run[q].found \subseteq Apps
      BY DEF IInv, Types, Run
  <2> QED
      BY <1>1, <1>2, <1>3, <2>1, <2>2, <2>3 DEF Wrote
<1>6. Meets(q)'
  <2>1. run'[q].after \subseteq Ended'
      BY <1>1, <1>2, <1>3 DEF Meets
  <2>2. ASSUME run[q].pc \in {"subs", "items", "alerts"}, ~run[q].blind,
               NEW a \in run[q].due, ledger'[a] # NoRun
        PROVE  Overlap(ledger[a], q)'
    <3>1. q \notin Ended
        BY <2>2 DEF Ended
    <3>2. a \in Apps
        BY <2>2 DEF IInv, Types, Run
    <3>3. CASE ledger'[a] = ledger[a]
      <4>1. Overlap(ledger[a], q)
          BY <1>2, <2>2, <3>3 DEF Meets
      <4>2. ledger[a] = r \/ run'[ledger[a]] = run[ledger[a]]
          BY <2>2, <3>2, <3>3 DEF Steady, IInv, Types
      <4>3. q \notin run'[r].after
          BY <3>1 DEF Steady
      <4> QED
          BY <1>1, <3>3, <4>1, <4>2, <4>3 DEF Overlap
    <3>4. CASE ledger'[a] # ledger[a]
      <4>1. ledger'[a] = r /\ r \notin Ended
          BY <3>2, <3>4 DEF Steady
      <4>2. r \notin run[q].after
          BY <1>2, <4>1 DEF Meets
      <4>3. q \notin run'[r].after
          BY <3>1 DEF Steady
      <4> QED
          BY <1>1, <4>1, <4>2, <4>3 DEF Overlap
    <3> QED
        BY <3>3, <3>4
  <2>3. ASSUME NEW a \in Apps, NEW b \in Apps,
               b \in run[q].rows, b \notin run[q].found, b \notin run[q].unread,
               source[a] # source[b], NoAgency \notin {source[a], source[b]}
        PROVE  subs'[a].by \intersect run[q].after = {}
    <3>1. subs[a].by \intersect run[q].after = {}
        BY <1>2, <2>3 DEF Meets
    <3>2. subs'[a].by # subs[a].by => r \notin run[q].after
        BY <1>2 DEF Steady, Meets
    <3> QED
        BY <3>1, <3>2 DEF Steady
  <2> QED
      BY <1>1, <2>1, <2>2, <2>3 DEF Meets
<1> QED
    BY <1>4, <1>5, <1>6

-----------------------------------------------------------------------------
(* Steps that write no row *)

Quiet(r) ==
    /\ UNCHANGED <<kind, pinned, source, subs, items, ledger>>
    /\ run' \in [Runs -> Run]
    /\ status' \in [Runs -> {"none", "running", "completed", "failed"}]
    /\ \A q \in Runs \ {r} : run'[q] = run[q] /\ status'[q] \in {status[q], "failed"}
    /\ run'[r].after \subseteq Ended
    /\ r \in Ended => r \in Ended'
    /\ run[r].pc \in Stored =>
          run'[r].pc \in Stored /\ run'[r].rows = run[r].rows /\ run'[r].found = run[r].found
    /\ locked' \subseteq Runs /\ locked \ {r} \subseteq locked'
    /\ kind = "agency" /\ pinned =>
          /\ \A p, q \in locked' : p = q
          /\ r \notin locked' => run'[r].pc \in {"idle", "done", "killed"}
          /\ run'[r].pc \in {"check", "subs"} =>
                (run'[r].todo \union run'[r].rows) \intersect Tracked = {}
          /\ run'[r].pc # "items"

\* Such a step keeps the invariant if it keeps what the invariant says of r.
LEMMA QuietIInv ==
    ASSUME IInv, NEW r \in Runs, Quiet(r), Holds(r)', Wrote(r)', Meets(r)'
    PROVE  IInv'
<1>1. UNCHANGED <<kind, pinned, source, subs, items, ledger>>
      /\ \A q \in Runs \ {r} : run'[q] = run[q]
    BY DEF Quiet
<1>2. Types'
    BY <1>1 DEF Quiet, IInv, Types
<1>3. Steady(r)
    BY <1>1, <1>2 DEF Quiet, Steady
<1>4. RunInv'
    BY <1>3, Others DEF RunInv
<1>5. Tracked' = Tracked
    BY <1>1 DEF Tracked
<1>6. TableInv'
  <2>1. \A a \in Apps, q \in Runs :
           q \in subs[a].by =>
              /\ a \in run'[q].rows /\ run'[q].pc \in Stored
              /\ run'[q].found = run[q].found
      BY <1>1 DEF Quiet, IInv, TableInv
  <2>2. \A a \in Apps : subs[a].by \subseteq Runs
      BY DEF IInv, Types, Submission
  <2>3. \A a \in Tracked : ~subs[a].conflict => \E q \in subs[a].by : a \notin run'[q].found
      BY <2>1, <2>2 DEF IInv, TableInv, Tracked
  <2> QED
      BY <1>1, <1>5, <2>1, <2>3 DEF IInv, TableInv
<1>7. LockInv'
  <2> SUFFICES ASSUME kind = "agency", pinned
               PROVE  LockInv'
      BY <1>1 DEF LockInv
  <2>1. \A p, q \in locked' : p = q
      BY DEF Quiet
  <2>2. ASSUME NEW q \in Runs \ locked'
        PROVE  run'[q].pc \in {"idle", "done", "killed"}
      BY <1>1, <2>2 DEF Quiet, IInv, LockInv
  <2>3. ASSUME NEW q \in Runs
        PROVE  /\ run'[q].pc \in {"check", "subs"} =>
                     (run'[q].todo \union run'[q].rows) \intersect Tracked = {}
               /\ run'[q].pc = "items" => \A a \in run'[q].found : items[a] = {}
    <3>1. CASE q = r
        BY <3>1 DEF Quiet
    <3>2. CASE q # r
        BY <1>1, <2>3, <3>2 DEF IInv, LockInv
    <3> QED
        BY <3>1, <3>2
  <2>4. \A a \in Apps, p, q \in Runs :
           {p, q} \subseteq subs[a].by \/ {p, q} \subseteq items[a] => p = q
      BY DEF IInv, LockInv
  <2> QED
      BY <1>1, <1>5, <2>1, <2>2, <2>3, <2>4 DEF LockInv
<1> QED
    BY <1>2, <1>4, <1>6, <1>7 DEF IInv

\* A move changes the stage and nothing else of an invocation.
LEMMA Moved ==
    ASSUME IInv, NEW r \in Runs, NEW pc \in PC, Moves(r, pc)
    PROVE  /\ run' \in [Runs -> Run]
           /\ \A q \in Runs \ {r} : run'[q] = run[q]
           /\ run'[r].pc = pc
           /\ run'[r].todo = run[r].todo /\ run'[r].rows = run[r].rows
           /\ run'[r].found = run[r].found /\ run'[r].alertable = run[r].alertable
           /\ run'[r].due = run[r].due /\ run'[r].after = run[r].after
           /\ run'[r].unread = run[r].unread /\ run'[r].blind = run[r].blind
<1> DEFINE row == [run[r] EXCEPT !.pc = pc]
<1>1. run \in [Runs -> Run] /\ run' = [run EXCEPT ![r] = row]
    BY DEF IInv, Types, Moves, Becomes
<1>2. /\ row \in Run /\ row.pc = pc
      /\ row.todo = run[r].todo /\ row.rows = run[r].rows
      /\ row.found = run[r].found /\ row.alertable = run[r].alertable
      /\ row.due = run[r].due /\ row.after = run[r].after
      /\ row.unread = run[r].unread /\ row.blind = run[r].blind
    BY <1>1 DEF Run
<1> HIDE DEF row
<1> QED
    BY <1>1, <1>2

\* The stages of an invocation that is over, or about to be.
LEMMA Stages1 == Closed \subseteq Stored /\ Closed \subseteq PC
BY DEF Closed, Stored, PC

\* A step that gives up, fails, completes or ends.
LEMMA ClosesIInv ==
    ASSUME IInv, NEW r \in Runs, NEW pc \in Closed, Moves(r, pc),
           UNCHANGED <<kind, pinned, source, subs, items, ledger>>,
           status' \in [Runs -> {"none", "running", "completed", "failed"}],
           \A q \in Runs \ {r} : status'[q] \in {status[q], "failed"},
           status'[r] = "completed" => status[r] = "completed" \/ run[r].pc = "complete",
           run[r].pc \in {"done", "killed"} => pc \in {"done", "killed"},
           locked' = locked \/ locked' = locked \ {r},
           run[r].pc = "idle" \/ locked' # locked => pc \in {"done", "killed"}
    PROVE  IInv'
<1>1. /\ run' \in [Runs -> Run]
      /\ \A q \in Runs \ {r} : run'[q] = run[q]
      /\ run'[r].pc = pc
      /\ run'[r].rows = run[r].rows /\ run'[r].found = run[r].found
      /\ run'[r].alertable = run[r].alertable /\ run'[r].after = run[r].after
      /\ run'[r].unread = run[r].unread
    BY Moved, Stages1
<1>2. Holds(r) /\ Wrote(r) /\ Meets(r) /\ LockInv /\ Types
    BY DEF IInv, RunInv
<1>3. pc \notin Early /\ pc \notin {"check", "subs", "items", "alerts", "again", "complete", "alerted"}
    BY DEF Closed, Early
<1>4. Holds(r)'
    BY <1>1, <1>2, <1>3 DEF Holds, Early
<1>5. Wrote(r)'
    BY <1>1, <1>2, <1>3 DEF Wrote, Alerted
<1>6. Ended \subseteq Ended'
    BY <1>1 DEF Ended
<1>7. Meets(r)'
    BY <1>1, <1>2, <1>3, <1>6 DEF Meets
<1>8. run[r].after \subseteq Ended
    BY <1>2 DEF Meets
<1>9. pc \in Stored /\ run[r].pc \in PC
    BY <1>2, Stages1 DEF Types, Run
<1>10. kind = "agency" /\ pinned =>
          /\ \A p, q \in locked' : p = q
          /\ r \notin locked' => pc \in {"idle", "done", "killed"}
    BY <1>2 DEF LockInv, Types, Run
<1>11. locked' \subseteq Runs /\ locked \ {r} \subseteq locked'
    BY <1>2 DEF Types
<1>12. Quiet(r)
    BY <1>1, <1>3, <1>6, <1>8, <1>9, <1>10, <1>11 DEF Quiet
<1> QED
    BY <1>4, <1>5, <1>7, <1>12, QuietIInv

\* The fields an invocation becomes.
LEMMA Became ==
    ASSUME IInv, NEW r \in Runs, NEW row \in Run, Becomes(r, row)
    PROVE  /\ run' \in [Runs -> Run] /\ run'[r] = row
           /\ \A q \in Runs \ {r} : run'[q] = run[q]
BY DEF IInv, Types, Becomes

\* A step on the way that writes nothing at all.
LEMMA GoesOnIInv ==
    ASSUME IInv, NEW r \in Runs, NEW row \in Run, Becomes(r, row),
           UNCHANGED <<kind, pinned, source, subs, items, ledger, locked>>,
           status' = status \/ status' = [status EXCEPT ![r] = "running"],
           run[r].pc \notin {"idle", "done", "killed"}, row.pc \notin {"idle", "done", "killed"},
           run[r].pc \in Stored =>
              row.pc \in Stored /\ row.rows = run[r].rows /\ row.found = run[r].found,
           row.after = run[r].after,
           kind = "agency" /\ pinned =>
              /\ row.pc \in {"check", "subs"} => (row.todo \union row.rows) \intersect Tracked = {}
              /\ row.pc # "items",
           Holds(r)', Wrote(r)', Meets(r)'
    PROVE  IInv'
<1>1. /\ run' \in [Runs -> Run] /\ run'[r] = row
      /\ \A q \in Runs \ {r} : run'[q] = run[q]
    BY Became
<1>2. Meets(r) /\ Types /\ LockInv
    BY DEF IInv, RunInv
<1>3. row.after \subseteq Ended /\ r \notin Ended
    BY <1>2 DEF Meets, Ended
<1>4. /\ status' \in [Runs -> {"none", "running", "completed", "failed"}]
      /\ \A q \in Runs \ {r} : status'[q] = status[q]
    BY <1>2 DEF Types
<1>5. kind = "agency" /\ pinned => (\A p, q \in locked' : p = q) /\ r \in locked'
    BY <1>2 DEF LockInv
<1>6. locked' \subseteq Runs /\ locked \ {r} \subseteq locked'
    BY <1>2 DEF Types
<1>7. Quiet(r)
    BY <1>1, <1>3, <1>4, <1>5, <1>6 DEF Quiet
<1> QED
    BY <1>7, QuietIInv

\* Invocations start.
LEMMA StartIInv == ASSUME IInv, NEW r \in Runs, Start(r) PROVE IInv'
<1>1. PICK dead \in SUBSET {d \in Ended : kind = "agency" /\ status[d] = "running"} :
         status' = [d \in Runs |-> IF d \in dead THEN "failed" ELSE status[d]]
    BY DEF Start
<1>2. /\ run[r].pc = "idle" /\ r \notin dead /\ r \notin Ended
      /\ UNCHANGED <<kind, pinned, source, subs, items, ledger>>
    BY <1>1 DEF Start, At, world, Ended
<1>3. Types /\ Holds(r) /\ Wrote(r) /\ Meets(r) /\ LockInv
    BY DEF IInv, RunInv
<1>4. /\ status' \in [Runs -> {"none", "running", "completed", "failed"}]
      /\ \A q \in Runs : status'[q] \in {status[q], "failed"}
      /\ status'[r] = status[r] /\ status[r] # "completed"
    BY <1>1, <1>2, <1>3 DEF Types, Wrote, Closed
<1>5. CASE kind = "agency" /\ Goes(r, "done") /\ UNCHANGED locked
  <2>1. "done" \in Closed
      BY DEF Closed
  <2> QED
      BY <1>2, <1>4, <1>5, <2>1, ClosesIInv DEF Goes
<1>6. CASE /\ kind = "agency" => Grants
           /\ locked' = IF kind = "agency" THEN locked \union {r} ELSE locked
           /\ Becomes(r, [run[r] EXCEPT !.pc = "create", !.after = Ended])
  <2> DEFINE row == [run[r] EXCEPT !.pc = "create", !.after = Ended]
  <2>1. /\ row \in Run /\ row.pc = "create" /\ row.after = Ended
        /\ row.rows = run[r].rows /\ row.found = run[r].found
        /\ row.alertable = run[r].alertable
    <3>1. run[r] \in Run /\ Ended \in SUBSET Runs /\ "create" \in PC
        BY <1>3 DEF Types, Ended, PC
    <3> QED
        BY <3>1 DEF Run
  <2>2. Becomes(r, row)
      BY <1>6
  <2> HIDE DEF row
  <2>3. /\ run' \in [Runs -> Run] /\ run'[r] = row
        /\ \A q \in Runs \ {r} : run'[q] = run[q]
      BY <2>1, <2>2, Became
  <2>4. row.rows = {} /\ row.found = {} /\ row.alertable = {}
      BY <1>2, <1>3, <2>1 DEF Holds, Early
  <2>5. Holds(r)'
      BY <2>1, <2>3, <2>4 DEF Holds
  <2>6. Wrote(r)'
      BY <1>4, <2>1, <2>3 DEF Wrote
  <2>7. Ended \subseteq Ended'
      BY <1>2, <2>3 DEF Ended
  <2>8. Meets(r)'
      BY <2>1, <2>3, <2>4, <2>7 DEF Meets
  <2>9. locked' \subseteq Runs /\ locked \ {r} \subseteq locked' /\ (kind = "agency" => r \in locked')
      BY <1>3, <1>6 DEF Types
  <2>10. kind = "agency" /\ pinned => \A p, q \in locked' : p = q
      BY <1>6 DEF Grants
  <2>11. run[r].pc \notin Stored
      BY <1>2 DEF Stored, Closed
  <2>12. Quiet(r)
      BY <1>2, <1>4, <2>1, <2>3, <2>9, <2>10, <2>11 DEF Quiet
  <2> QED
      BY <2>5, <2>6, <2>8, <2>12, QuietIInv
<1> QED
    BY <1>5, <1>6 DEF Start

\* A statement fails and nothing is written.
LEMMA ThrowsIInv ==
    ASSUME IInv, NEW r \in Runs, Throws(r), UNCHANGED <<world, locked, tables>>,
           run[r].pc \notin {"idle", "done", "killed"}
    PROVE  IInv'
<1>1. "fail" \in Closed
    BY DEF Closed
<1>2. UNCHANGED <<kind, pinned, source, subs, items, ledger, status, locked>>
    BY DEF world, tables
<1>3. status \in [Runs -> {"none", "running", "completed", "failed"}]
    BY DEF IInv, Types
<1> QED
    BY <1>1, <1>2, <1>3, ClosesIInv DEF Throws

\* Stages between which nothing is written and nothing is learned.
LEMMA MovesOnIInv ==
    ASSUME IInv, NEW r \in Runs, NEW pc \in {"fetch", "complete"}, Moves(r, pc),
           UNCHANGED <<kind, pinned, source, subs, items, ledger, locked>>,
           \/ /\ pc = "fetch" /\ run[r].pc = "create"
              /\ status' = [status EXCEPT ![r] = "running"]
           \/ pc = "complete" /\ run[r].pc \in {"fetch", "again"} /\ status' = status
    PROVE  IInv'
<1> DEFINE row == [run[r] EXCEPT !.pc = pc]
<1>1. /\ run' \in [Runs -> Run]
      /\ run'[r].pc = pc
      /\ run'[r].rows = run[r].rows /\ run'[r].found = run[r].found
      /\ run'[r].alertable = run[r].alertable /\ run'[r].after = run[r].after
      /\ run'[r].unread = run[r].unread
      /\ \A q \in Runs \ {r} : run'[q] = run[q]
    BY Moved DEF PC
<1>2. Holds(r) /\ Wrote(r) /\ Meets(r) /\ Types
    BY DEF IInv, RunInv
<1>3. Holds(r)'
    BY <1>1, <1>2 DEF Holds, Early
<1>4. Wrote(r)'
  <2>1. CASE pc = "fetch"
      BY <1>1, <1>2, <2>1 DEF Wrote, Holds, Early, Types
  <2>2. CASE pc = "complete" /\ run[r].pc = "fetch" /\ status' = status
    <3>1. run[r].rows = {} /\ run[r].found = {} /\ run[r].alertable = {}
        BY <1>2, <2>2 DEF Holds, Early
    <3>2. status[r] # "completed"
        BY <1>2, <2>2 DEF Wrote, Closed
    <3> QED
        BY <1>1, <2>2, <3>1, <3>2 DEF Wrote
  <2>3. CASE pc = "complete" /\ run[r].pc = "again" /\ status' = status
      BY <1>1, <1>2, <2>3 DEF Wrote, Alerted, Closed
  <2> QED
      BY <2>1, <2>2, <2>3
<1>5. Ended \subseteq Ended'
    BY <1>1 DEF Ended
<1>6. Meets(r)'
    BY <1>1, <1>2, <1>5 DEF Meets
<1>7. row \in Run /\ row.pc = pc /\ row.rows = run[r].rows /\ row.found = run[r].found
      /\ row.after = run[r].after
  <2>1. run[r] \in Run /\ pc \in PC
      BY <1>2 DEF Types, PC
  <2> QED
      BY <2>1 DEF Run
<1>8. Becomes(r, row)
    BY DEF Moves
<1>9. run[r].pc \in Stored => pc \in Stored
    BY DEF Stored, Closed
<1> HIDE DEF row
<1> QED
    BY <1>3, <1>4, <1>6, <1>7, <1>8, <1>9, GoesOnIInv

\* The run row is created, or not.
LEMMA CreateRunIInv == ASSUME IInv, NEW r \in Runs, CreateRun(r) PROVE IInv'
<1>1. PICK failed, written \in BOOLEAN :
         /\ failed \/ written
         /\ status' = IF written THEN [status EXCEPT ![r] = "running"] ELSE status
         /\ Moves(r, IF failed THEN Closing ELSE "fetch")
    BY DEF CreateRun
<1>2. run[r].pc = "create" /\ UNCHANGED <<kind, pinned, source, subs, items, ledger, locked>>
    BY DEF CreateRun, At, world
<1>3. Types
    BY DEF IInv
<1>4. CASE failed
  <2>1. Closing \in Closed
      BY DEF Closing, Closed
  <2>2. status' \in [Runs -> {"none", "running", "completed", "failed"}]
        /\ (\A q \in Runs \ {r} : status'[q] = status[q])
        /\ (status'[r] = "completed" => status[r] = "completed")
      BY <1>1, <1>3 DEF Types
  <2> QED
      BY <1>1, <1>2, <1>4, <2>1, <2>2, ClosesIInv
<1>5. CASE ~failed
    BY <1>1, <1>2, <1>5, MovesOnIInv
<1> QED
    BY <1>4, <1>5

\* Applications, or referrals, are fetched.
LEMMA FetchIInv ==
    ASSUME IInv, NEW r \in Runs, FetchApplications(r) \/ FetchReferrals(r)
    PROVE  IInv'
<1>1. run[r].pc = "fetch" /\ UNCHANGED <<world, locked, tables>>
    BY DEF FetchApplications, FetchReferrals, At
<1>2. UNCHANGED <<kind, pinned, source, subs, items, ledger, locked, status>>
    BY <1>1 DEF world, tables
<1>3. /\ Types /\ Holds(r) /\ Wrote(r) /\ Meets(r)
      /\ run[r].rows = {} /\ run[r].found = {} /\ run[r].alertable = {}
      /\ status[r] # "completed"
    BY <1>1 DEF IInv, RunInv, Holds, Wrote, Early, Closed
<1>4. CASE Throws(r)
    BY <1>1, <1>4, ThrowsIInv
<1>5. CASE Moves(r, "complete")
    BY <1>1, <1>2, <1>5, MovesOnIInv
<1>6. ASSUME NEW row \in Run, Becomes(r, row), row.pc \in {"tracked", "alerted"},
             row.pc = "tracked" => kind = "agency" /\ row.found = {} /\ row.alertable = {},
             row.pc = "alerted" => kind = "referral" /\ row.alertable \subseteq row.found,
             row.rows = {}, row.after = run[r].after
      PROVE  IInv'
  <2>1. /\ run' \in [Runs -> Run] /\ run'[r] = row
        /\ \A q \in Runs \ {r} : run'[q] = run[q]
      BY <1>6, Became
  <2>2. Holds(r)'
      BY <1>2, <1>6, <2>1 DEF Holds, Early
  <2>3. Wrote(r)'
      BY <1>2, <1>3, <1>6, <2>1 DEF Wrote
  <2>4. Ended \subseteq Ended'
      BY <1>1, <2>1 DEF Ended
  <2>5. Meets(r)'
      BY <1>2, <1>3, <1>6, <2>1, <2>4 DEF Meets
  <2>6. run[r].pc \notin Stored
      BY <1>1 DEF Stored, Closed
  <2> QED
      BY <1>1, <1>2, <1>6, <2>2, <2>3, <2>5, <2>6, GoesOnIInv
<1>7. ASSUME NEW seen \in Window, kind = "agency",
             Becomes(r, [run[r] EXCEPT !.pc = "tracked", !.todo = seen])
      PROVE  IInv'
  <2> DEFINE row == [run[r] EXCEPT !.pc = "tracked", !.todo = seen]
  <2>1. seen \in SUBSET Apps /\ run[r] \in Run /\ "tracked" \in PC
      BY <1>3 DEF Window, Types, PC
  <2>2. /\ row \in Run /\ row.pc = "tracked" /\ row.found = run[r].found
        /\ row.alertable = run[r].alertable /\ row.rows = run[r].rows
        /\ row.after = run[r].after
      BY <2>1 DEF Run
  <2>3. Becomes(r, row)
      BY <1>7
  <2> HIDE DEF row
  <2> QED
      BY <1>3, <1>6, <1>7, <2>2, <2>3
<1>8. ASSUME NEW seen \in Window, kind = "referral",
             Becomes(r, [run[r] EXCEPT !.pc = "alerted", !.found = seen,
                            !.alertable = {a \in seen : greenhouse[a] = "review"}])
      PROVE  IInv'
  <2> DEFINE alertable == {a \in seen : greenhouse[a] = "review"}
             row == [run[r] EXCEPT !.pc = "alerted", !.found = seen, !.alertable = alertable]
  <2>1. seen \in SUBSET Apps /\ alertable \subseteq seen /\ run[r] \in Run /\ "alerted" \in PC
      BY <1>3 DEF Window, Types, PC
  <2> HIDE DEF alertable
  <2>2. /\ row \in Run /\ row.pc = "alerted" /\ row.found = seen
        /\ row.alertable = alertable /\ row.rows = run[r].rows
        /\ row.after = run[r].after
      BY <2>1 DEF Run
  <2>3. Becomes(r, row)
      BY <1>8 DEF alertable
  <2> HIDE DEF row
  <2> QED
      BY <1>3, <1>6, <1>8, <2>1, <2>2, <2>3
<1>9. CASE FetchApplications(r)
    BY <1>4, <1>5, <1>7, <1>9 DEF FetchApplications
<1>10. CASE FetchReferrals(r)
    BY <1>4, <1>5, <1>8, <1>10 DEF FetchReferrals
<1> QED
    BY <1>9, <1>10

\* The applications that are tracked are left out.
LEMMA ReadTrackedIInv == ASSUME IInv, NEW r \in Runs, ReadTracked(r) PROVE IInv'
<1>1. run[r].pc = "tracked" /\ UNCHANGED <<world, locked, tables>>
    BY DEF ReadTracked, At
<1>2. UNCHANGED <<kind, pinned, source, subs, items, ledger, locked, status>>
    BY <1>1 DEF world, tables
<1>3. /\ Types /\ Holds(r) /\ Wrote(r) /\ Meets(r) /\ kind = "agency"
      /\ run[r].rows = {} /\ status[r] # "completed"
    BY <1>1 DEF IInv, RunInv, Holds, Wrote, Early, Closed
<1>4. CASE Throws(r)
    BY <1>1, <1>4, ThrowsIInv
<1>5. CASE Becomes(r, [run[r] EXCEPT !.pc = "check", !.todo = run[r].todo \ Tracked])
  <2> DEFINE row == [run[r] EXCEPT !.pc = "check", !.todo = run[r].todo \ Tracked]
  <2>1. run[r] \in Run /\ "check" \in PC
      BY <1>3 DEF Types, PC
  <2>2. /\ row \in Run /\ row.pc = "check" /\ row.todo = run[r].todo \ Tracked
        /\ row.rows = {} /\ row.found = run[r].found /\ row.after = run[r].after
      BY <1>3, <2>1 DEF Run
  <2>3. Becomes(r, row)
      BY <1>5
  <2> HIDE DEF row
  <2>4. /\ run' \in [Runs -> Run] /\ run'[r] = row
        /\ \A q \in Runs \ {r} : run'[q] = run[q]
      BY <2>2, <2>3, Became
  <2>5. Holds(r)'
      BY <1>2, <1>3, <2>2, <2>4 DEF Holds, Early
  <2>6. Wrote(r)'
      BY <1>2, <1>3, <2>2, <2>4 DEF Wrote
  <2>7. Ended \subseteq Ended'
      BY <1>1, <2>4 DEF Ended
  <2>8. Meets(r)'
      BY <1>2, <1>3, <2>2, <2>4, <2>7 DEF Meets
  <2>9. run[r].pc \notin Stored
      BY <1>1 DEF Stored, Closed
  <2> QED
      BY <1>1, <1>2, <2>2, <2>3, <2>5, <2>6, <2>8, <2>9, GoesOnIInv
<1> QED
    BY <1>4, <1>5 DEF ReadTracked

\* An application is checked.
LEMMA CheckIInv ==
    ASSUME IInv, NEW r \in Runs, NEW c \in Apps, Check(r, c)
    PROVE  IInv'
<1>1. run[r].pc = "check" /\ c \in run[r].todo /\ UNCHANGED <<world, locked, tables>>
    BY DEF Check, At
<1>2. UNCHANGED <<kind, pinned, source, subs, items, ledger, locked, status>>
    BY <1>1 DEF world, tables
<1>3. /\ Types /\ Holds(r) /\ Wrote(r) /\ Meets(r) /\ kind = "agency" /\ LockInv
      /\ status[r] # "completed" /\ run[r] \in Run
    BY <1>1 DEF IInv, RunInv, Holds, Wrote, Closed, Types
<1>4. ASSUME NEW row \in Run, Becomes(r, row), row.pc = "check", row.after = run[r].after,
             row.todo \subseteq run[r].todo,
             row.rows = run[r].rows \/ row.rows = run[r].rows \union {c},
             run[r].found \subseteq row.found, run[r].unread \subseteq row.unread,
             row.rows = run[r].rows \/ c \in row.found \/ c \in row.unread
                \/ OfAnotherAgency(c) = {}
      PROVE  IInv'
  <2>1. /\ run' \in [Runs -> Run] /\ run'[r] = row
        /\ \A q \in Runs \ {r} : run'[q] = run[q]
      BY <1>4, Became
  <2>2. Holds(r)'
      BY <1>2, <1>3, <1>4, <2>1 DEF Holds, Early
  <2>3. Wrote(r)'
      BY <1>2, <1>3, <1>4, <2>1 DEF Wrote
  <2>4. Ended \subseteq Ended'
      BY <1>1, <2>1 DEF Ended
  <2>5. ASSUME NEW a \in Apps, NEW b \in Apps,
               b \in row.rows, b \notin row.found, b \notin row.unread,
               source[a] # source[b], NoAgency \notin {source[a], source[b]}
        PROVE  subs[a].by \intersect row.after = {}
    <3>1. CASE b \in run[r].rows
        BY <1>3, <1>4, <2>5, <3>1 DEF Meets
    <3>2. CASE b \notin run[r].rows
      <4>1. b = c /\ OfAnotherAgency(c) = {}
          BY <1>4, <2>5, <3>2
      <4>2. a \notin Tracked
          BY <2>5, <4>1 DEF OfAnotherAgency
      <4> QED
          BY <4>2 DEF Tracked
    <3> QED
        BY <3>1, <3>2
  <2>6. Meets(r)'
    <3>1. row.after \subseteq Ended'
        BY <1>3, <1>4, <2>4 DEF Meets
    <3> QED
        BY <1>2, <1>4, <2>1, <2>5, <3>1 DEF Meets
  <2>7. kind = "agency" /\ pinned => (row.todo \union row.rows) \intersect Tracked = {}
      BY <1>1, <1>3, <1>4 DEF LockInv
  <2>8. run[r].pc \notin Stored
      BY <1>1 DEF Stored, Closed
  <2> QED
      BY <1>1, <1>2, <1>4, <2>2, <2>3, <2>6, <2>7, <2>8, GoesOnIInv
<1>5. ASSUME NEW answered \in BOOLEAN,
             Becomes(r, [run[r] EXCEPT
                !.todo = run[r].todo \ {c},
                !.rows = IF source[c] = NoAgency /\ ~writeback THEN run[r].rows
                         ELSE run[r].rows \union {c},
                !.found = IF c \in history \/ (answered /\ OfAnotherAgency(c) # {})
                          THEN run[r].found \union {c} ELSE run[r].found,
                !.unread = IF answered THEN run[r].unread ELSE run[r].unread \union {c}])
      PROVE  IInv'
  <2> DEFINE todo == run[r].todo \ {c}
             rows == IF source[c] = NoAgency /\ ~writeback THEN run[r].rows
                     ELSE run[r].rows \union {c}
             found == IF c \in history \/ (answered /\ OfAnotherAgency(c) # {})
                      THEN run[r].found \union {c} ELSE run[r].found
             unread == IF answered THEN run[r].unread ELSE run[r].unread \union {c}
             row == [run[r] EXCEPT !.todo = todo, !.rows = rows, !.found = found, !.unread = unread]
  <2>1. Becomes(r, row)
      BY <1>5
  <2>2. todo \in SUBSET Apps /\ rows \in SUBSET Apps /\ found \in SUBSET Apps
        /\ unread \in SUBSET Apps
      BY <1>3 DEF Run
  <2>3. /\ todo \subseteq run[r].todo
        /\ rows = run[r].rows \/ rows = run[r].rows \union {c}
        /\ run[r].found \subseteq found /\ run[r].unread \subseteq unread
        /\ c \in found \/ c \in unread \/ OfAnotherAgency(c) = {}
      OBVIOUS
  <2> HIDE DEF todo, rows, found, unread
  <2>4. /\ row \in Run /\ row.pc = run[r].pc /\ row.after = run[r].after
        /\ row.todo = todo /\ row.rows = rows /\ row.found = found /\ row.unread = unread
      BY <1>3, <2>2 DEF Run
  <2> HIDE DEF row
  <2> QED
      BY <1>1, <1>4, <2>1, <2>3, <2>4
<1>6. CASE Becomes(r, [run[r] EXCEPT !.todo = run[r].todo \ {c}])
  <2> DEFINE row == [run[r] EXCEPT !.todo = run[r].todo \ {c}]
  <2>1. /\ row \in Run /\ row.pc = run[r].pc /\ row.after = run[r].after
        /\ row.todo = run[r].todo \ {c} /\ row.rows = run[r].rows
        /\ row.found = run[r].found /\ row.unread = run[r].unread
      BY <1>3 DEF Run
  <2>2. Becomes(r, row)
      BY <1>6
  <2> HIDE DEF row
  <2> QED
      BY <1>1, <1>4, <2>1, <2>2
<1> QED
    BY <1>5, <1>6 DEF Check

\* The ledger is read, or counts as empty.
LEMMA ReadLedgerIInv == ASSUME IInv, NEW r \in Runs, ReadLedger(r) PROVE IInv'
<1>1. /\ (run[r].pc = "check" /\ run[r].todo = {}) \/ run[r].pc = "alerted"
      /\ UNCHANGED <<kind, pinned, source, subs, items, ledger, locked, status>>
    BY DEF ReadLedger, At, world, tables
<1>2. /\ Types /\ Holds(r) /\ Wrote(r) /\ Meets(r) /\ LockInv
      /\ status[r] # "completed" /\ run[r] \in Run
    BY <1>1 DEF IInv, RunInv, Wrote, Closed, Types
<1> DEFINE found == IF kind = "agency" THEN ConflictsToPersist(r) ELSE run[r].found
           alertable == IF kind = "agency" THEN found ELSE run[r].alertable
           pc == IF kind = "agency" THEN "subs" ELSE "items"
<1>3. PICK blind \in BOOLEAN :
         Becomes(r, [run[r] EXCEPT
            !.pc = pc, !.found = found, !.alertable = alertable, !.blind = blind,
            !.due = IF blind THEN alertable ELSE alertable \ Alerted])
    BY DEF ReadLedger
<1> DEFINE due == IF blind THEN alertable ELSE alertable \ Alerted
           row == [run[r] EXCEPT !.pc = pc, !.found = found, !.alertable = alertable,
                                 !.blind = blind, !.due = due]
<1>4. Becomes(r, row)
    BY <1>3
<1>5. /\ alertable \subseteq found /\ due \subseteq alertable /\ alertable \ due \subseteq Alerted
      /\ found \subseteq run[r].found
      /\ kind = "agency" => found \subseteq run[r].rows
      /\ \A b \in run[r].rows : b \notin found => b \notin run[r].found
      /\ ~blind => due \intersect Alerted = {}
      /\ pc = "subs" => kind = "agency"
      /\ pc \in {"subs", "items"} /\ pc \in PC
      /\ kind = "agency" => pc = "subs" /\ run[r].pc = "check"
      /\ kind = "referral" => run[r].rows = {}
  <2>1. kind \in {"agency", "referral"} /\ (run[r].pc = "alerted" => kind = "referral")
        /\ (run[r].pc = "check" => kind = "agency")
      BY <1>2 DEF Types, Holds
  <2>2. alertable \subseteq found
      BY <1>1, <1>2, <2>1 DEF Holds
  <2>3. found \subseteq run[r].found /\ (kind = "agency" => found \subseteq run[r].rows)
        /\ (\A b \in run[r].rows : b \notin found => b \notin run[r].found)
      BY DEF ConflictsToPersist
  <2>4. kind = "referral" => run[r].rows = {}
      BY <1>2 DEF Holds
  <2> QED
      BY <1>1, <2>1, <2>2, <2>3, <2>4 DEF PC
<1> HIDE DEF found, alertable, due, pc
<1>6. /\ row \in Run /\ row.pc = pc /\ row.found = found /\ row.alertable = alertable
      /\ row.due = due /\ row.blind = blind /\ row.rows = run[r].rows
      /\ row.after = run[r].after /\ row.todo = run[r].todo /\ row.unread = run[r].unread
  <2>1. found \in SUBSET Apps /\ alertable \in SUBSET Apps /\ due \in SUBSET Apps
      BY <1>2, <1>5 DEF Run
  <2> QED
      BY <1>2, <1>5, <2>1 DEF Run
<1> HIDE DEF row
<1>7. /\ run' \in [Runs -> Run] /\ run'[r] = row
      /\ \A q \in Runs \ {r} : run'[q] = run[q]
    BY <1>4, <1>6, Became
<1>8. Ended \subseteq Ended' /\ Alerted' = Alerted
    BY <1>1, <1>7 DEF Ended, Alerted
<1>9. Holds(r)'
    BY <1>1, <1>2, <1>5, <1>6, <1>7, <1>8 DEF Holds, Early
<1>10. Wrote(r)'
    BY <1>1, <1>2, <1>5, <1>6, <1>7, <1>8 DEF Wrote, Types
<1>11. Meets(r)'
  <2>1. row.after \subseteq Ended'
      BY <1>2, <1>6, <1>8 DEF Meets
  <2>2. ~row.blind => \A a \in row.due : ledger[a] = NoRun
      BY <1>2, <1>5, <1>6 DEF Alerted, Run
  <2>3. \A a, b \in Apps :
           /\ b \in row.rows /\ b \notin row.found /\ b \notin row.unread
           /\ source[a] # source[b] /\ NoAgency \notin {source[a], source[b]}
           => subs[a].by \intersect row.after = {}
      BY <1>2, <1>5, <1>6 DEF Meets
  <2> QED
      BY <1>1, <1>7, <2>1, <2>2, <2>3 DEF Meets
<1>12. kind = "agency" /\ pinned => (row.todo \union row.rows) \intersect Tracked = {}
    BY <1>2, <1>5, <1>6 DEF LockInv
<1>13. run[r].pc \notin Stored /\ run[r].pc \notin {"idle", "done", "killed"}
       /\ row.pc \notin {"idle", "done", "killed"}
    BY <1>1, <1>5, <1>6 DEF Stored, Closed
<1> QED
    BY <1>1, <1>4, <1>5, <1>6, <1>9, <1>10, <1>11, <1>12, <1>13, GoesOnIInv

\* The referrals alerted before are bumped.
LEMMA BumpAlertsIInv == ASSUME IInv, NEW r \in Runs, BumpAlerts(r) PROVE IInv'
<1>1. run[r].pc = "again" /\ UNCHANGED <<world, locked, tables>>
    BY DEF BumpAlerts, At
<1>2. UNCHANGED <<kind, pinned, source, subs, items, ledger, locked, status>>
    BY <1>1 DEF world, tables
<1>3. CASE Throws(r)
    BY <1>1, <1>3, ThrowsIInv
<1>4. CASE Goes(r, "complete")
    BY <1>1, <1>2, <1>4, MovesOnIInv DEF Goes
<1> QED
    BY <1>3, <1>4 DEF BumpAlerts

-----------------------------------------------------------------------------
(* The end of an invocation *)

\* The run is recorded as completed.
LEMMA MarkRunCompletedIInv ==
    ASSUME IInv, NEW r \in Runs, MarkRunCompleted(r)
    PROVE  IInv'
<1>1. /\ run[r].pc = "complete"
      /\ UNCHANGED <<kind, pinned, source, subs, items, ledger, locked>>
      /\ status' = [status EXCEPT ![r] = "completed"] \/ status' = status
    BY DEF MarkRunCompleted, At, world
<1>2. /\ status' \in [Runs -> {"none", "running", "completed", "failed"}]
      /\ \A q \in Runs \ {r} : status'[q] = status[q]
    BY <1>1 DEF IInv, Types
<1>3. Closing \in Closed /\ "fail" \in Closed
    BY DEF Closing, Closed
<1>4. Moves(r, Closing) \/ Moves(r, "fail")
    BY DEF MarkRunCompleted, Goes, Throws
<1> QED
    BY <1>1, <1>2, <1>3, <1>4, ClosesIInv

\* The run is recorded as failed, or stays running.
LEMMA MarkRunFailedIInv ==
    ASSUME IInv, NEW r \in Runs, MarkRunFailed(r)
    PROVE  IInv'
<1>1. /\ run[r].pc = "fail" /\ Moves(r, Closing)
      /\ UNCHANGED <<kind, pinned, source, subs, items, ledger, locked>>
      /\ status' = status \/ status' = [status EXCEPT ![r] = "failed"]
    BY DEF MarkRunFailed, At, world
<1>2. /\ status' \in [Runs -> {"none", "running", "completed", "failed"}]
      /\ \A q \in Runs \ {r} : status'[q] = status[q]
      /\ status'[r] = "completed" => status[r] = "completed"
    BY <1>1 DEF IInv, Types
<1>3. Closing \in Closed
    BY DEF Closing, Closed
<1> QED
    BY <1>1, <1>2, <1>3, ClosesIInv

\* The lock is released, or not.
LEMMA ReleaseIInv == ASSUME IInv, NEW r \in Runs, Release(r) PROVE IInv'
<1>1. /\ run[r].pc = "release" /\ Moves(r, "done")
      /\ UNCHANGED <<kind, pinned, source, subs, items, ledger, status>>
      /\ locked' = locked \/ locked' = locked \ {r}
    BY DEF Release, At, world, tables
<1>2. status' \in [Runs -> {"none", "running", "completed", "failed"}]
    BY <1>1 DEF IInv, Types
<1>3. "done" \in Closed
    BY DEF Closed
<1> QED
    BY <1>1, <1>2, <1>3, ClosesIInv

\* The invocation is killed.
LEMMA KillIInv == ASSUME IInv, NEW r \in Runs, Kill(r) PROVE IInv'
<1>1. /\ run[r].pc \notin {"idle", "done", "killed"} /\ Moves(r, "killed")
      /\ UNCHANGED <<kind, pinned, source, subs, items, ledger, status, locked>>
    BY DEF Kill, world, tables
<1>2. status' \in [Runs -> {"none", "running", "completed", "failed"}]
    BY <1>1 DEF IInv, Types
<1>3. "killed" \in Closed
    BY DEF Closed
<1> QED
    BY <1>1, <1>2, <1>3, ClosesIInv

\* Nothing of the invocations changes.
LEMMA RestsIInv ==
    ASSUME IInv, NEW r \in Runs,
           UNCHANGED <<kind, pinned, source, tables, run>>,
           locked' = locked \/ (locked' = locked \ {r} /\ (pinned => r \in Ended))
    PROVE  IInv'
<1>1. UNCHANGED <<status, subs, items, ledger>>
    BY DEF tables
<1>2. LockInv /\ Types
    BY DEF IInv
<1>3. Types'
    BY <1>1, <1>2 DEF Types
<1>4. RunInv' /\ TableInv'
    BY <1>1 DEF IInv, RunInv, TableInv, Holds, Wrote, Meets, Alerted, Ended, Overlap, Tracked
<1>5. LockInv'
    BY <1>1, <1>2 DEF LockInv, Tracked, Ended
<1> QED
    BY <1>3, <1>4, <1>5 DEF IInv

-----------------------------------------------------------------------------
(* Steps that write rows *)

\* The stages over which nobody else works, when the lock is pinned.
LEMMA Alone ==
    ASSUME IInv, kind = "agency", pinned, NEW r \in Runs,
           run[r].pc \notin {"idle", "done", "killed"}
    PROVE  r \in locked /\ \A q \in Runs \ {r} : run[q].pc \in {"idle", "done", "killed"}
BY DEF IInv, LockInv, Types

\* Submissions are stored.
LEMMA StoreSubmissionsIInv ==
    ASSUME IInv, NEW r \in Runs, StoreSubmissions(r)
    PROVE  IInv'
<1>1. /\ run[r].pc = "subs" /\ kind = "agency"
      /\ UNCHANGED <<world, locked, status, items, ledger>>
      /\ UNCHANGED <<kind, pinned, source>>
    BY DEF StoreSubmissions, At, IInv, RunInv, Holds, world
<1>2. /\ Types /\ Holds(r) /\ Wrote(r) /\ Meets(r) /\ LockInv /\ TableInv
      /\ status[r] # "completed" /\ r \notin Ended /\ run[r] \in Run
    BY <1>1 DEF IInv, RunInv, Wrote, Closed, Types, Ended
<1>3. CASE Throws(r) /\ UNCHANGED subs
    BY <1>1, <1>3, ThrowsIInv DEF tables
<1>4. ASSUME NEW pc \in {"items", "fail"}, Moves(r, pc),
             subs' = [a \in Apps |->
                IF a \notin run[r].rows THEN subs[a]
                ELSE [by |-> subs[a].by \union {r}, conflict |-> a \in run[r].found]]
      PROVE  IInv'
  <2>1. /\ run' \in [Runs -> Run]
        /\ \A q \in Runs \ {r} : run'[q] = run[q]
        /\ run'[r].pc = pc
        /\ run'[r].todo = run[r].todo /\ run'[r].rows = run[r].rows
        /\ run'[r].found = run[r].found /\ run'[r].alertable = run[r].alertable
        /\ run'[r].due = run[r].due /\ run'[r].after = run[r].after
        /\ run'[r].unread = run[r].unread /\ run'[r].blind = run[r].blind
      BY <1>4, Moved DEF PC
  <2>2. \A a \in Apps : /\ a \notin run[r].rows => subs'[a] = subs[a]
                        /\ a \in run[r].rows => /\ subs'[a].by = subs[a].by \union {r}
                                                /\ subs'[a].conflict = (a \in run[r].found)
      BY <1>4
  <2>3. subs' \in [Apps -> Submission]
    <3>1. ASSUME NEW a \in Apps
          PROVE  [by |-> subs[a].by \union {r}, conflict |-> a \in run[r].found] \in Submission
        BY <1>2 DEF Types, Submission
    <3> QED
        BY <1>2, <1>4, <3>1 DEF Types
  <2>4. Types'
      BY <1>1, <1>2, <2>1, <2>3 DEF Types
  <2>5. run[r].after \subseteq Ended /\ Ended' = Ended /\ Alerted' = Alerted /\ Tracked \subseteq Tracked'
    <3>1. Ended' = Ended
        BY <1>2, <1>4, <2>1 DEF Ended
    <3>2. Tracked \subseteq Tracked'
        BY <2>2 DEF Tracked
    <3> QED
        BY <1>1, <1>2, <3>1, <3>2 DEF Meets, Alerted
  <2>6. Steady(r)
      BY <1>1, <1>2, <2>1, <2>2, <2>4, <2>5 DEF Steady
  <2>7. Holds(r)'
      BY <1>1, <1>2, <1>4, <2>1, <2>5 DEF Holds, Early
  <2>8. Wrote(r)'
      BY <1>1, <1>2, <1>4, <2>1, <2>2 DEF Wrote, Run
  <2>9. Meets(r)'
    <3>1. \A a \in Apps : subs'[a].by \intersect run[r].after = subs[a].by \intersect run[r].after
        BY <1>2, <2>2, <2>5
    <3>2. \A q \in Runs : Overlap(q, r)' = Overlap(q, r)
        BY <2>1 DEF Overlap
    <3>3. run[r].due \subseteq Apps /\ \A a \in Apps : ledger[a] \in Runs \union {NoRun}
        BY <1>2 DEF Run, Types
    <3>4. \A a \in run[r].due : Overlap(ledger[a], r)' = Overlap(ledger[a], r) \/ ledger[a] = NoRun
        BY <1>1, <2>1, <3>3 DEF Overlap
    <3> QED
        BY <1>1, <1>2, <1>4, <2>1, <2>5, <3>1, <3>4 DEF Meets
  <2>10. TableInv'
    <3>1. ASSUME NEW a \in Apps, NEW q \in Runs, q \in subs'[a].by
          PROVE  a \in run'[q].rows /\ run'[q].pc \in Stored
      <4>1. CASE q = r
        <5>1. r \notin subs[a].by
            BY <1>1, <1>2 DEF TableInv, Stored, Closed
        <5> QED
            BY <1>4, <2>1, <2>2, <3>1, <4>1, <5>1 DEF Stored, Closed
      <4>2. CASE q # r
          BY <1>2, <2>1, <2>2, <3>1, <4>2 DEF TableInv
      <4> QED
          BY <4>1, <4>2
    <3>2. ASSUME NEW a \in Tracked', ~subs'[a].conflict
          PROVE  \E q \in subs'[a].by : a \notin run'[q].found
      <4>1. a \in Apps
          BY <3>2 DEF Tracked
      <4>2. CASE a \in run[r].rows
          BY <2>1, <2>2, <3>2, <4>1, <4>2
      <4>3. CASE a \notin run[r].rows
        <5>1. a \in Tracked /\ ~subs[a].conflict /\ subs[a].by \subseteq Runs
            BY <1>2, <2>2, <3>2, <4>1, <4>3 DEF Tracked, Types, Submission
        <5>2. PICK q \in subs[a].by : a \notin run[q].found
            BY <1>2, <5>1 DEF TableInv
        <5> QED
            BY <2>1, <2>2, <4>1, <4>3, <5>1, <5>2
      <4> QED
          BY <4>2, <4>3
    <3> QED
        BY <1>1, <1>2, <2>5, <3>1, <3>2 DEF TableInv
  <2>11. LockInv'
    <3> SUFFICES ASSUME pinned
                 PROVE  LockInv'
        BY <1>1 DEF LockInv
    <3>1. r \in locked /\ \A q \in Runs \ {r} : run[q].pc \in {"idle", "done", "killed"}
        BY <1>1, Alone
    <3>2. run[r].rows \intersect Tracked = {}
        BY <1>1, <1>2 DEF LockInv
    <3>3. \A a \in run[r].found : items[a] = {}
        BY <1>1, <1>2, <3>2 DEF Holds, TableInv, Run
    <3>4. \A a \in Apps, p, q \in Runs :
             {p, q} \subseteq subs'[a].by \/ {p, q} \subseteq items[a] => p = q
        BY <1>1, <1>2, <2>2, <3>2 DEF LockInv, Tracked
    <3>5. (\A p, q \in locked : p = q)
          /\ \A q \in Runs \ locked : run'[q].pc \in {"idle", "done", "killed"}
        BY <1>1, <1>2, <2>1, <3>1 DEF LockInv
    <3>6. \A q \in Runs : /\ run'[q].pc \notin {"check", "subs"}
                          /\ run'[q].pc = "items" => q = r
        BY <1>4, <2>1, <3>1
    <3> QED
        BY <1>1, <2>1, <3>3, <3>4, <3>5, <3>6 DEF LockInv
  <2> QED
      BY <2>4, <2>6, <2>7, <2>8, <2>9, <2>10, <2>11, Others DEF IInv, RunInv
<1> QED
    BY <1>3, <1>4 DEF StoreSubmissions, Goes, Throws

\* Items are inserted.
LEMMA InsertItemsIInv == ASSUME IInv, NEW r \in Runs, InsertItems(r) PROVE IInv'
<1>1. /\ run[r].pc = "items"
      /\ UNCHANGED <<world, locked, status, subs, ledger>>
      /\ UNCHANGED <<kind, pinned, source>>
    BY DEF InsertItems, At, world
<1>2. /\ Types /\ Holds(r) /\ Wrote(r) /\ Meets(r) /\ LockInv /\ TableInv
      /\ status[r] # "completed" /\ r \notin Ended /\ run[r] \in Run
    BY <1>1 DEF IInv, RunInv, Wrote, Closed, Types, Ended
<1>3. CASE Throws(r) /\ UNCHANGED items
    BY <1>1, <1>3, ThrowsIInv DEF tables
<1>4. ASSUME NEW pc \in {"alerts", "fail"}, Moves(r, pc),
             items' = [a \in Apps |-> IF a \in run[r].found THEN items[a] \union {r} ELSE items[a]]
      PROVE  IInv'
  <2>1. /\ run' \in [Runs -> Run]
        /\ \A q \in Runs \ {r} : run'[q] = run[q]
        /\ run'[r].pc = pc
        /\ run'[r].todo = run[r].todo /\ run'[r].rows = run[r].rows
        /\ run'[r].found = run[r].found /\ run'[r].alertable = run[r].alertable
        /\ run'[r].due = run[r].due /\ run'[r].after = run[r].after
        /\ run'[r].unread = run[r].unread /\ run'[r].blind = run[r].blind
      BY <1>4, Moved DEF PC
  <2>2. \A a \in Apps : /\ a \notin run[r].found => items'[a] = items[a]
                        /\ a \in run[r].found => items'[a] = items[a] \union {r}
      BY <1>4
  <2>3. Types'
    <3>1. items' \in [Apps -> SUBSET Runs]
        BY <1>2, <1>4 DEF Types
    <3> QED
        BY <1>1, <1>2, <2>1, <3>1 DEF Types
  <2>4. run[r].after \subseteq Ended /\ Ended' = Ended /\ Alerted' = Alerted /\ Tracked' = Tracked
    <3>1. Ended' = Ended
        BY <1>2, <1>4, <2>1 DEF Ended
    <3> QED
        BY <1>1, <1>2, <3>1 DEF Meets, Alerted, Tracked
  <2>5. Steady(r)
      BY <1>1, <1>2, <2>1, <2>2, <2>3, <2>4 DEF Steady
  <2>6. Holds(r)'
      BY <1>1, <1>2, <1>4, <2>1, <2>4 DEF Holds, Early
  <2>7. Wrote(r)'
      BY <1>1, <1>2, <1>4, <2>1, <2>2 DEF Wrote, Run
  <2>8. Meets(r)'
    <3>1. run[r].due \subseteq Apps /\ \A a \in Apps : ledger[a] \in Runs \union {NoRun}
        BY <1>2 DEF Run, Types
    <3>2. \A a \in run[r].due : Overlap(ledger[a], r)' = Overlap(ledger[a], r) \/ ledger[a] = NoRun
        BY <1>1, <2>1, <3>1 DEF Overlap
    <3> QED
        BY <1>1, <1>2, <1>4, <2>1, <2>4, <3>2 DEF Meets
  <2>9. \A a \in run[r].found : kind = "agency" => a \in Tracked
      BY <1>1, <1>2 DEF Holds, Wrote, Tracked, Run
  <2>10. TableInv'
    <3>1. \A a \in Apps : ledger[a] # NoRun => items'[a] # {}
        BY <1>2, <2>2 DEF TableInv
    <3>2. kind = "agency" => \A a \in Apps : items'[a] # {} => a \in Tracked
        BY <1>2, <2>2, <2>9 DEF TableInv
    <3>3. \A a \in Apps, q \in Runs :
             q \in subs[a].by => /\ a \in run'[q].rows /\ run'[q].pc \in Stored
                                 /\ run'[q].found = run[q].found
        BY <1>2, <1>4, <2>1 DEF TableInv, Stored, Closed
    <3>4. \A a \in Apps : subs[a].by \subseteq Runs
        BY <1>2 DEF Types, Submission
    <3>5. \A a \in Tracked : ~subs[a].conflict => \E q \in subs[a].by : a \notin run'[q].found
        BY <1>2, <3>3, <3>4 DEF TableInv, Tracked
    <3> QED
        BY <1>1, <2>4, <3>1, <3>2, <3>3, <3>5 DEF TableInv
  <2>11. LockInv'
    <3> SUFFICES ASSUME kind = "agency", pinned
                 PROVE  LockInv'
        BY <1>1 DEF LockInv
    <3>1. r \in locked /\ \A q \in Runs \ {r} : run[q].pc \in {"idle", "done", "killed"}
        BY <1>1, Alone
    <3>2. \A a \in run[r].found : items[a] = {}
        BY <1>1, <1>2 DEF LockInv
    <3>3. \A a \in Apps, p, q \in Runs :
             {p, q} \subseteq subs[a].by \/ {p, q} \subseteq items'[a] => p = q
        BY <1>2, <2>2, <3>2 DEF LockInv
    <3>4. (\A p, q \in locked : p = q)
          /\ \A q \in Runs \ locked : run'[q].pc \in {"idle", "done", "killed"}
        BY <1>2, <2>1, <3>1 DEF LockInv
    <3>5. \A q \in Runs : run'[q].pc \notin {"check", "subs", "items"}
        BY <1>4, <2>1, <3>1
    <3> QED
        BY <1>1, <3>3, <3>4, <3>5 DEF LockInv
  <2> QED
      BY <2>3, <2>5, <2>6, <2>7, <2>8, <2>10, <2>11, Others DEF IInv, RunInv
<1> QED
    BY <1>3, <1>4 DEF InsertItems, Goes, Throws

\* Alerts are upserted.
LEMMA UpsertAlertsIInv == ASSUME IInv, NEW r \in Runs, UpsertAlerts(r) PROVE IInv'
<1>1. /\ run[r].pc = "alerts"
      /\ UNCHANGED <<world, locked, status, subs, items>>
      /\ UNCHANGED <<kind, pinned, source>>
    BY DEF UpsertAlerts, At, world
<1>2. /\ Types /\ Holds(r) /\ Wrote(r) /\ Meets(r) /\ LockInv /\ TableInv
      /\ status[r] # "completed" /\ r \notin Ended /\ run[r] \in Run
    BY <1>1 DEF IInv, RunInv, Wrote, Closed, Types, Ended
<1>3. CASE Throws(r) /\ UNCHANGED ledger
    BY <1>1, <1>3, ThrowsIInv DEF tables
<1>4. ASSUME NEW pc \in {"complete", "again", "fail"}, Moves(r, pc),
             ledger' = [a \in Apps |-> IF a \in run[r].due THEN r ELSE ledger[a]]
      PROVE  IInv'
  <2>1. /\ run' \in [Runs -> Run]
        /\ \A q \in Runs \ {r} : run'[q] = run[q]
        /\ run'[r].pc = pc
        /\ run'[r].todo = run[r].todo /\ run'[r].rows = run[r].rows
        /\ run'[r].found = run[r].found /\ run'[r].alertable = run[r].alertable
        /\ run'[r].due = run[r].due /\ run'[r].after = run[r].after
        /\ run'[r].unread = run[r].unread /\ run'[r].blind = run[r].blind
      BY <1>4, Moved DEF PC
  <2>2. \A a \in Apps : /\ a \notin run[r].due => ledger'[a] = ledger[a]
                        /\ a \in run[r].due => ledger'[a] = r
      BY <1>4
  <2>3. Types'
    <3>1. ledger' \in [Apps -> Runs \union {NoRun}]
        BY <1>2, <1>4 DEF Types
    <3> QED
        BY <1>1, <1>2, <2>1, <3>1 DEF Types
  <2>4. run[r].after \subseteq Ended /\ Ended' = Ended /\ Tracked' = Tracked
    <3>1. Ended' = Ended
        BY <1>2, <1>4, <2>1 DEF Ended
    <3> QED
        BY <1>1, <1>2, <3>1 DEF Meets, Tracked
  <2>5. Steady(r)
      BY <1>1, <1>2, <2>1, <2>2, <2>3, <2>4 DEF Steady
  <2>6. run[r].due \subseteq Alerted' /\ Alerted \subseteq Alerted'
      BY <1>2, <2>2, SweepsAssumption DEF Alerted, Run
  <2>7. Holds(r)'
      BY <1>1, <1>2, <1>4, <2>1 DEF Holds, Early
  <2>8. run[r].alertable \subseteq Alerted'
      BY <1>1, <1>2, <2>6 DEF Holds
  <2>9. Wrote(r)'
      BY <1>1, <1>2, <1>4, <2>1, <2>8 DEF Wrote
  <2>10. Meets(r)'
      BY <1>1, <1>2, <1>4, <2>1, <2>4 DEF Meets
  <2>11. TableInv'
    <3>1. \A a \in Apps : ledger'[a] # NoRun => items[a] # {}
      <4>1. \A a \in run[r].due : r \in items[a]
          BY <1>1, <1>2 DEF Holds, Wrote
      <4> QED
          BY <1>2, <2>2, <4>1 DEF TableInv
    <3>2. \A a \in Apps, q \in Runs :
             q \in subs[a].by => /\ a \in run'[q].rows /\ run'[q].pc \in Stored
                                 /\ run'[q].found = run[q].found
        BY <1>2, <1>4, <2>1 DEF TableInv, Stored, Closed
    <3>3. \A a \in Apps : subs[a].by \subseteq Runs
        BY <1>2 DEF Types, Submission
    <3>4. \A a \in Tracked : ~subs[a].conflict => \E q \in subs[a].by : a \notin run'[q].found
        BY <1>2, <3>2, <3>3 DEF TableInv, Tracked
    <3> QED
        BY <1>1, <1>2, <2>4, <3>1, <3>2, <3>4 DEF TableInv
  <2>12. LockInv'
    <3> SUFFICES ASSUME kind = "agency", pinned
                 PROVE  LockInv'
        BY <1>1 DEF LockInv
    <3>1. r \in locked /\ \A q \in Runs \ {r} : run[q].pc \in {"idle", "done", "killed"}
        BY <1>1, Alone
    <3>2. (\A p, q \in locked : p = q)
          /\ \A q \in Runs \ locked : run'[q].pc \in {"idle", "done", "killed"}
        BY <1>2, <2>1, <3>1 DEF LockInv
    <3>3. \A q \in Runs : run'[q].pc \notin {"check", "subs", "items"}
        BY <1>4, <2>1, <3>1
    <3> QED
        BY <1>1, <1>2, <3>2, <3>3 DEF LockInv
  <2> QED
      BY <2>3, <2>5, <2>7, <2>9, <2>10, <2>11, <2>12, Others DEF IInv, RunInv
<1> QED
    BY <1>3, <1>4 DEF UpsertAlerts, Goes, Throws

-----------------------------------------------------------------------------
(* Theorems *)

LEMMA NextIInv == IInv /\ [Next]_vars => IInv'
<1> SUFFICES ASSUME IInv, [Next]_vars
             PROVE  IInv'
    OBVIOUS
<1>1. ASSUME NEW r \in Runs, Step(r)
      PROVE  IInv'
  <2>1. ASSUME NEW a \in Apps, Check(r, a)
        PROVE  IInv'
      BY <2>1, CheckIInv
  <2>2. ASSUME SessionEnds(r)
        PROVE  IInv'
      BY <2>2, RestsIInv DEF SessionEnds, world
  <2> QED
      BY <1>1, <2>1, <2>2, StartIInv, CreateRunIInv, FetchIInv, ReadTrackedIInv,
         ReadLedgerIInv, StoreSubmissionsIInv, InsertItemsIInv, UpsertAlertsIInv,
         BumpAlertsIInv, MarkRunCompletedIInv, MarkRunFailedIInv, ReleaseIInv, KillIInv
         DEF Step
<1>2. ASSUME UNCHANGED <<kind, pinned, source, locked, tables, run>>
      PROVE  IInv'
    BY <1>2 DEF tables, IInv, Types, RunInv, TableInv, LockInv, Holds, Wrote, Meets,
                Alerted, Ended, Overlap, Tracked
<1>3. ASSUME NEW a \in Apps, Greenhouse(a)
      PROVE  IInv'
    BY <1>2, <1>3 DEF Greenhouse, world
<1>4. CASE UNCHANGED vars
    BY <1>2, <1>4 DEF vars, world
<1> QED
    BY <1>1, <1>3, <1>4 DEF Next

LEMMA InitIInv == Init => IInv
<1> SUFFICES ASSUME Init
             PROVE  IInv
    OBVIOUS
<1>1. Idle \in Run
    BY DEF Idle, Run, PC
<1>2. /\ kind \in {"agency", "referral"}
      /\ source \in [Apps -> Agencies \union {NoAgency}]
    BY DEF Init
<1>3. Types
    BY <1>1, <1>2 DEF Init, Types, Submission
<1>4. RunInv
    BY DEF Init, RunInv, Holds, Wrote, Meets, Idle, Closed
<1>5. TableInv
    BY DEF Init, TableInv, Tracked
<1>6. LockInv
    BY DEF Init, LockInv, Idle
<1> QED
    BY <1>3, <1>4, <1>5, <1>6 DEF IInv

LEMMA Invariance == Spec => []IInv
BY InitIInv, NextIInv, PTL DEF Spec

\* Whatever statement failed, the tables agree: no alert without an item, no item
\* of the agency sweep without its submission, and a run recorded as completed has
\* written everything it found.
THEOREM RecordsAgreeAlways == Spec => []RecordsAgree
<1>1. ASSUME IInv
      PROVE  RecordsAgree
    BY <1>1 DEF IInv, RunInv, Wrote, TableInv, RecordsAgree
<1> QED
    BY <1>1, Invariance, PTL

\* The advisory lock of a session-pinned connection does what it is for: no
\* application is stored or reported by two invocations.
THEOREM StoredOnce == Spec => []StoredOnceWhenPinned
<1>1. ASSUME IInv
      PROVE  StoredOnceWhenPinned
    BY <1>1 DEF IInv, LockInv, StoredOnceWhenPinned
<1> QED
    BY <1>1, Invariance, PTL

\* An address that two agencies submitted goes unmarked in one sweep, in two that
\* overlapped or after a read that failed, and in no other way.
THEOREM CrossAgency == Spec => []CrossAgencyCaught
<1>1. ASSUME IInv,
             NEW a \in Tracked, NEW b \in Tracked,
             source[a] # source[b], NoAgency \notin {source[a], source[b]},
             ~subs[a].conflict, ~subs[b].conflict
      PROVE  \E r \in subs[a].by, q \in subs[b].by :
                r = q \/ Overlap(r, q) \/ a \in run[r].unread \/ b \in run[q].unread
  <2>1. a \in Apps /\ b \in Apps
      BY DEF Tracked
  <2>2. PICK r \in subs[a].by : a \notin run[r].found
      BY <1>1 DEF IInv, TableInv
  <2>3. PICK q \in subs[b].by : b \notin run[q].found
      BY <1>1 DEF IInv, TableInv
  <2>4. r \in Runs /\ q \in Runs
      BY <1>1, <2>1 DEF IInv, Types, Submission
  <2>5. a \in run[r].rows /\ b \in run[q].rows
      BY <1>1, <2>1, <2>2, <2>3, <2>4 DEF IInv, TableInv
  <2>6. a \notin run[r].unread => q \notin run[r].after
      BY <1>1, <2>1, <2>2, <2>3, <2>4, <2>5 DEF IInv, RunInv, Meets
  <2>7. b \notin run[q].unread => r \notin run[q].after
      BY <1>1, <2>1, <2>2, <2>3, <2>4, <2>5 DEF IInv, RunInv, Meets
  <2> QED
      BY <2>2, <2>3, <2>6, <2>7 DEF Overlap
<1>2. IInv => CrossAgencyCaught
    BY <1>1 DEF CrossAgencyCaught
<1> QED
    BY <1>2, Invariance, PTL

\* The time an alert came into existence is rewritten only by an invocation whose
\* ledger read failed or that overlapped with the one that wrote it.
THEOREM Redated == Spec => RedatedOnlyUnderFault
<1> DEFINE Kept == \A a \in Apps :
              ledger[a] # NoRun /\ ledger'[a] # ledger[a] =>
                 run[ledger'[a]].blind \/ Overlap(ledger[a], ledger'[a])
<1>1. ASSUME IInv, NEW r \in Runs, UpsertAlerts(r)
      PROVE  Kept
  <2>1. run[r].pc = "alerts" /\ Meets(r)
      BY <1>1 DEF UpsertAlerts, At, IInv, RunInv
  <2>2. \A a \in Apps : ledger'[a] # ledger[a] => a \in run[r].due /\ ledger'[a] = r
      BY <1>1 DEF UpsertAlerts
  <2> QED
      BY <2>1, <2>2 DEF Meets
<1>2. ASSUME IInv, NEW r \in Runs, Step(r)
      PROVE  UpsertAlerts(r) \/ UNCHANGED ledger
    BY <1>2 DEF Step, Start, CreateRun, FetchApplications, FetchReferrals, ReadTracked, Check,
                ReadLedger, StoreSubmissions, InsertItems, BumpAlerts, MarkRunCompleted,
                MarkRunFailed, Release, Kill, SessionEnds, tables
<1>3. ASSUME NEW a \in Apps, Greenhouse(a)
      PROVE  UNCHANGED ledger
    BY <1>3 DEF Greenhouse, tables
<1>4. IInv /\ [Next]_vars => [Kept]_vars
    BY <1>1, <1>2, <1>3 DEF Next, vars, tables
<1> QED
    BY <1>4, Invariance, PTL DEF Spec, RedatedOnlyUnderFault

=============================================================================
