----------------------------- MODULE RuleRunProofs -----------------------------
(***************************************************************************)
(* For any number of runs, workers, mails, crashes and failures: at most    *)
(* one forward of a mail by a run, never two that are recorded as sent, and *)
(* no mail up to its cutoff that the cursors of a completed run missed.  IInv *)
(* says what a worker under the advisory lock may rely on, CoverInv what the *)
(* cursors that workers write over each other's have left behind them.       *)
(***************************************************************************)
EXTENDS RuleRun, FiniteSetTheorems, TLAPS

WorkerStates == [pc : Points, run : 0..NumRuns, state : RunStates,
                 todo : SUBSET Mails, last : 0..NumMails, mail : 0..NumMails]

RunTable == [Runs -> [state : RunStates, status : {"NONE"} \cup Active \cup Terminal,
                      cutoff : 0..NumMails, grace : BOOLEAN]]

\* What holds of a worker that is not under the lock.
Placed(x) ==
    /\ x.pc # "idle" => x.run \in Runs
    /\ x.todo \subseteq committed
    /\ x.pc \in AtMail => x.mail \in committed
    /\ x.pc = "orphan" => item[x.run][x.mail] # "none"

\* Under the lock nobody else settles the mail, and the worker has sent it as
\* often as its point says.
Holds(w, x) ==
    /\ lock[x.mail] = w
    /\ item[x.run][x.mail] \in Unresolved
    /\ x.mail \notin notified
    /\ mailed[x.run][x.mail] = IF x.pc = "sent" THEN 1 ELSE 0

WorkerOK(w) ==
    /\ Placed(worker[w])
    /\ worker[w].pc \in Locked => Holds(w, worker[w])

\* The strengthening of ForwardIsOnRecord: SENT means notified as well.
RecordOK ==
    \A r \in Runs, m \in Mails :
      /\ mailed[r][m] \in {0, 1}
      /\ item[r][m] \in {"none", "unsent"} => mailed[r][m] = 0
      /\ item[r][m] = "sent" => mailed[r][m] = 1 /\ m \in notified

IInv ==
    /\ RuleRunTypeOK
    /\ \A w \in Workers : WorkerOK(w)
    /\ RecordOK
    /\ OneSentForwardPerMail

---------------------------------------------------------------------------
LEMMA Constants ==
    /\ NumRuns \in Nat /\ NumMails \in Nat /\ Window \in Nat \ {0}
    /\ MaxAttempts \in Nat /\ MaxFaults \in Nat /\ NoWorker \notin Workers
    /\ Runs \subseteq 0..NumRuns /\ Mails \subseteq 0..NumMails
    /\ 0 \in 0..NumRuns /\ 0 \in 0..NumMails
BY RuleRunAssumption DEF RuleRunAssumption, Runs, Mails

\* A process without a tick is in order, whatever run it remembers.
LEMMA IdleOK ==
    ASSUME NEW r \in 0..NumRuns
    PROVE  Idle(r) \in WorkerStates /\ Placed(Idle(r)) /\ Idle(r).pc = "idle"
BY Constants DEF Idle, WorkerStates, Placed, Points, Locked, AtMail, Blank, RunStates

LEMMA TypedWorker ==
    ASSUME RuleRunTypeOK, NEW w \in Workers
    PROVE  worker[w] \in WorkerStates
BY DEF RuleRunTypeOK, WorkerStates

\* A worker that moves outside the lock leaves mails, items and locks alone.
LEMMA MovedWorker ==
    ASSUME IInv, NEW w \in Workers, NEW y \in WorkerStates,
           Placed(y), y.pc \notin Locked,
           worker' = [worker EXCEPT ![w] = y],
           UNCHANGED <<item, created, committed, notified, mailed, lock>>,
           run' \in RunTable, done' \in [Runs -> SUBSET Mails],
           faults' \in 0..MaxFaults
    PROVE  IInv'
<1>1. RuleRunTypeOK'
  BY DEF IInv, RuleRunTypeOK, WorkerStates, RunTable
<1>2. ASSUME NEW v \in Workers PROVE WorkerOK(v)'
  <2>1. CASE v = w
    <3>1. worker'[v] = y
      BY <2>1 DEF IInv, RuleRunTypeOK
    <3>. QED BY <3>1 DEF WorkerOK, Placed
  <2>2. CASE v # w
    <3>1. worker'[v] = worker[v]
      BY <2>2 DEF IInv, RuleRunTypeOK
    <3>. QED BY <3>1 DEF IInv, WorkerOK, Placed, Holds
  <2>. QED BY <2>1, <2>2
<1>3. RecordOK' /\ OneSentForwardPerMail'
  BY DEF IInv, RecordOK, OneSentForwardPerMail
<1>. QED BY <1>1, <1>2, <1>3 DEF IInv

THEOREM RuleRunInit == Init => IInv
<1>. SUFFICES ASSUME Init PROVE IInv
  OBVIOUS
<1>1. RuleRunTypeOK
  BY Constants DEF Init, RuleRunTypeOK, NewRun, Idle, Blank, RunStates, Points, AtMail, Locked,
     ItemStates, Unresolved
<1>2. ASSUME NEW w \in Workers PROVE WorkerOK(w)
  BY IdleOK, Constants DEF Init, WorkerOK, Locked
<1>3. RecordOK /\ OneSentForwardPerMail
  BY DEF Init, RecordOK, OneSentForwardPerMail
<1>. QED BY <1>1, <1>2, <1>3 DEF IInv
---------------------------------------------------------------------------
(* Steps outside the lock                                                  *)

LEMMA WrittenRun ==
    ASSUME run \in RunTable, NEW r \in Runs, NEW s \in RunStates,
           NEW t \in {"NONE"} \cup Active \cup Terminal
    PROVE  /\ [run EXCEPT ![r] = Persisted(r, s)] \in RunTable
           /\ [run EXCEPT ![r] = [Persisted(r, s) EXCEPT !.status = t]] \in RunTable
BY DEF RunTable, Persisted

\* What MovedWorker asks of the tables, once for all steps that leave them.
LEMMA Tables ==
    ASSUME IInv
    PROVE  /\ run \in RunTable /\ faults \in 0..MaxFaults /\ committed \subseteq Mails
           /\ done \in [Runs -> SUBSET Mails]
BY Constants DEF IInv, RuleRunTypeOK, RunTable, Mails

\* A worker is through with a mail.
LEMMA ThroughAdds ==
    ASSUME IInv, NEW r \in Runs, NEW m \in Mails
    PROVE  /\ Through(r, m) \in [Runs -> SUBSET Mails]
           /\ m \in Through(r, m)[r]
           /\ \A q \in Runs : done[q] \subseteq Through(r, m)[q]
BY Tables DEF Through

LEMMA ClaimKeeps ==
    ASSUME IInv, NEW w \in Workers, Claim(w)
    PROVE  IInv'
<1>1. PICK r \in Runs :
        /\ run' = [run EXCEPT ![r] =
             [@ EXCEPT !.status = "RUNNING",
                       !.cutoff = IF run[r].status = "QUEUED" THEN created ELSE run[r].cutoff]]
        /\ worker' = [worker EXCEPT ![w] =
             [Idle(r) EXCEPT !.pc = "step", !.state = run[r].state]]
  BY DEF Claim, Own, Oldest, Running
<1> DEFINE y == [Idle(r) EXCEPT !.pc = "step", !.state = run[r].state]
<1>2. run[r].state \in RunStates /\ created \in 0..NumMails
  BY DEF IInv, RuleRunTypeOK
<1>3. y \in WorkerStates /\ Placed(y) /\ y.pc \notin Locked
  BY <1>2, Constants DEF Idle, WorkerStates, Placed, Points, Locked, AtMail
<1>4. run' \in RunTable
  BY <1>1, <1>2, Tables DEF RunTable, Active
<1> HIDE DEF y
<1>5. worker' = [worker EXCEPT ![w] = y]
  BY <1>1 DEF y
<1>. QED
  BY <1>3, <1>4, <1>5, Tables, MovedWorker DEF Claim

\* _finish and the end of a tick leave the worker idle.
LEMMA FinishKeeps ==
    ASSUME IInv, NEW w \in Workers, worker[w].pc # "idle",
           NEW s \in RunStates, NEW t \in Terminal, Finish(w, s, t),
           UNCHANGED <<item, done, created, committed, notified, mailed, lock, faults>>
    PROVE  IInv'
<1> DEFINE r == worker[w].run
<1>1. r \in Runs
  BY DEF IInv, WorkerOK, Placed
<1>2. run' \in RunTable
  BY <1>1, Tables, WrittenRun DEF Finish
<1>3. 0 \in 0..NumRuns
  BY Constants
<1>4. Idle(0) \in WorkerStates /\ Placed(Idle(0)) /\ Idle(0).pc \notin Locked
  BY <1>3, IdleOK DEF Locked
<1>. QED BY <1>2, <1>4, Tables, MovedWorker DEF Finish

LEMMA PersistKeeps ==
    ASSUME IInv, NEW w \in Workers, worker[w].pc # "idle",
           NEW s \in RunStates, Persist(w, s)
    PROVE  IInv'
<1> DEFINE r == worker[w].run
           y == [Idle(r) EXCEPT !.pc = "step", !.state = s]
<1>1. r \in Runs
  BY DEF IInv, WorkerOK, Placed
<1>2. run' \in RunTable
  BY <1>1, Tables, WrittenRun DEF Persist
<1>3. r \in 0..NumRuns
  BY <1>1, Constants
<1>4. y \in WorkerStates /\ Placed(y) /\ y.pc \notin Locked
  BY <1>1, <1>3, Constants DEF Idle, WorkerStates, Placed, Points, Locked, AtMail
<1>5. Idle(r) \in WorkerStates /\ Placed(Idle(r)) /\ Idle(r).pc \notin Locked
  BY <1>3, IdleOK DEF Locked
<1>6. \/ worker' = [worker EXCEPT ![w] = y]
      \/ worker' = [worker EXCEPT ![w] = Idle(r)]
  BY DEF Persist
<1>7. UNCHANGED <<item, done, created, committed, notified, mailed, lock, faults>>
  BY DEF Persist
<1> HIDE DEF y, r
<1>. QED BY <1>2, <1>4, <1>5, <1>6, <1>7, Tables, MovedWorker DEF RunTable

LEMMA PagingKeeps ==
    ASSUME IInv, NEW w \in Workers,
           \/ FetchPage(w) \/ ScanDone(w) \/ WaitForGrace(w) \/ Complete(w)
           \/ EndPage(w) \/ Cancel(w) \/ Capped(w)
    PROVE  IInv'
<1> DEFINE x == worker[w]
<1>1. x \in WorkerStates /\ Placed(x)
  BY TypedWorker DEF IInv, WorkerOK
<1>2. x.state \in RunStates
  BY <1>1 DEF WorkerStates
<1>3. CASE FetchPage(w)
  <2>1. PICK last \in Page(w) : worker' = [worker EXCEPT ![w] =
              [@ EXCEPT !.pc = "row", !.todo = Page(w), !.last = last]]
    BY <1>3 DEF FetchPage
  <2> DEFINE y == [x EXCEPT !.pc = "row", !.todo = Page(w), !.last = last]
  <2>2. Page(w) \subseteq committed
    BY DEF Page, Rows
  <2>3. x.pc = "step"
    BY <1>3 DEF FetchPage, MayFetch
  <2>4. last \in 0..NumMails
    BY <2>2, Tables, Constants
  <2>5. y \in WorkerStates
    BY <1>1, <2>2, <2>4, Tables DEF WorkerStates, Points, Locked, AtMail
  <2>6. Placed(y) /\ y.pc \notin Locked
    BY <1>1, <2>2, <2>3 DEF WorkerStates, Placed, AtMail, Locked
  <2>7. worker' = [worker EXCEPT ![w] = y]
    BY <2>1
  <2> HIDE DEF y
  <2>. QED BY <1>3, <2>5, <2>6, <2>7, Tables, MovedWorker DEF FetchPage
<1>4. CASE ScanDone(w)
  <2> DEFINE s == [x.state EXCEPT !.phase = "RECONCILE", !.cursor = ReconcileFrom(x.run)]
  <2>1. x.pc # "idle" /\ Persist(w, s)
    BY <1>4 DEF ScanDone, MayFetch
  <2>2. x.run \in Runs
    BY <1>1, <2>1 DEF Placed
  <2>3. run[x.run].cutoff \in 0..NumMails
    BY <2>2, Tables DEF RunTable
  <2>4. ReconcileFrom(x.run) \in 0..NumMails
    BY <2>3, Constants DEF ReconcileFrom
  <2>5. s \in RunStates
    BY <1>2, <2>4 DEF RunStates
  <2> HIDE DEF s
  <2>. QED BY <2>1, <2>5, PersistKeeps
<1>5. CASE WaitForGrace(w)
  <2>1. /\ x.pc # "idle"
        /\ run' = [run EXCEPT ![x.run] = Persisted(x.run, x.state)]
        /\ worker' = [worker EXCEPT ![w] = Idle(x.run)]
        /\ UNCHANGED <<item, done, created, committed, notified, mailed, lock, faults>>
    BY <1>5 DEF WaitForGrace
  <2>. QED BY <1>2, <2>1, PersistKeeps DEF Persist
<1>6. CASE Complete(w)
  <2> DEFINE s == [x.state EXCEPT !.phase = "DONE"]
  <2>1. x.pc # "idle" /\ Finish(w, s, "COMPLETED")
        /\ UNCHANGED <<item, done, created, committed, notified, mailed, lock, faults>>
    BY <1>6 DEF Complete, MayFetch
  <2>2. s \in RunStates
    BY <1>2 DEF RunStates
  <2>3. "COMPLETED" \in Terminal
    BY DEF Terminal
  <2> HIDE DEF s
  <2>. QED BY <2>1, <2>2, <2>3, FinishKeeps
<1>7. CASE EndPage(w)
  <2> DEFINE s == [x.state EXCEPT !.cursor = x.last]
  <2>1. x.pc # "idle" /\ Persist(w, s)
    BY <1>7 DEF EndPage
  <2>2. s \in RunStates
    BY <1>1, <1>2 DEF RunStates, WorkerStates
  <2> HIDE DEF s
  <2>. QED BY <2>1, <2>2, PersistKeeps
<1>8. CASE Cancel(w)
  BY <1>2, <1>8, FinishKeeps DEF Cancel, Terminal
<1>9. CASE Capped(w)
  BY <1>2, <1>9, FinishKeeps DEF Capped, Terminal
<1>. QED BY <1>3, <1>4, <1>5, <1>6, <1>7, <1>8, <1>9

LEMMA RowsKeep ==
    ASSUME IInv, NEW w \in Workers, ProcessRow(w)
    PROVE  IInv'
<1> DEFINE x == worker[w]
<1>1. x \in WorkerStates /\ Placed(x) /\ x.pc = "row"
  BY TypedWorker DEF IInv, WorkerOK, ProcessRow
<1>2. PICK m \in x.todo :
        /\ worker' = [worker EXCEPT ![w] =
             [@ EXCEPT !.pc = AfterRow(item[x.run][m]), !.todo = x.todo \ {m},
                       !.mail = IF AfterRow(item[x.run][m]) = "row" THEN 0 ELSE m]]
        /\ done' = Through(x.run, m) \/ done' = done
  BY DEF ProcessRow
<1> DEFINE next == AfterRow(item[x.run][m])
           y == [x EXCEPT !.pc = next, !.todo = x.todo \ {m},
                          !.mail = IF next = "row" THEN 0 ELSE m]
<1>3. m \in committed /\ m \in Mails /\ done' \in [Runs -> SUBSET Mails]
  BY <1>1, <1>2, Tables, ThroughAdds DEF Placed
<1>4. /\ next \in {"prior", "orphan", "row"}
      /\ next = "orphan" => item[x.run][m] # "none"
  BY DEF AfterRow
<1>5. y.pc = next /\ y.run = x.run /\ y.todo = x.todo \ {m}
      /\ y.mail = IF next = "row" THEN 0 ELSE m
  BY <1>1 DEF WorkerStates
<1>6. y \in WorkerStates
  <2>1. next \in Points
    BY <1>4 DEF Points, Locked, AtMail
  <2>2. (IF next = "row" THEN 0 ELSE m) \in 0..NumMails
    BY <1>3, Constants
  <2> HIDE DEF next
  <2>. QED BY <1>1, <2>1, <2>2 DEF WorkerStates
<1>7. worker' = [worker EXCEPT ![w] = y]
  BY <1>2
<1> HIDE DEF y, next
<1>8. Placed(y) /\ y.pc \notin Locked
  BY <1>1, <1>3, <1>4, <1>5 DEF Placed, AtMail, Locked
<1>. QED BY <1>3, <1>6, <1>7, <1>8, Tables, MovedWorker DEF ProcessRow

---------------------------------------------------------------------------
(* Steps that write an item without the lock                               *)

\* Another worker's mail is not disturbed by a record of "unsent" where there
\* was no item, nor by UNKNOWN where there was one.
LEMMA ItemWritten ==
    ASSUME IInv, NEW w \in Workers, NEW y \in WorkerStates,
           Placed(y), y.pc \notin Locked, y.pc # "orphan",
           NEW r \in Runs, NEW m \in Mails, NEW s \in {"unsent", "unknown"},
           s = "unsent" => item[r][m] = "none",
           s = "unknown" => item[r][m] # "none",
           item' = [item EXCEPT ![r][m] = s],
           worker' = [worker EXCEPT ![w] = y], done' \in [Runs -> SUBSET Mails],
           UNCHANGED <<run, created, committed, notified, mailed, lock, faults>>
    PROVE  IInv'
<1>1. s \in ItemStates
  BY DEF ItemStates, Unresolved
<1>2. \A q \in Runs, k \in Mails :
        item'[q][k] = IF q = r /\ k = m THEN s ELSE item[q][k]
  BY DEF IInv, RuleRunTypeOK
<1>3. RuleRunTypeOK'
  BY <1>1 DEF IInv, RuleRunTypeOK, WorkerStates
<1>4. ASSUME NEW v \in Workers PROVE WorkerOK(v)'
  <2>1. CASE v = w
    <3>1. worker'[v] = y
      BY <2>1 DEF IInv, RuleRunTypeOK
    <3>. QED BY <3>1 DEF WorkerOK, Placed
  <2>2. CASE v # w
    <3> DEFINE x == worker[v]
    <3>1. worker'[v] = x /\ WorkerOK(v)
      BY <2>2 DEF IInv, RuleRunTypeOK
    <3>2. x.pc \in AtMail => x.run \in Runs /\ x.mail \in Mails
      BY <3>1, Tables DEF WorkerOK, Placed, AtMail, Locked
    <3>3. Placed(x)'
      BY <1>2, <3>1, <3>2 DEF WorkerOK, Placed, AtMail
    <3>4. x.pc \in Locked => Holds(v, x)'
      BY <1>2, <3>1, <3>2 DEF WorkerOK, Holds, Unresolved, AtMail
    <3>. QED BY <3>1, <3>3, <3>4 DEF WorkerOK
  <2>. QED BY <2>1, <2>2
<1>5. RecordOK'
  BY <1>2 DEF IInv, RecordOK
<1>6. OneSentForwardPerMail'
  BY <1>2 DEF IInv, OneSentForwardPerMail
<1>. QED BY <1>3, <1>4, <1>5, <1>6 DEF IInv

\* Going on to the next row of the page.
LEMMA NextRowPlaced ==
    ASSUME NEW x \in WorkerStates, Placed(x), x.pc # "idle"
    PROVE  LET y == [x EXCEPT !.pc = "row", !.mail = 0]
           IN  y \in WorkerStates /\ Placed(y) /\ y.pc \notin Locked /\ y.pc # "orphan"
BY Constants DEF WorkerStates, Placed, Points, Locked, AtMail

LEMMA UnlockedItemKeeps ==
    ASSUME IInv, NEW w \in Workers, Orphaned(w) \/ CheckPrior(w) \/ NotSent(w)
    PROVE  IInv'
<1> DEFINE x == worker[w]
           y == [x EXCEPT !.pc = "row", !.mail = 0]
<1>1. x \in WorkerStates /\ Placed(x) /\ x.pc \in {"orphan", "prior", "lock"}
  BY TypedWorker DEF IInv, WorkerOK, Orphaned, CheckPrior, NotSent
<1>2. x.run \in Runs /\ x.mail \in Mails /\ x.mail \in committed
  BY <1>1, Tables DEF Placed, AtMail
<1>3. y \in WorkerStates /\ Placed(y) /\ y.pc \notin Locked /\ y.pc # "orphan"
  BY <1>1, NextRowPlaced
<1>4. NextRow(w) => /\ worker' = [worker EXCEPT ![w] = y]
                    /\ done' \in [Runs -> SUBSET Mails]
  BY <1>2, ThroughAdds DEF NextRow
<1> HIDE DEF y
<1>5. CASE Orphaned(w)
  <2>1. item[x.run][x.mail] # "none"
    BY <1>1, <1>5 DEF Orphaned, Placed
  <2>. QED BY <1>2, <1>3, <1>4, <1>5, <2>1, ItemWritten DEF Orphaned
<1>6. ASSUME NextRow(w), item' = Recorded(x.run, x.mail, "unsent"),
             UNCHANGED <<run, created, committed, notified, mailed, lock, faults>>
      PROVE  IInv'
  <2>1. CASE item[x.run][x.mail] = "none"
    BY <1>2, <1>3, <1>4, <1>6, <2>1, ItemWritten DEF Recorded
  <2>2. CASE item[x.run][x.mail] # "none"
    BY <1>3, <1>4, <1>6, <2>2, Tables, MovedWorker DEF Recorded, RunTable
  <2>. QED BY <2>1, <2>2
<1>7. CASE CheckPrior(w)
  <2> DEFINE z == [x EXCEPT !.pc = "lock"]
  <2>1. CASE NextRow(w) /\ item' = Recorded(x.run, x.mail, "unsent")
    BY <1>6, <1>7, <2>1 DEF CheckPrior
  <2>2. CASE worker' = [worker EXCEPT ![w] = z] /\ UNCHANGED <<item, done>>
    <3>1. z \in WorkerStates /\ Placed(z) /\ z.pc \notin Locked
      BY <1>1, <1>2 DEF WorkerStates, Placed, Points, Locked, AtMail
    <3> HIDE DEF z
    <3>. QED BY <1>7, <2>2, <3>1, Tables, MovedWorker DEF CheckPrior, RunTable
  <2>. QED BY <1>7, <2>1, <2>2 DEF CheckPrior
<1>8. CASE NotSent(w)
  BY <1>6, <1>8 DEF NotSent
<1>. QED BY <1>5, <1>7, <1>8

LEMMA PassOverKeeps ==
    ASSUME IInv, NEW w \in Workers, PassOver(w)
    PROVE  IInv'
<1> DEFINE x == worker[w]
<1>1. x \in WorkerStates /\ Placed(x) /\ x.pc = "row"
  BY TypedWorker DEF IInv, WorkerOK, PassOver
<1>2. PICK m \in x.todo :
        /\ worker' = [worker EXCEPT ![w] = [x EXCEPT !.todo = x.todo \ {m}]]
        /\ item' = item \/ item' = Recorded(x.run, m, "unsent")
        /\ done' = Through(x.run, m)
        /\ UNCHANGED <<run, created, committed, notified, mailed, lock, faults>>
  BY DEF PassOver
<1>3. x.run \in Runs /\ m \in Mails
  BY <1>1, Tables DEF Placed
<1>4. done' \in [Runs -> SUBSET Mails]
  BY <1>2, <1>3, ThroughAdds
<1> DEFINE y == [x EXCEPT !.todo = x.todo \ {m}]
<1>5. y \in WorkerStates /\ Placed(y) /\ y.pc = "row"
  BY <1>1 DEF WorkerStates, Placed, AtMail, Locked
<1>6. worker' = [worker EXCEPT ![w] = y]
  BY <1>2
<1>7. y.pc \notin Locked /\ y.pc # "orphan"
  BY <1>5 DEF Locked
<1> HIDE DEF y
<1>8. CASE item' = [item EXCEPT ![x.run][m] = "unsent"] /\ item[x.run][m] = "none"
  BY <1>2, <1>3, <1>4, <1>5, <1>6, <1>7, <1>8, ItemWritten
<1>9. CASE item' = item
  BY <1>2, <1>4, <1>5, <1>6, <1>7, <1>9, Tables, MovedWorker DEF RunTable
<1>. QED BY <1>2, <1>8, <1>9 DEF Recorded

---------------------------------------------------------------------------
(* Steps under the lock                                                    *)

\* The lock in use: two workers under it are at different mails.
LEMMA LockExcludes ==
    ASSUME IInv, NEW v \in Workers, NEW w \in Workers, v # w,
           worker[v].pc \in Locked, lock[worker[w].mail] = w
    PROVE  worker[v].mail # worker[w].mail
BY DEF IInv, WorkerOK, Holds

\* The tables after a write at one run and mail.
LEMMA WrittenTables ==
    ASSUME IInv, NEW r \in Runs, NEW m \in Mails
    PROVE  /\ \A s \in ItemStates :
                [item EXCEPT ![r][m] = s] \in [Runs -> [Mails -> ItemStates]]
           /\ [mailed EXCEPT ![r][m] = @ + 1] \in [Runs -> [Mails -> Nat]]
<1>1. /\ item \in [Runs -> [Mails -> ItemStates]]
      /\ mailed \in [Runs -> [Mails -> Nat]]
  BY DEF IInv, RuleRunTypeOK
<1>2. item[r] \in [Mails -> ItemStates] /\ mailed[r] \in [Mails -> Nat] /\ mailed[r][m] \in Nat
  BY <1>1
<1>. QED BY <1>1, <1>2

LEMMA MarkSendingKeeps ==
    ASSUME IInv, NEW w \in Workers, MarkSending(w)
    PROVE  IInv'
<1> DEFINE x == worker[w]
<1>1. x \in WorkerStates /\ Placed(x) /\ x.pc = "lock"
  BY TypedWorker DEF IInv, WorkerOK, MarkSending
<1>2. x.run \in Runs /\ x.mail \in Mails /\ x.mail \in committed
  BY <1>1, Tables DEF Placed, AtMail
<1>3. /\ lock[x.mail] = NoWorker /\ x.mail \notin notified /\ item[x.run][x.mail] = "none"
      /\ lock' = [lock EXCEPT ![x.mail] = w]
      /\ item' = [item EXCEPT ![x.run][x.mail] = "sending"]
      /\ worker' = [worker EXCEPT ![w] = [x EXCEPT !.pc = "sending"]]
      /\ UNCHANGED <<run, done, created, committed, notified, mailed, faults>>
  BY DEF MarkSending, LockFree, MayMark
<1>4. \A q \in Runs, k \in Mails :
        item'[q][k] = IF q = x.run /\ k = x.mail THEN "sending" ELSE item[q][k]
  BY <1>3 DEF IInv, RuleRunTypeOK
<1>5. \A k \in Mails : lock'[k] = IF k = x.mail THEN w ELSE lock[k]
  BY <1>3 DEF IInv, RuleRunTypeOK
<1>6. PICK y \in WorkerStates :
        /\ worker' = [worker EXCEPT ![w] = y]
        /\ y.pc = "sending" /\ y.run = x.run /\ y.mail = x.mail /\ y.todo = x.todo
  <2> DEFINE y == [x EXCEPT !.pc = "sending"]
  <2>1. /\ y \in WorkerStates /\ y.pc = "sending"
        /\ y.run = x.run /\ y.mail = x.mail /\ y.todo = x.todo
    BY <1>1 DEF WorkerStates, Points, AtMail, Locked
  <2>. QED BY <1>3, <2>1
<1>7. RuleRunTypeOK'
  <2>1. item' \in [Runs -> [Mails -> ItemStates]]
    BY <1>2, <1>3, WrittenTables DEF ItemStates, Unresolved
  <2>2. lock' \in [Mails -> Workers \cup {NoWorker}]
    BY <1>2, <1>3 DEF IInv, RuleRunTypeOK
  <2>3. worker' \in [Workers -> WorkerStates]
    BY <1>6 DEF IInv, RuleRunTypeOK, WorkerStates
  <2>. QED BY <1>3, <2>1, <2>2, <2>3 DEF IInv, RuleRunTypeOK, WorkerStates
<1>8. ASSUME NEW v \in Workers PROVE WorkerOK(v)'
  <2>1. CASE v = w
    <3>1. worker'[v] = y
      BY <1>6, <2>1 DEF IInv, RuleRunTypeOK
    <3>2. mailed[x.run][x.mail] = 0
      BY <1>2, <1>3 DEF IInv, RecordOK
    <3>3. Placed(y)'
      BY <1>1, <1>2, <1>3, <1>6 DEF Placed, AtMail
    <3>4. Holds(v, y)'
      BY <1>2, <1>3, <1>4, <1>5, <1>6, <2>1, <3>2 DEF Holds, Unresolved
    <3>. QED BY <1>6, <3>1, <3>3, <3>4 DEF WorkerOK
  <2>2. CASE v # w
    <3> DEFINE z == worker[v]
    <3>1. worker'[v] = z /\ WorkerOK(v)
      BY <1>6, <2>2 DEF IInv, RuleRunTypeOK
    <3>2. z.pc \in AtMail => z.run \in Runs /\ z.mail \in Mails
      BY <3>1, Tables DEF WorkerOK, Placed, AtMail, Locked
    <3>3. Placed(z)'
      <4>1. z.pc = "orphan" => item'[z.run][z.mail] # "none"
        BY <1>4, <3>1, <3>2 DEF WorkerOK, Placed, AtMail
      <4>2. committed' = committed
        BY <1>3
      <4>. QED BY <3>1, <4>1, <4>2 DEF WorkerOK, Placed
    <3>4. z.pc \in Locked => z.mail # x.mail
      BY <1>3, <3>1, Constants DEF WorkerOK, Holds
    <3>5. z.pc \in Locked => Holds(v, z)'
      BY <1>3, <1>4, <1>5, <3>1, <3>2, <3>4 DEF WorkerOK, Holds, AtMail
    <3>. QED BY <3>1, <3>3, <3>5 DEF WorkerOK
  <2>. QED BY <2>1, <2>2
<1>9. RecordOK' /\ OneSentForwardPerMail'
  BY <1>3, <1>4 DEF IInv, RecordOK, OneSentForwardPerMail
<1>. QED BY <1>7, <1>8, <1>9 DEF IInv

LEMMA SendKeeps ==
    ASSUME IInv, NEW w \in Workers, Send(w)
    PROVE  IInv'
<1> DEFINE x == worker[w]
<1>1. x \in WorkerStates /\ WorkerOK(w) /\ x.pc = "sending"
  BY TypedWorker DEF IInv, Send
<1>2. x.run \in Runs /\ x.mail \in Mails /\ x.mail \in committed /\ Holds(w, x)
  BY <1>1, Tables DEF WorkerOK, Placed, AtMail, Locked
<1>3. PICK p \in {"sent", "unsent"} :
        /\ worker' = [worker EXCEPT ![w] = [x EXCEPT !.pc = p]]
        /\ p = "sent" => mailed' = [mailed EXCEPT ![x.run][x.mail] = @ + 1]
        /\ p = "unsent" => UNCHANGED mailed
  BY DEF Send
<1>4. UNCHANGED <<run, item, done, created, committed, notified, lock, faults>>
  BY DEF Send
<1>5. PICK y \in WorkerStates :
        /\ worker' = [worker EXCEPT ![w] = y]
        /\ y.pc = p /\ y.run = x.run /\ y.mail = x.mail /\ y.todo = x.todo
  <2> DEFINE y == [x EXCEPT !.pc = p]
  <2>1. y \in WorkerStates /\ y.pc = p /\ y.run = x.run /\ y.mail = x.mail /\ y.todo = x.todo
    BY <1>1 DEF WorkerStates, Points, AtMail, Locked
  <2>. QED BY <1>3, <2>1
<1>6. mailed[x.run][x.mail] = 0
  BY <1>1, <1>2 DEF Holds
<1>7. \A q \in Runs, k \in Mails :
        mailed'[q][k] = IF q = x.run /\ k = x.mail /\ p = "sent" THEN 1 ELSE mailed[q][k]
  BY <1>2, <1>3, <1>6 DEF IInv, RuleRunTypeOK
<1>8. mailed' \in [Runs -> [Mails -> Nat]]
  <2>1. CASE p = "sent"
    BY <1>2, <1>3, <2>1, WrittenTables, SMTT(20)
  <2>2. CASE p = "unsent"
    BY <1>3, <2>2 DEF IInv, RuleRunTypeOK
  <2>. QED BY <2>1, <2>2
<1>9. RuleRunTypeOK'
  BY <1>4, <1>5, <1>8 DEF IInv, RuleRunTypeOK, WorkerStates
<1>10. ASSUME NEW v \in Workers PROVE WorkerOK(v)'
  <2>1. CASE v = w
    <3>1. worker'[v] = y
      BY <1>5, <2>1 DEF IInv, RuleRunTypeOK
    <3>2. Placed(y)'
      BY <1>1, <1>2, <1>4, <1>5 DEF WorkerOK, Placed, AtMail, Locked
    <3>3. Holds(v, y)'
      BY <1>2, <1>4, <1>5, <1>6, <1>7, <2>1 DEF Holds
    <3>. QED BY <3>1, <3>2, <3>3 DEF WorkerOK
  <2>2. CASE v # w
    <3> DEFINE z == worker[v]
    <3>1. worker'[v] = z /\ WorkerOK(v)
      BY <1>5, <2>2 DEF IInv, RuleRunTypeOK
    <3>2. z.pc \in AtMail => z.run \in Runs /\ z.mail \in Mails
      BY <3>1, Tables DEF WorkerOK, Placed, AtMail, Locked
    <3>3. z.pc \in Locked => z.mail # x.mail
      BY <1>2, <2>2, LockExcludes DEF Holds
    <3>4. Placed(z)'
      BY <1>4, <3>1 DEF WorkerOK, Placed
    <3>5. z.pc \in Locked => Holds(v, z)'
      BY <1>4, <1>7, <3>1, <3>2, <3>3 DEF WorkerOK, Holds, AtMail
    <3>. QED BY <3>1, <3>4, <3>5 DEF WorkerOK
  <2>. QED BY <2>1, <2>2
<1>11. RecordOK'
  BY <1>2, <1>4, <1>7 DEF IInv, RecordOK, Holds, Unresolved
<1>12. OneSentForwardPerMail'
  BY <1>4 DEF IInv, OneSentForwardPerMail
<1>. QED BY <1>9, <1>10, <1>11, <1>12 DEF IInv

\* A worker leaves the lock, or dies with it.  What it writes about its mail, if
\* it held the lock: UNKNOWN always does, SENT and "unsent" as far as it sent.
LEMMA Released ==
    ASSUME IInv, NEW w \in Workers, NEW y \in WorkerStates,
           Placed(y), y.pc \notin AtMail,
           NEW s \in ItemStates,
           \/ UNCHANGED <<item, notified>>
           \/ /\ worker[w].pc \in Locked
              /\ item' = [item EXCEPT ![worker[w].run][worker[w].mail] = s]
              /\ \/ s = "unknown" /\ UNCHANGED notified
                 \/ s = "unsent" /\ worker[w].pc = "unsent" /\ UNCHANGED notified
                 \/ s = "sent" /\ worker[w].pc = "sent"
                    /\ notified' = notified \cup {worker[w].mail},
           worker' = [worker EXCEPT ![w] = y],
           lock' = Unlocked(w),
           UNCHANGED <<created, committed, mailed>>,
           run' \in RunTable, faults' \in 0..MaxFaults, done' \in [Runs -> SUBSET Mails]
    PROVE  IInv'
<1> DEFINE x == worker[w]
<1>1. x \in WorkerStates /\ WorkerOK(w)
  BY TypedWorker DEF IInv
<1>2. x.pc \in Locked => /\ x.run \in Runs /\ x.mail \in Mails
                         /\ x.mail \in committed /\ Holds(w, x)
  BY <1>1, Tables DEF WorkerOK, Placed, AtMail, Locked
<1>3. \/ UNCHANGED <<item, notified>>
      \/ /\ x.pc \in Locked
         /\ \A q \in Runs, k \in Mails :
              item'[q][k] = IF q = x.run /\ k = x.mail THEN s ELSE item[q][k]
         /\ \/ s = "unknown" /\ UNCHANGED notified
            \/ s = "unsent" /\ x.pc = "unsent" /\ UNCHANGED notified
            \/ s = "sent" /\ x.pc = "sent" /\ notified' = notified \cup {x.mail}
  BY <1>2 DEF IInv, RuleRunTypeOK
<1>4. \A k \in Mails : lock'[k] = IF lock[k] = w THEN NoWorker ELSE lock[k]
  BY DEF Unlocked
<1>5. RuleRunTypeOK'
  <2>1. item' \in [Runs -> [Mails -> ItemStates]]
    <3>1. CASE UNCHANGED item
      BY <3>1 DEF IInv, RuleRunTypeOK
    <3>2. CASE x.pc \in Locked /\ item' = [item EXCEPT ![x.run][x.mail] = s]
      BY <1>2, <3>2, WrittenTables
    <3>. QED BY <3>1, <3>2
  <2>2. notified' \subseteq committed'
    BY <1>2 DEF IInv, RuleRunTypeOK
  <2>3. lock' \in [Mails -> Workers \cup {NoWorker}]
    BY DEF IInv, RuleRunTypeOK, Unlocked
  <2>4. worker' \in [Workers -> WorkerStates]
    BY DEF IInv, RuleRunTypeOK, WorkerStates
  <2>. QED
    BY <2>1, <2>2, <2>3, <2>4 DEF IInv, RuleRunTypeOK, RunTable, WorkerStates
<1>6. ASSUME NEW v \in Workers PROVE WorkerOK(v)'
  <2>1. CASE v = w
    <3>1. worker'[v] = y
      BY <2>1 DEF IInv, RuleRunTypeOK
    <3>. QED BY <3>1 DEF WorkerOK, Placed, AtMail
  <2>2. CASE v # w
    <3> DEFINE z == worker[v]
    <3>1. worker'[v] = z /\ WorkerOK(v)
      BY <2>2 DEF IInv, RuleRunTypeOK
    <3>2. z.pc \in AtMail => z.run \in Runs /\ z.mail \in Mails
      BY <3>1, Tables DEF WorkerOK, Placed, AtMail, Locked
    <3>3. z.pc \in Locked /\ x.pc \in Locked => z.mail # x.mail
      BY <1>2, <2>2, LockExcludes DEF Holds
    <3>4. Placed(z)'
      <4>1. z.pc = "orphan" => item'[z.run][z.mail] # "none"
        BY <1>2, <1>3, <3>1, <3>2 DEF WorkerOK, Placed, Holds, AtMail
      <4>. QED BY <3>1, <4>1 DEF WorkerOK, Placed
    <3>5. z.pc \in Locked => Holds(v, z)'
      <4> SUFFICES ASSUME z.pc \in Locked PROVE Holds(v, z)'
        OBVIOUS
      <4>1. z.run \in Runs /\ z.mail \in Mails /\ Holds(v, z)
        BY <3>1, <3>2 DEF WorkerOK, AtMail
      <4>2. lock'[z.mail] = v
        BY <1>4, <2>2, <4>1 DEF Holds
      <4>3. item'[z.run][z.mail] \in Unresolved /\ z.mail \notin notified'
        BY <1>3, <3>3, <4>1 DEF Holds
      <4>. QED BY <3>1, <4>1, <4>2, <4>3 DEF Holds
    <3>. QED BY <3>1, <3>4, <3>5 DEF WorkerOK
  <2>. QED BY <2>1, <2>2
<1>7. RecordOK'
  BY <1>2, <1>3 DEF IInv, RecordOK, Holds, Locked
<1>8. OneSentForwardPerMail'
  BY <1>2, <1>3 DEF IInv, RecordOK, OneSentForwardPerMail, Holds
<1>. QED BY <1>5, <1>6, <1>7, <1>8 DEF IInv

LEMMA SettleKeeps ==
    ASSUME IInv, NEW w \in Workers, Settle(w)
    PROVE  IInv'
<1> DEFINE x == worker[w]
<1>1. x \in WorkerStates /\ Placed(x) /\ x.pc \in {"sent", "unsent"} /\ x.state \in RunStates
  BY TypedWorker DEF IInv, WorkerOK, Settle, WorkerStates
<1>2. PICK t \in RunStates :
        worker' = [worker EXCEPT ![w] = [x EXCEPT !.pc = "row", !.mail = 0, !.state = t]]
  <2> DEFINE t == IF x.pc = "sent" THEN [x.state EXCEPT !.sent = @ + 1] ELSE x.state
  <2>1. t \in RunStates
    BY <1>1 DEF RunStates
  <2>2. worker' = [worker EXCEPT ![w] = [x EXCEPT !.pc = "row", !.mail = 0, !.state = t]]
    BY DEF Settle
  <2> HIDE DEF t
  <2>. QED BY <2>1, <2>2
<1>3. PICK y \in WorkerStates :
        worker' = [worker EXCEPT ![w] = y] /\ Placed(y) /\ y.pc \notin AtMail
  <2> DEFINE y == [x EXCEPT !.pc = "row", !.mail = 0, !.state = t]
  <2>1. y \in WorkerStates /\ y.pc = "row" /\ y.run = x.run /\ y.todo = x.todo
    BY <1>1, Constants DEF WorkerStates, Points, Locked, AtMail
  <2>2. Placed(y) /\ y.pc \notin AtMail
    BY <1>1, <2>1 DEF Placed, AtMail, Locked
  <2>. QED BY <1>2, <2>1, <2>2
<1>4. x.pc \in ItemStates /\ x.pc \in Locked
  BY <1>1 DEF ItemStates, Locked
<1>5. done' \in [Runs -> SUBSET Mails]
  <2>1. x.run \in Runs /\ x.mail \in Mails
    BY <1>1, Tables DEF Placed, AtMail, Locked
  <2>. QED BY <2>1, ThroughAdds DEF Settle
<1>. QED
  BY <1>1, <1>3, <1>4, <1>5, Tables, Released DEF Settle

\* The steps that leave the lock without an answer, and the death of a worker.
LEMMA UnsettledKeeps ==
    ASSUME IInv, NEW w \in Workers, Unsettled(w) \/ Escaped(w)
    PROVE  IInv'
<1> DEFINE x == worker[w]
<1>1. /\ x \in WorkerStates /\ Placed(x) /\ x.pc \in AtMail /\ x.pc # "idle"
      /\ Unsettled(w) => x.pc \in Locked
  BY TypedWorker DEF IInv, WorkerOK, Unsettled, Escaped, AtMail, Locked
<1>2. PICK y \in WorkerStates :
        worker' = [worker EXCEPT ![w] = y] /\ Placed(y) /\ y.pc \notin AtMail
  <2> DEFINE y == [x EXCEPT !.pc = "row", !.mail = 0]
  <2>1. y \in WorkerStates /\ y.pc = "row" /\ Placed(y)
    BY <1>1, NextRowPlaced, Constants DEF WorkerStates
  <2>2. worker' = [worker EXCEPT ![w] = y]
    BY DEF Unsettled, Escaped, NextRow
  <2>. QED BY <2>1, <2>2 DEF AtMail, Locked
<1>3. "unknown" \in ItemStates
  BY DEF ItemStates, Unresolved
<1>4. done' \in [Runs -> SUBSET Mails]
  <2>1. x.run \in Runs /\ x.mail \in Mails
    BY <1>1, Tables DEF Placed
  <2>. QED BY <2>1, ThroughAdds DEF Unsettled, Escaped, NextRow
<1>5. CASE Unsettled(w)
  BY <1>1, <1>2, <1>3, <1>4, <1>5, Tables, Released DEF Unsettled
<1>6. CASE Escaped(w)
  <2>1. faults' \in 0..MaxFaults
    BY <1>6, Tables, Constants DEF Escaped
  <2>. QED BY <1>2, <1>3, <1>4, <1>6, <2>1, Tables, Released DEF Escaped
<1>. QED BY <1>5, <1>6

LEMMA InfraFailureKeeps ==
    ASSUME IInv, NEW w \in Workers, InfraFailure(w)
    PROVE  IInv'
<1> DEFINE x == worker[w]
           tried == x.state.attempts + 1
<1>1. x \in WorkerStates /\ Placed(x) /\ x.pc # "idle" /\ x.state \in RunStates
  BY TypedWorker DEF IInv, WorkerOK, InfraFailure, WorkerStates
<1>2. x.run \in Runs /\ x.run \in 0..NumRuns /\ 0 \in 0..NumRuns
  BY <1>1, Constants DEF Placed
<1>3. tried \in Nat
  BY <1>1 DEF RunStates
<1>4. run' \in RunTable
  <2>1. CASE UNCHANGED run
    BY <2>1, Tables DEF RunTable
  <2>2. CASE run' = [run EXCEPT ![x.run] =
               [@ EXCEPT !.state = [run[x.run].state EXCEPT !.attempts = tried]]]
    <3>1. run[x.run].state \in RunStates
      BY <1>2, Tables DEF RunTable
    <3> DEFINE t == [run[x.run].state EXCEPT !.attempts = tried]
    <3>2. t \in RunStates
      BY <1>3, <3>1 DEF RunStates
    <3>3. run' = [run EXCEPT ![x.run] = [@ EXCEPT !.state = t]]
      BY <2>2
    <3> HIDE DEF t
    <3>. QED BY <1>2, <3>2, <3>3, Tables DEF RunTable
  <2>3. CASE run' = [run EXCEPT ![x.run] =
               [Persisted(x.run, [x.state EXCEPT !.attempts = tried]) EXCEPT !.status = "FAILED"]]
    <3> DEFINE t == [x.state EXCEPT !.attempts = tried]
    <3>1. t \in RunStates
      BY <1>1, <1>3 DEF RunStates
    <3>2. run' = [run EXCEPT ![x.run] = [Persisted(x.run, t) EXCEPT !.status = "FAILED"]]
      BY <2>3
    <3> HIDE DEF t
    <3>. QED BY <1>2, <3>1, <3>2, Tables, WrittenRun DEF Terminal
  <2>. QED BY <2>1, <2>2, <2>3 DEF InfraFailure
<1>5. PICK y \in WorkerStates :
        worker' = [worker EXCEPT ![w] = y] /\ Placed(y) /\ y.pc \notin AtMail
  <2>1. \/ worker' = [worker EXCEPT ![w] = Idle(0)]
        \/ worker' = [worker EXCEPT ![w] = Idle(x.run)]
    BY DEF InfraFailure
  <2>. QED BY <1>2, <2>1, IdleOK DEF AtMail, Locked
<1>6. /\ UNCHANGED <<done, created, committed, mailed, notified>>
      /\ lock' = Unlocked(w)
      /\ \/ UNCHANGED item
         \/ /\ x.pc \in Locked
            /\ item' = [item EXCEPT ![x.run][x.mail] = "unknown"]
  BY DEF InfraFailure, Locked
<1>7. faults' \in 0..MaxFaults
  BY Tables, Constants DEF InfraFailure
<1>8. "unknown" \in ItemStates
  BY DEF ItemStates, Unresolved
<1>. QED
  BY <1>4, <1>5, <1>6, <1>7, <1>8, Tables, Released

LEMMA CrashKeeps ==
    ASSUME IInv, NEW w \in Workers, Crash(w)
    PROVE  IInv'
<1>1. Idle(0) \in WorkerStates /\ Placed(Idle(0)) /\ Idle(0).pc \notin AtMail
  BY Constants, IdleOK DEF AtMail, Locked
<1>2. faults' \in 0..MaxFaults /\ run' \in RunTable
  BY Tables, Constants DEF Crash
<1>3. "unknown" \in ItemStates
  BY DEF ItemStates, Unresolved
<1>. QED
  BY <1>1, <1>2, <1>3, Tables, Released DEF Crash

---------------------------------------------------------------------------
(* The rest of the system                                                  *)

\* No worker is at a mail whose transaction is still open.
LEMMA SystemKeeps ==
    ASSUME IInv,
           \/ Arrive
           \/ \E m \in Mails : Commit(m)
           \/ \E r \in Runs : Queue(r) \/ GracePasses(r)
    PROVE  IInv'
<1>1. \A w \in Workers : worker[w] \in WorkerStates /\ WorkerOK(w)
  BY TypedWorker DEF IInv
<1>2. CASE Arrive
  <2>1. RuleRunTypeOK'
    BY <1>2, Constants DEF Arrive, IInv, RuleRunTypeOK
  <2>2. ASSUME NEW v \in Workers PROVE WorkerOK(v)'
    BY <1>1, <1>2 DEF Arrive, WorkerOK, Placed, Holds
  <2>3. RecordOK' /\ OneSentForwardPerMail'
    BY <1>2 DEF Arrive, IInv, RecordOK, OneSentForwardPerMail
  <2>. QED BY <2>1, <2>2, <2>3 DEF IInv
<1>3. ASSUME NEW m \in Mails, Commit(m) PROVE IInv'
  <2>1. /\ m \in 1..created /\ m \notin committed
        /\ committed' = committed \cup {m}
        /\ notified' = notified \/ notified' = notified \cup {m}
        /\ UNCHANGED <<run, item, done, created, mailed, lock, worker, faults>>
    BY <1>3 DEF Commit
  <2>2. RuleRunTypeOK'
    BY <2>1 DEF IInv, RuleRunTypeOK
  <2>3. ASSUME NEW v \in Workers PROVE WorkerOK(v)'
    <3> DEFINE z == worker[v]
    <3>1. worker'[v] = z /\ Placed(z) /\ z.pc \in Locked => Holds(v, z)
      BY <1>1, <2>1 DEF WorkerOK
    <3>2. Placed(z) /\ worker'[v] = z
      BY <1>1, <2>1 DEF WorkerOK
    <3>3. Placed(z)'
      BY <2>1, <3>2 DEF Placed
    <3>4. z.pc \in Locked => z.mail # m
      BY <2>1, <3>2 DEF Placed, AtMail
    <3>5. z.pc \in Locked => Holds(v, z)'
      BY <2>1, <3>1, <3>2, <3>4 DEF Holds
    <3>. QED BY <3>2, <3>3, <3>5 DEF WorkerOK
  <2>4. RecordOK' /\ OneSentForwardPerMail'
    BY <2>1 DEF IInv, RecordOK, OneSentForwardPerMail
  <2>. QED BY <2>2, <2>3, <2>4 DEF IInv
<1>4. ASSUME NEW r \in Runs, Queue(r) \/ GracePasses(r) PROVE IInv'
  <2>1. UNCHANGED <<item, done, created, committed, notified, mailed, lock, worker, faults>>
    BY <1>4 DEF Queue, GracePasses
  <2>2. run' \in RunTable
    <3>1. \/ run' = [run EXCEPT ![r].status = "QUEUED"]
          \/ run' = [run EXCEPT ![r].grace = TRUE]
      BY <1>4 DEF Queue, GracePasses
    <3>2. run[r] \in [state : RunStates, status : {"NONE"} \cup Active \cup Terminal,
                      cutoff : 0..NumMails, grace : BOOLEAN]
      BY Tables DEF RunTable
    <3>3. run \in RunTable
      BY Tables
    <3>4. \A row \in [state : RunStates, status : {"NONE"} \cup Active \cup Terminal,
                       cutoff : 0..NumMails, grace : BOOLEAN] :
            [run EXCEPT ![r] = row] \in RunTable
      BY <3>3 DEF RunTable
    <3>5. /\ [run[r] EXCEPT !.status = "QUEUED"] \in
                [state : RunStates, status : {"NONE"} \cup Active \cup Terminal,
                 cutoff : 0..NumMails, grace : BOOLEAN]
          /\ [run[r] EXCEPT !.grace = TRUE] \in
                [state : RunStates, status : {"NONE"} \cup Active \cup Terminal,
                 cutoff : 0..NumMails, grace : BOOLEAN]
      BY <3>2 DEF Active
    <3>. QED BY <3>1, <3>4, <3>5
  <2>3. RuleRunTypeOK'
    BY <2>1, <2>2 DEF IInv, RuleRunTypeOK, RunTable
  <2>4. ASSUME NEW v \in Workers PROVE WorkerOK(v)'
    BY <1>1, <2>1 DEF WorkerOK, Placed, Holds
  <2>5. RecordOK' /\ OneSentForwardPerMail'
    BY <2>1 DEF IInv, RecordOK, OneSentForwardPerMail
  <2>. QED BY <2>3, <2>4, <2>5 DEF IInv
<1>. QED BY <1>2, <1>3, <1>4

LEMMA StutterKeeps ==
    ASSUME IInv, UNCHANGED vars
    PROVE  IInv'
<1>1. RuleRunTypeOK'
  BY DEF IInv, RuleRunTypeOK, vars
<1>2. ASSUME NEW v \in Workers PROVE WorkerOK(v)'
  BY DEF IInv, vars, WorkerOK, Placed, Holds
<1>3. RecordOK' /\ OneSentForwardPerMail'
  BY DEF IInv, vars, RecordOK, OneSentForwardPerMail
<1>. QED BY <1>1, <1>2, <1>3 DEF IInv

---------------------------------------------------------------------------
\* Every step of the system preserves the invariant.
LEMMA RuleRunStep == IInv /\ [Next]_vars => IInv'
<1>. SUFFICES ASSUME IInv, [Next]_vars PROVE IInv'
  OBVIOUS
<1>1. ASSUME NEW w \in Workers, Work(w) PROVE IInv'
  BY <1>1, ClaimKeeps, PagingKeeps, PassOverKeeps, RowsKeep, UnlockedItemKeeps,
     MarkSendingKeeps, SendKeeps, SettleKeeps, UnsettledKeeps DEF Work
<1>2. ASSUME NEW w \in Workers, Cancel(w) \/ InfraFailure(w) \/ Escaped(w) \/ Crash(w) PROVE IInv'
  BY <1>2, PagingKeeps, InfraFailureKeeps, UnsettledKeeps, CrashKeeps
<1>. QED BY <1>1, <1>2, SystemKeeps, StutterKeeps DEF Next

\* IInv holds in every reachable state of rule_run_worker.py's model.
THEOREM RuleRunInvariance == Spec => []IInv
BY RuleRunInit, RuleRunStep, PTL DEF Spec

\* Every table, lock and worker keeps its type.
THEOREM RuleRunTypeCorrect == Spec => []RuleRunTypeOK
<1>1. IInv => RuleRunTypeOK
  BY DEF IInv
<1>. QED BY <1>1, RuleRunInvariance, PTL

\* A run forwards a mail once at most and its items never deny it, whatever
\* the numbers of runs, workers, mails, pages, crashes and failures.
THEOREM ForwardIsOnRecordHolds == Spec => []ForwardIsOnRecord
<1>1. IInv => ForwardIsOnRecord
  <2>. SUFFICES ASSUME IInv, NEW r \in Runs, NEW m \in Mails
       PROVE  /\ mailed[r][m] <= 1
              /\ mailed[r][m] = 1 => item[r][m] \in Unresolved \cup {"sent"}
              /\ item[r][m] = "sent" => mailed[r][m] = 1
    BY DEF ForwardIsOnRecord
  <2>1. item[r][m] \in ItemStates
    BY DEF IInv, RuleRunTypeOK
  <2>. QED BY <2>1 DEF IInv, RecordOK, ItemStates, Unresolved
<1>. QED BY <1>1, RuleRunInvariance, PTL

\* No two runs record that they forwarded the same mail.
THEOREM OneSentForwardPerMailHolds == Spec => []OneSentForwardPerMail
<1>1. IInv => OneSentForwardPerMail
  BY DEF IInv
<1>. QED BY <1>1, RuleRunInvariance, PTL

---------------------------------------------------------------------------
(* What a completed run is through with                                    *)

\* With the cutoff c, the mails that a worker in the state s has left behind
\* it.  The scan answers for those only that are older than the window.
Covers(c, s, m) ==
    \/ s.phase = "SCAN" /\ m <= s.cursor /\ m + Window <= c
    \/ s.phase = "RECONCILE" /\ m <= s.cursor
    \/ s.phase = "DONE"

\* Workers of the run are through with all of them.  That never changes, so a state
\* that was written long ago, or over a later one, stays certified.
Certified(through, c, s) == \A m \in 1..c : Covers(c, s, m) => m \in through

\* Once its page is done, the state with the page's last mail is certified.
PageOK(through, c, x) ==
    x.pc \in AtMail \cup {"row"} =>
      \A m \in 1..c :
        Covers(c, [x.state EXCEPT !.cursor = x.last], m) =>
          \/ m \in through
          \/ m \in x.todo
          \/ x.pc \in AtMail /\ m = x.mail

Waiting == {"NONE", "QUEUED"}

RunOK(r) ==
    /\ run[r].cutoff <= created
    /\ run[r].status \in Waiting => run[r].state = Blank /\ ~run[r].grace
    /\ run[r].grace => 1..run[r].cutoff \subseteq committed
    /\ Certified(done[r], run[r].cutoff, run[r].state)
    /\ run[r].status = "COMPLETED" => \A m \in 1..run[r].cutoff : m \in done[r]

TickOK(x) ==
    x.pc # "idle" =>
      /\ run[x.run].status \notin Waiting
      /\ Certified(done[x.run], run[x.run].cutoff, x.state)
      /\ PageOK(done[x.run], run[x.run].cutoff, x)

\* A mail that is Window mails old is committed.
WindowHolds == \A m \in 1..created : m + Window <= created => m \in committed

CoverInv ==
    /\ WindowHolds
    /\ \A r \in Runs : RunOK(r)
    /\ \A w \in Workers : TickOK(worker[w])

---------------------------------------------------------------------------
\* The mails that a run is through with, and what they certify, only grow.
LEMMA CertifiedStays ==
    ASSUME NEW c, NEW s, NEW old, NEW new,
           Certified(old, c, s), \A m \in 1..c : m \in old => m \in new
    PROVE  Certified(new, c, s)
BY DEF Certified

LEMMA PageStays ==
    ASSUME NEW c, NEW x, NEW old, NEW new,
           PageOK(old, c, x), \A m \in 1..c : m \in old => m \in new
    PROVE  PageOK(new, c, x)
BY DEF PageOK

DoneKept == \A r \in Runs : done[r] \subseteq done'[r]

LEMMA RunStays ==
    ASSUME IInv, DoneKept, created' \in Nat, created <= created', committed \subseteq committed',
           NEW r \in Runs, RunOK(r), run'[r] = run[r]
    PROVE  RunOK(r)'
<1>1. 1..run[r].cutoff \subseteq Mails /\ run[r].cutoff \in Nat /\ created \in Nat
  BY Tables, Constants DEF RunTable, Mails, IInv, RuleRunTypeOK
<1>2. Certified(done'[r], run[r].cutoff, run[r].state)
  BY <1>1, CertifiedStays DEF RunOK, DoneKept
<1>3. run[r].status = "COMPLETED" => \A m \in 1..run[r].cutoff : m \in done'[r]
  BY <1>1 DEF RunOK, DoneKept
<1>. QED BY <1>1, <1>2, <1>3 DEF RunOK

\* What another step may do under a worker: not put its run back into the queue.
LEMMA TickStays ==
    ASSUME IInv, DoneKept, NEW x \in WorkerStates, Placed(x), TickOK(x),
           \A r \in Runs : run[r].status \notin Waiting =>
             run'[r].status \notin Waiting /\ run'[r].cutoff = run[r].cutoff
    PROVE  TickOK(x)'
<1>1. SUFFICES ASSUME x.pc # "idle" PROVE TickOK(x)'
  BY DEF TickOK
<1>2. x.run \in Runs /\ run[x.run].status \notin Waiting
  BY <1>1 DEF Placed, TickOK
<1>3. 1..run[x.run].cutoff \subseteq Mails
  <2>1. run[x.run].cutoff \in 0..NumMails
    BY <1>2, Tables DEF RunTable
  <2>. QED BY <2>1, Constants DEF Mails
<1>4. \A m \in 1..run[x.run].cutoff : m \in done[x.run] => m \in done'[x.run]
  BY <1>2, <1>3 DEF DoneKept
<1>5. Certified(done'[x.run], run[x.run].cutoff, x.state)
  BY <1>1, <1>4, CertifiedStays DEF TickOK
<1>6. PageOK(done'[x.run], run[x.run].cutoff, x)
  BY <1>1, <1>4, PageStays DEF TickOK
<1>. QED BY <1>2, <1>5, <1>6 DEF TickOK

\* A step of a worker that leaves every row of rule_runs in order.
LEMMA WorkerMoves ==
    ASSUME IInv, CoverInv, NEW w \in Workers, NEW y \in WorkerStates,
           worker' = [worker EXCEPT ![w] = y], TickOK(y)',
           DoneKept, UNCHANGED <<created, committed>>,
           \A r \in Runs : RunOK(r)',
           \A r \in Runs : run[r].status \notin Waiting =>
             run'[r].status \notin Waiting /\ run'[r].cutoff = run[r].cutoff
    PROVE  CoverInv'
<1>1. WindowHolds'
  BY DEF CoverInv, WindowHolds
<1>2. ASSUME NEW v \in Workers PROVE TickOK(worker[v])'
  <2>1. CASE v = w
    <3>1. worker'[v] = y
      BY <2>1 DEF IInv, RuleRunTypeOK
    <3>. QED BY <3>1 DEF TickOK
  <2>2. CASE v # w
    <3>1. PICK z \in WorkerStates : z = worker[v]
      BY TypedWorker DEF IInv
    <3>2. worker'[v] = z /\ Placed(z) /\ TickOK(z)
      BY <2>2, <3>1 DEF IInv, RuleRunTypeOK, CoverInv, WorkerOK
    <3>3. TickOK(z)'
      BY <3>2, TickStays
    <3>. QED BY <3>2, <3>3 DEF TickOK
  <2>. QED BY <2>1, <2>2
<1>. QED BY <1>1, <1>2 DEF CoverInv

\* It writes its state and a status into the row of its run, or nothing.
LEMMA WorkerWrites ==
    ASSUME IInv, CoverInv, NEW w \in Workers, NEW r \in Runs, NEW y \in WorkerStates,
           worker' = [worker EXCEPT ![w] = y],
           DoneKept, UNCHANGED <<created, committed>>,
           run[r].status \notin Waiting,
           \/ UNCHANGED run
           \/ \E s \in RunStates, t \in {"RUNNING"} \cup Terminal :
                /\ run' = [run EXCEPT ![r] = [Persisted(r, s) EXCEPT !.status = t]]
                /\ Certified(done'[r], run[r].cutoff, s)
                /\ t = "COMPLETED" => \A m \in 1..run[r].cutoff : m \in done'[r],
           y.pc # "idle" => /\ y.run = r
                            /\ Certified(done'[r], run[r].cutoff, y.state)
                            /\ PageOK(done'[r], run[r].cutoff, y)
    PROVE  CoverInv'
<1>1. run \in RunTable /\ created \in Nat
  BY Tables DEF IInv, RuleRunTypeOK
<1>2. \A q \in Runs : RunOK(q)
  BY DEF CoverInv
<1>3. CASE UNCHANGED run
  <2>1. \A q \in Runs : RunOK(q)'
    BY <1>1, <1>2, <1>3, RunStays
  <2>2. TickOK(y)'
    BY <1>3 DEF TickOK
  <2>. QED BY <1>3, <2>1, <2>2, WorkerMoves
<1>4. ASSUME NEW s \in RunStates, NEW t \in {"RUNNING"} \cup Terminal,
             run' = [run EXCEPT ![r] = [Persisted(r, s) EXCEPT !.status = t]],
             Certified(done'[r], run[r].cutoff, s),
             t = "COMPLETED" => \A m \in 1..run[r].cutoff : m \in done'[r]
      PROVE  CoverInv'
  <2> DEFINE row == [Persisted(r, s) EXCEPT !.status = t]
  <2>1. row.state = s /\ row.status = t /\ row.cutoff = run[r].cutoff /\ row.grace = run[r].grace
    BY <1>1 DEF RunTable, Persisted
  <2>. HIDE DEF row
  <2>2. run'[r] = row /\ \A q \in Runs : q # r => run'[q] = run[q]
    BY <1>1, <1>4 DEF RunTable, row
  <2>3. t \notin Waiting
    BY DEF Waiting, Terminal
  <2>4. RunOK(r)'
    <3>1. /\ run'[r].cutoff = run[r].cutoff /\ run'[r].grace = run[r].grace
          /\ run'[r].state = s /\ run'[r].status = t
      BY <2>1, <2>2
    <3>2. Certified(done'[r], run'[r].cutoff, run'[r].state)
      BY <1>4, <3>1
    <3>3. run'[r].cutoff <= created' /\ (run'[r].grace => 1..run'[r].cutoff \subseteq committed')
      BY <1>2, <3>1 DEF RunOK
    <3>. QED BY <1>4, <2>3, <3>1, <3>2, <3>3 DEF RunOK
  <2>5. \A q \in Runs : RunOK(q)'
    BY <1>1, <1>2, <2>2, <2>4, RunStays
  <2>6. TickOK(y)'
    BY <2>1, <2>2, <2>3 DEF TickOK
  <2>7. \A q \in Runs : run[q].status \notin Waiting =>
             run'[q].status \notin Waiting /\ run'[q].cutoff = run[q].cutoff
    BY <2>1, <2>2, <2>3
  <2>. QED BY <2>5, <2>6, <2>7, WorkerMoves
<1>. QED BY <1>3, <1>4

\* What a step of a worker may rely on.
LEMMA Ticking ==
    ASSUME IInv, CoverInv, NEW w \in Workers, worker[w].pc # "idle"
    PROVE  LET x == worker[w]
               r == x.run
           IN  /\ x \in WorkerStates /\ Placed(x) /\ r \in Runs /\ x.state \in RunStates
               /\ run[r].status \notin Waiting
               /\ run[r].status \in {"RUNNING"} \cup Terminal
               /\ 1..run[r].cutoff \subseteq Mails /\ run[r].cutoff \in Nat /\ RunOK(r)
               /\ Certified(done[r], run[r].cutoff, x.state)
               /\ PageOK(done[r], run[r].cutoff, x)
<1> DEFINE x == worker[w]
           r == x.run
<1>1. x \in WorkerStates /\ Placed(x) /\ r \in Runs /\ x.state \in RunStates
  BY TypedWorker DEF IInv, WorkerOK, Placed, WorkerStates
<1>2. TickOK(x) /\ RunOK(r)
  BY <1>1 DEF CoverInv
<1>3. run[r] \in [state : RunStates, status : {"NONE"} \cup Active \cup Terminal,
                  cutoff : 0..NumMails, grace : BOOLEAN]
  BY <1>1, Tables DEF RunTable
<1>4. run[r].status \in {"RUNNING"} \cup Terminal
  BY <1>2, <1>3 DEF TickOK, Waiting, Active
<1>5. 1..run[r].cutoff \subseteq Mails /\ run[r].cutoff \in Nat
  BY <1>3, Constants DEF Mails
<1>. QED BY <1>1, <1>2, <1>4, <1>5 DEF TickOK

\* _persist, with or without the end of the tick.
LEMMA PersistCovers ==
    ASSUME IInv, CoverInv, NEW w \in Workers, worker[w].pc # "idle",
           NEW s \in RunStates, Persist(w, s),
           Certified(done[worker[w].run], run[worker[w].run].cutoff, s)
    PROVE  CoverInv'
<1> DEFINE r == worker[w].run
           y == [Idle(r) EXCEPT !.pc = "step", !.state = s]
           t == run[r].status
<1>1. r \in Runs /\ t \notin Waiting /\ t \in {"RUNNING"} \cup Terminal /\ RunOK(r)
  BY Ticking
<1>2. /\ run' = [run EXCEPT ![r] = Persisted(r, s)]
      /\ worker' = [worker EXCEPT ![w] = y] \/ worker' = [worker EXCEPT ![w] = Idle(r)]
      /\ UNCHANGED <<item, done, created, committed, notified, mailed, lock, faults>>
  BY DEF Persist
<1>3. Persisted(r, s) = [Persisted(r, s) EXCEPT !.status = t]
  BY <1>1, Tables DEF Persisted, RunTable
<1>4. r \in 0..NumRuns
  BY <1>1, Constants
<1>5. y \in WorkerStates /\ y.pc = "step" /\ y.run = r /\ y.state = s
  BY <1>4, Constants DEF Idle, WorkerStates, Points, Locked, AtMail
<1>6. Idle(r) \in WorkerStates /\ Idle(r).pc = "idle"
  BY <1>4, IdleOK
<1>7. PageOK(done'[r], run[r].cutoff, y)
  BY <1>5 DEF PageOK, AtMail, Locked
<1>8. t = "COMPLETED" => \A m \in 1..run[r].cutoff : m \in done[r]
  BY <1>1 DEF RunOK
<1>9. DoneKept
  BY <1>2 DEF DoneKept
<1>. HIDE DEF y, t, r
<1>10. \E u \in RunStates, v \in {"RUNNING"} \cup Terminal :
         /\ run' = [run EXCEPT ![r] = [Persisted(r, u) EXCEPT !.status = v]]
         /\ Certified(done'[r], run[r].cutoff, u)
         /\ v = "COMPLETED" => \A m \in 1..run[r].cutoff : m \in done'[r]
  <2>1. Certified(done'[r], run[r].cutoff, s)
    BY <1>2 DEF r
  <2>2. run' = [run EXCEPT ![r] = [Persisted(r, s) EXCEPT !.status = t]]
    BY <1>2, <1>3
  <2>3. t = "COMPLETED" => \A m \in 1..run[r].cutoff : m \in done'[r]
    BY <1>2, <1>8
  <2>. QED BY <1>1, <2>1, <2>2, <2>3
<1>11. run[r].status \notin Waiting
  BY <1>1 DEF t
<1>12. ASSUME NEW z \in WorkerStates, worker' = [worker EXCEPT ![w] = z],
              z.pc # "idle" => /\ z.run = r
                               /\ Certified(done'[r], run[r].cutoff, z.state)
                               /\ PageOK(done'[r], run[r].cutoff, z)
       PROVE  CoverInv'
  BY <1>1, <1>2, <1>9, <1>10, <1>11, <1>12, WorkerWrites
<1>13. CASE worker' = [worker EXCEPT ![w] = y]
  <2>1. Certified(done'[r], run[r].cutoff, y.state)
    BY <1>2, <1>5 DEF r
  <2>. QED BY <1>5, <1>7, <1>12, <1>13, <2>1
<1>14. CASE worker' = [worker EXCEPT ![w] = Idle(r)]
  BY <1>6, <1>12, <1>14
<1>. QED BY <1>2, <1>13, <1>14

LEMMA FinishCovers ==
    ASSUME IInv, CoverInv, NEW w \in Workers, worker[w].pc # "idle",
           NEW s \in RunStates, NEW t \in Terminal, Finish(w, s, t),
           UNCHANGED <<item, done, created, committed, notified, mailed, lock, faults>>,
           Certified(done[worker[w].run], run[worker[w].run].cutoff, s),
           t = "COMPLETED" => \A m \in 1..run[worker[w].run].cutoff :
                                m \in done[worker[w].run]
    PROVE  CoverInv'
<1>1. worker[w].run \in Runs /\ run[worker[w].run].status \notin Waiting
  BY Ticking
<1>2. Idle(0) \in WorkerStates /\ Idle(0).pc = "idle"
  BY Constants, IdleOK
<1>3. DoneKept
  BY DEF DoneKept
<1>4. Certified(done'[worker[w].run], run[worker[w].run].cutoff, s)
  OBVIOUS
<1>5. t = "COMPLETED" => \A m \in 1..run[worker[w].run].cutoff : m \in done'[worker[w].run]
  OBVIOUS
<1>. QED BY <1>1, <1>2, <1>3, <1>4, <1>5, WorkerWrites DEF Finish

\* A page has every row that it may hold, up to its last one.
LEMMA PageHasAll ==
    ASSUME IInv, NEW w \in Workers, NEW last \in Page(w), NEW m \in Rows(w), m <= last
    PROVE  m \in Page(w)
<1> DEFINE upto(k) == {j \in Rows(w) : j <= k}
<1>1. Rows(w) \subseteq 1..NumMails
  BY Tables DEF Rows, Mails
<1>2. IsFiniteSet(1..NumMails)
  BY Constants, FS_Interval
<1>3. IsFiniteSet(upto(last))
  <2>1. upto(last) \in SUBSET (1..NumMails)
    BY <1>1
  <2>. QED BY <1>2, <2>1, FS_Subset
<1>4. upto(m) \in SUBSET upto(last)
  BY <1>1 DEF Page
<1>5. /\ IsFiniteSet(upto(m)) /\ Cardinality(upto(m)) <= Cardinality(upto(last))
  BY <1>3, <1>4, FS_Subset
<1>6. Cardinality(upto(m)) \in Nat /\ Cardinality(upto(last)) \in Nat
  BY <1>3, <1>5, FS_CardinalityType
<1>7. Cardinality(upto(last)) <= PageSize
  BY DEF Page
<1>8. Cardinality(upto(m)) <= PageSize
  BY <1>5, <1>6, <1>7, RuleRunAssumption DEF RuleRunAssumption
<1>. QED BY <1>8 DEF Page

LEMMA FetchCovers ==
    ASSUME IInv, CoverInv, NEW w \in Workers, FetchPage(w)
    PROVE  CoverInv'
<1> DEFINE x == worker[w]
           r == x.run
           c == run[r].cutoff
<1>1. PICK last \in Page(w) :
        /\ \A m \in Page(w) : m <= last
        /\ worker' = [worker EXCEPT ![w] =
             [x EXCEPT !.pc = "row", !.todo = Page(w), !.last = last]]
        /\ MayFetch(w)
        /\ UNCHANGED <<run, item, done, created, committed, notified, mailed, lock, faults>>
  BY DEF FetchPage
<1>2. x.pc = "step"
  BY <1>1 DEF MayFetch
<1>3. /\ x \in WorkerStates /\ r \in Runs /\ x.state \in RunStates
      /\ run[r].status \notin Waiting
      /\ 1..c \subseteq Mails /\ c \in Nat /\ RunOK(r)
      /\ Certified(done[r], c, x.state)
  BY <1>2, Ticking
<1> DEFINE y == [x EXCEPT !.pc = "row", !.todo = Page(w), !.last = last]
<1>4. Page(w) \subseteq Mails /\ Page(w) \subseteq Rows(w) /\ last \in 0..NumMails
  BY Tables, Constants DEF Page, Rows
<1>5. /\ y \in WorkerStates /\ y.pc = "row" /\ y.run = r /\ y.state = x.state
      /\ y.todo = Page(w) /\ y.last = last
  BY <1>3, <1>4 DEF WorkerStates, Points, Locked, AtMail
<1>. HIDE DEF y
<1>6. PageOK(done[r], c, y)
  <2> DEFINE s == [x.state EXCEPT !.cursor = last]
  <2>1. SUFFICES ASSUME NEW m \in 1..c, Covers(c, s, m), m \notin done[r]
                 PROVE  m \in Page(w)
    BY <1>5 DEF PageOK
  <2>2. s.phase = x.state.phase /\ s.cursor = last /\ x.state.cursor \in Nat
    BY <1>3 DEF RunStates
  <2>3. x.state.phase \in {"SCAN", "RECONCILE"} /\ m <= last
    BY <1>1, <2>1, <2>2 DEF MayFetch, Covers
  <2>4. x.state.cursor < m
    BY <1>3, <2>1, <2>2, <2>3 DEF Certified, Covers
  <2>5. m \in committed
    <3>1. CASE x.state.phase = "SCAN"
      <4>1. m + Window <= c /\ c <= created /\ created \in Nat
        BY <1>3, <2>1, <2>2, <3>1 DEF Covers, RunOK, IInv, RuleRunTypeOK
      <4>. QED BY <1>3, <4>1, Constants DEF CoverInv, WindowHolds
    <3>2. CASE x.state.phase = "RECONCILE"
      BY <1>1, <1>3, <2>1, <3>2 DEF MayFetch, RunOK
    <3>. QED BY <2>3, <3>1, <3>2
  <2>6. m \in Rows(w)
    BY <2>1, <2>4, <2>5 DEF Rows
  <2>. QED BY <2>3, <2>6, PageHasAll
<1>7. worker' = [worker EXCEPT ![w] = y] /\ DoneKept
  BY <1>1 DEF y, DoneKept
<1>. HIDE DEF c, r
<1>. QED BY <1>1, <1>3, <1>5, <1>6, <1>7, WorkerWrites DEF c, r

\* When the scan has no row left, every mail older than the window is behind it.
LEMMA PagingCovers ==
    ASSUME IInv, CoverInv, NEW w \in Workers,
           \/ ScanDone(w) \/ WaitForGrace(w) \/ Complete(w)
           \/ EndPage(w) \/ Cancel(w) \/ Capped(w)
    PROVE  CoverInv'
<1> DEFINE x == worker[w]
           r == x.run
           c == run[r].cutoff
<1>1. x.pc # "idle"
  BY DEF ScanDone, WaitForGrace, Complete, EndPage, Cancel, Capped, MayFetch
<1>2. /\ x \in WorkerStates /\ r \in Runs /\ x.state \in RunStates
      /\ 1..c \subseteq Mails /\ c \in Nat /\ RunOK(r)
      /\ Certified(done[r], c, x.state) /\ PageOK(done[r], c, x)
  BY <1>1, Ticking
<1>3. x.state.cursor \in Nat /\ x.last \in 0..NumMails /\ created \in Nat
  BY <1>2 DEF RunStates, WorkerStates, IInv, RuleRunTypeOK
<1>4. ASSUME Rows(w) = {}, NEW m \in 1..c, m \in committed,
             x.state.phase = "SCAN" => m + Window <= c,
             x.state.phase \in {"SCAN", "RECONCILE"}
      PROVE  m \in done[r]
  <2>1. m <= x.state.cursor
    BY <1>3, <1>4 DEF Rows
  <2>. QED BY <1>2, <1>4, <2>1 DEF Certified, Covers
<1>5. CASE ScanDone(w)
  <2> DEFINE s == [x.state EXCEPT !.phase = "RECONCILE", !.cursor = ReconcileFrom(r)]
  <2>1. ReconcileFrom(r) \in 0..NumMails
    <3>1. c \in 0..NumMails
      BY <1>2, Tables DEF RunTable
    <3>. QED BY <3>1, Constants DEF ReconcileFrom
  <2>2. s \in RunStates /\ s.phase = "RECONCILE" /\ s.cursor = ReconcileFrom(r)
    BY <1>2, <2>1 DEF RunStates
  <2>. HIDE DEF s
  <2>3. Certified(done[r], c, s)
    <3>1. SUFFICES ASSUME NEW m \in 1..c, Covers(c, s, m) PROVE m \in done[r]
      BY DEF Certified
    <3>2. m + Window <= c
      BY <1>2, <2>2, <3>1, Constants DEF Covers, ReconcileFrom
    <3>3. m \in committed
      BY <1>2, <1>3, <3>2, Constants DEF RunOK, CoverInv, WindowHolds
    <3>. QED BY <1>4, <1>5, <3>2, <3>3 DEF ScanDone
  <2>4. Persist(w, s)
    BY <1>5 DEF ScanDone, s
  <2>. QED BY <1>1, <2>2, <2>3, <2>4, PersistCovers
<1>6. CASE WaitForGrace(w)
  BY <1>1, <1>2, <1>6, PersistCovers DEF WaitForGrace, Persist
<1>7. CASE Complete(w)
  <2> DEFINE s == [x.state EXCEPT !.phase = "DONE"]
  <2>1. s \in RunStates /\ "COMPLETED" \in Terminal
    BY <1>2 DEF RunStates, Terminal
  <2>2. \A m \in 1..c : m \in done[r]
    <3>1. x.state.phase = "RECONCILE" /\ run[r].grace /\ Rows(w) = {}
      BY <1>7 DEF Complete, MayFetch
    <3>. QED BY <1>2, <1>4, <3>1 DEF RunOK
  <2>3. Certified(done[r], c, s)
    BY <2>2 DEF Certified
  <2>. HIDE DEF s
  <2>4. /\ Finish(w, s, "COMPLETED")
        /\ UNCHANGED <<item, done, created, committed, notified, mailed, lock, faults>>
    BY <1>7 DEF Complete, s
  <2>. QED BY <1>1, <2>1, <2>2, <2>3, <2>4, FinishCovers
<1>8. CASE EndPage(w)
  <2> DEFINE s == [x.state EXCEPT !.cursor = x.last]
  <2>1. s \in RunStates
    BY <1>2, <1>3 DEF RunStates
  <2>2. Certified(done[r], c, s)
    BY <1>2, <1>8 DEF EndPage, PageOK, Certified, AtMail, Locked
  <2>3. Persist(w, s)
    BY <1>8 DEF EndPage
  <2>. HIDE DEF s
  <2>. QED BY <1>1, <2>1, <2>2, <2>3, PersistCovers
<1>9. CASE Cancel(w)
  BY <1>1, <1>2, <1>9, FinishCovers DEF Cancel, Terminal
<1>10. CASE Capped(w)
  BY <1>1, <1>2, <1>10, FinishCovers DEF Capped, Terminal
<1>. QED BY <1>5, <1>6, <1>7, <1>8, <1>9, <1>10

\* A step at a row of the page.  The row leaves the page for the worker's mail,
\* and the worker is through with a mail that it leaves.
LEMMA RowCovers ==
    ASSUME IInv, CoverInv, NEW w \in Workers, NEW y \in WorkerStates,
           worker[w].pc \in AtMail \cup {"row"}, y.pc # "idle",
           worker' = [worker EXCEPT ![w] = y],
           y.run = worker[w].run, y.last = worker[w].last,
           y.state.phase = worker[w].state.phase, y.state.cursor = worker[w].state.cursor,
           DoneKept, UNCHANGED <<run, created, committed>>,
           \A m \in worker[w].todo :
             m \in y.todo \/ m \in done'[y.run] \/ (y.pc \in AtMail /\ m = y.mail),
           worker[w].pc \in AtMail =>
             \/ worker[w].mail \in done'[y.run]
             \/ y.pc \in AtMail /\ y.mail = worker[w].mail
    PROVE  CoverInv'
<1> DEFINE x == worker[w]
           r == x.run
           c == run[r].cutoff
<1>1. x.pc # "idle"
  BY DEF AtMail, Locked
<1>2. /\ x \in WorkerStates /\ r \in Runs /\ x.state \in RunStates
      /\ run[r].status \notin Waiting
      /\ 1..c \subseteq Mails /\ c \in Nat /\ RunOK(r)
      /\ Certified(done[r], c, x.state) /\ PageOK(done[r], c, x)
  BY <1>1, Ticking
<1>3. \A m \in 1..c : m \in done[r] => m \in done'[r]
  BY <1>2 DEF DoneKept
<1>4. Certified(done'[r], c, y.state)
  BY <1>2, <1>3 DEF Certified, Covers
<1>5. PageOK(done'[r], c, y)
  <2>1. ASSUME NEW m \in 1..c, Covers(c, [y.state EXCEPT !.cursor = y.last], m)
        PROVE  Covers(c, [x.state EXCEPT !.cursor = x.last], m)
    BY <1>2, <2>1 DEF Covers, RunStates, WorkerStates
  <2>. QED BY <1>2, <1>3, <2>1 DEF PageOK
<1>. HIDE DEF r, c
<1>. QED BY <1>2, <1>4, <1>5, WorkerWrites DEF r, c

\* A history that stays, or that the mail is put into, keeps what it has.
LEMMA HistoryKept ==
    ASSUME IInv, NEW r \in Runs, NEW m \in Mails, done' = done \/ done' = Through(r, m)
    PROVE  DoneKept /\ (done' = Through(r, m) => m \in done'[r])
BY ThroughAdds DEF DoneKept

LEMMA RowStepCovers ==
    ASSUME IInv, CoverInv, NEW w \in Workers, ProcessRow(w)
    PROVE  CoverInv'
<1> DEFINE x == worker[w]
<1>1. PICK m \in x.todo :
        /\ worker' = [worker EXCEPT ![w] =
             [x EXCEPT !.pc = AfterRow(item[x.run][m]), !.todo = x.todo \ {m},
                       !.mail = IF AfterRow(item[x.run][m]) = "row" THEN 0 ELSE m]]
        /\ done' = IF AfterRow(item[x.run][m]) = "row" THEN Through(x.run, m) ELSE done
  BY DEF ProcessRow
<1>2. x.pc = "row" /\ UNCHANGED <<run, created, committed>>
  BY DEF ProcessRow
<1>3. x \in WorkerStates /\ m \in Mails /\ x.run \in Runs
  BY <1>2, Ticking, Tables DEF Placed
<1> DEFINE next == AfterRow(item[x.run][m])
           y == [x EXCEPT !.pc = next, !.todo = x.todo \ {m},
                          !.mail = IF next = "row" THEN 0 ELSE m]
<1>4. /\ next \in {"prior", "orphan", "row"} /\ next \in Points
      /\ DoneKept /\ (next = "row" => m \in done'[x.run])
  BY <1>1, <1>3, HistoryKept DEF AfterRow, Points, Locked, AtMail
<1>5. worker' = [worker EXCEPT ![w] = y]
  BY <1>1
<1>. HIDE DEF next
<1>6. /\ y \in WorkerStates /\ y.pc = next /\ y.run = x.run /\ y.last = x.last
      /\ y.state = x.state /\ y.todo = x.todo \ {m}
      /\ next # "row" => y.mail = m
  BY <1>3, <1>4, Constants DEF WorkerStates
<1>. HIDE DEF y
<1>7. \A k \in x.todo : k \in y.todo \/ k \in done'[y.run] \/ (y.pc \in AtMail /\ k = y.mail)
  <2>1. CASE next = "row"
    BY <1>2, <1>4, <1>6, <2>1
  <2>2. CASE next # "row"
    BY <1>4, <1>6, <2>2 DEF AtMail
  <2>. QED BY <2>1, <2>2
<1>8. x.pc \notin AtMail
  BY <1>2 DEF AtMail, Locked
<1>9. y.pc # "idle"
  BY <1>4, <1>6
<1>. QED BY <1>2, <1>4, <1>5, <1>6, <1>7, <1>8, <1>9, RowCovers

LEMMA PassOverCovers ==
    ASSUME IInv, CoverInv, NEW w \in Workers, PassOver(w)
    PROVE  CoverInv'
<1> DEFINE x == worker[w]
<1>1. PICK m \in x.todo :
        /\ worker' = [worker EXCEPT ![w] = [x EXCEPT !.todo = x.todo \ {m}]]
        /\ done' = Through(x.run, m)
  BY DEF PassOver
<1>2. x.pc = "row" /\ UNCHANGED <<run, created, committed>>
  BY DEF PassOver
<1>3. x \in WorkerStates /\ m \in Mails /\ x.run \in Runs
  BY <1>2, Ticking, Tables DEF Placed
<1>4. DoneKept /\ m \in done'[x.run]
  BY <1>1, <1>3, HistoryKept
<1> DEFINE y == [x EXCEPT !.todo = x.todo \ {m}]
<1>5. /\ y \in WorkerStates /\ y.pc = "row" /\ y.run = x.run /\ y.last = x.last
      /\ y.state = x.state /\ y.todo = x.todo \ {m}
  BY <1>2, <1>3 DEF WorkerStates
<1>6. worker' = [worker EXCEPT ![w] = y] /\ x.pc \notin AtMail
  BY <1>1, <1>2 DEF AtMail, Locked
<1>. HIDE DEF y
<1>7. \A k \in x.todo : k \in y.todo \/ k \in done'[y.run]
  BY <1>4, <1>5
<1>. QED BY <1>2, <1>4, <1>5, <1>6, <1>7, RowCovers

\* The steps at a mail of the page.
LEMMA MailStepCovers ==
    ASSUME IInv, CoverInv, NEW w \in Workers,
           \/ Orphaned(w) \/ CheckPrior(w) \/ NotSent(w) \/ MarkSending(w) \/ Send(w)
           \/ Settle(w) \/ Unsettled(w) \/ Escaped(w)
    PROVE  CoverInv'
<1> DEFINE x == worker[w]
<1>1. x.pc \in AtMail /\ x.pc # "idle" /\ UNCHANGED <<run, created, committed>>
  BY DEF Orphaned, CheckPrior, NotSent, MarkSending, Send, Settle, Unsettled, Escaped,
         AtMail, Locked
<1>2. /\ x \in WorkerStates /\ x.run \in Runs /\ x.state \in RunStates
      /\ x.mail \in committed /\ x.mail \in Mails
  BY <1>1, Ticking, Tables DEF Placed
<1>3. ASSUME NEW y \in WorkerStates, worker' = [worker EXCEPT ![w] = y], DoneKept,
             y.pc \in AtMail \/ (y.pc = "row" /\ x.mail \in done'[x.run]),
             y.pc \in AtMail => y.mail = x.mail,
             y.run = x.run, y.last = x.last, y.todo = x.todo,
             y.state.phase = x.state.phase, y.state.cursor = x.state.cursor
      PROVE  CoverInv'
  <2>1. y.pc # "idle"
    BY <1>3 DEF AtMail, Locked
  <2>2. x.mail \in done'[y.run] \/ (y.pc \in AtMail /\ y.mail = x.mail)
    BY <1>3
  <2>. QED BY <1>1, <1>3, <2>1, <2>2, RowCovers
<1>4. ASSUME NextRow(w) PROVE CoverInv'
  <2> DEFINE y == [x EXCEPT !.pc = "row", !.mail = 0]
  <2>1. /\ y \in WorkerStates /\ y.pc = "row" /\ y.run = x.run /\ y.last = x.last
        /\ y.state = x.state /\ y.todo = x.todo
    BY <1>2, Constants DEF WorkerStates, Points, Locked, AtMail
  <2>2. worker' = [worker EXCEPT ![w] = y] /\ y.pc \notin AtMail
    BY <1>4, <2>1 DEF NextRow, AtMail, Locked
  <2>3. DoneKept /\ x.mail \in done'[x.run]
    BY <1>2, <1>4, HistoryKept DEF NextRow
  <2>. HIDE DEF y
  <2>. QED BY <1>3, <2>1, <2>2, <2>3
<1>5. ASSUME NEW p \in Locked \cup {"lock"},
             worker' = [worker EXCEPT ![w] = [x EXCEPT !.pc = p]], done' = done
      PROVE  CoverInv'
  <2> DEFINE y == [x EXCEPT !.pc = p]
  <2>1. /\ y \in WorkerStates /\ y.pc = p /\ y.run = x.run /\ y.last = x.last
        /\ y.state = x.state /\ y.todo = x.todo /\ y.mail = x.mail
    BY <1>2 DEF WorkerStates, Points, Locked, AtMail
  <2>2. worker' = [worker EXCEPT ![w] = y] /\ y.pc \in AtMail
    BY <1>5, <2>1 DEF AtMail
  <2>3. y.state.phase = x.state.phase /\ y.state.cursor = x.state.cursor
    BY <2>1
  <2>4. DoneKept
    BY <1>5 DEF DoneKept
  <2>. HIDE DEF y
  <2>. QED BY <1>3, <2>1, <2>2, <2>3, <2>4
<1>6. CASE Orphaned(w) \/ NotSent(w) \/ Unsettled(w) \/ Escaped(w)
  BY <1>4, <1>6 DEF Orphaned, NotSent, Unsettled, Escaped
<1>7. CASE CheckPrior(w)
  BY <1>4, <1>5, <1>7 DEF CheckPrior
<1>8. CASE MarkSending(w)
  BY <1>5, <1>8 DEF MarkSending, Locked
<1>9. CASE Send(w)
  <2>1. done' = done /\ "sent" \in Locked /\ "unsent" \in Locked
    BY <1>9 DEF Send, Locked
  <2>2. \/ worker' = [worker EXCEPT ![w] = [x EXCEPT !.pc = "sent"]]
        \/ worker' = [worker EXCEPT ![w] = [x EXCEPT !.pc = "unsent"]]
    BY <1>9 DEF Send
  <2>. QED BY <1>5, <2>1, <2>2
<1>10. CASE Settle(w)
  <2> DEFINE t == IF x.pc = "sent" THEN [x.state EXCEPT !.sent = @ + 1] ELSE x.state
             y == [x EXCEPT !.pc = "row", !.mail = 0, !.state = t]
  <2>1. x.pc \in {"sent", "unsent"}
    BY <1>10 DEF Settle
  <2>2. t \in RunStates /\ t.phase = x.state.phase /\ t.cursor = x.state.cursor
    BY <1>2 DEF RunStates
  <2>3. worker' = [worker EXCEPT ![w] = y]
    BY <1>10 DEF Settle
  <2>. HIDE DEF t
  <2>4. /\ y \in WorkerStates /\ y.pc = "row" /\ y.run = x.run /\ y.last = x.last
        /\ y.state = t /\ y.todo = x.todo
    BY <1>2, <2>2, Constants DEF WorkerStates, Points, Locked, AtMail
  <2>5. y.pc \notin AtMail
    BY <2>4 DEF AtMail, Locked
  <2>6. DoneKept /\ x.mail \in done'[x.run]
    BY <1>2, <1>10, HistoryKept DEF Settle
  <2>. HIDE DEF y
  <2>. QED BY <1>3, <2>2, <2>3, <2>4, <2>5, <2>6
<1>. QED BY <1>6, <1>7, <1>8, <1>9, <1>10

\* A failure or a crash sends the worker back to the scheduler.
LEMMA LeaveCovers ==
    ASSUME IInv, CoverInv, NEW w \in Workers, InfraFailure(w) \/ Crash(w)
    PROVE  CoverInv'
<1> DEFINE x == worker[w]
           r == x.run
           c == run[r].cutoff
<1>1. created \in Nat /\ \A q \in Runs : RunOK(q)
  BY DEF IInv, RuleRunTypeOK, CoverInv
<1>2. CASE Crash(w)
  <2>1. Idle(0) \in WorkerStates /\ Idle(0).pc = "idle"
    BY Constants, IdleOK
  <2>2. DoneKept /\ UNCHANGED <<run, created, committed>>
    BY <1>2 DEF Crash, DoneKept
  <2>3. \A q \in Runs : RunOK(q)'
    BY <1>1, <2>2, RunStays
  <2>4. PICK y \in WorkerStates : y = Idle(0)
    BY <2>1
  <2>5. TickOK(y)'
    BY <2>1, <2>4 DEF TickOK
  <2>. QED BY <1>2, <2>2, <2>3, <2>4, <2>5, WorkerMoves DEF Crash
<1>3. CASE InfraFailure(w)
  <2> DEFINE tried == x.state.attempts + 1
  <2>1. x.pc # "idle"
    BY <1>3 DEF InfraFailure
  <2>2. /\ x \in WorkerStates /\ Placed(x) /\ r \in Runs /\ x.state \in RunStates
        /\ run[r].status \notin Waiting /\ run[r].status \in {"RUNNING"} \cup Terminal
        /\ 1..c \subseteq Mails /\ RunOK(r)
        /\ Certified(done[r], c, x.state)
    BY <2>1, Ticking
  <2>3. DoneKept
    BY <1>3 DEF InfraFailure, DoneKept
  <2>4. PICK y \in WorkerStates : y.pc = "idle" /\ worker' = [worker EXCEPT ![w] = y]
    <3>1. Idle(0) \in WorkerStates /\ Idle(0).pc = "idle"
          /\ Idle(r) \in WorkerStates /\ Idle(r).pc = "idle"
      BY <2>2, Constants, IdleOK
    <3>2. \/ worker' = [worker EXCEPT ![w] = Idle(0)]
          \/ worker' = [worker EXCEPT ![w] = Idle(r)]
      BY <1>3 DEF InfraFailure
    <3>. QED BY <3>1, <3>2
  <2>5. /\ tried \in Nat /\ run[r].state \in RunStates
        /\ run[r] \in [state : RunStates, status : {"NONE"} \cup Active \cup Terminal,
                       cutoff : 0..NumMails, grace : BOOLEAN]
    BY <2>2, Tables DEF RunStates, RunTable
  <2>6. \A m \in 1..c : m \in done[r] => m \in done'[r]
    BY <2>2, <2>3 DEF DoneKept
  <2>7. \/ UNCHANGED run
        \/ \E s \in RunStates, t \in {"RUNNING"} \cup Terminal :
             /\ run' = [run EXCEPT ![r] = [Persisted(r, s) EXCEPT !.status = t]]
             /\ Certified(done'[r], c, s)
             /\ t = "COMPLETED" => \A m \in 1..c : m \in done'[r]
    <3>1. ASSUME run' = [run EXCEPT ![r] =
                   [@ EXCEPT !.state = [run[r].state EXCEPT !.attempts = tried]]]
          PROVE  \E s \in RunStates, t \in {"RUNNING"} \cup Terminal :
                   /\ run' = [run EXCEPT ![r] = [Persisted(r, s) EXCEPT !.status = t]]
                   /\ Certified(done'[r], c, s)
                   /\ t = "COMPLETED" => \A m \in 1..c : m \in done'[r]
      <4> DEFINE s == [run[r].state EXCEPT !.attempts = tried]
                 t == run[r].status
      <4>1. s \in RunStates /\ s.phase = run[r].state.phase /\ s.cursor = run[r].state.cursor
        BY <2>5 DEF RunStates
      <4>2. Certified(done'[r], c, s)
        BY <2>2, <2>6, <4>1 DEF RunOK, Certified, Covers
      <4>3. t = "COMPLETED" => \A m \in 1..c : m \in done'[r]
        BY <2>2, <2>6 DEF RunOK
      <4>4. run' = [run EXCEPT ![r] = Persisted(r, s)]
        BY <2>2, <3>1, Tables DEF Persisted, RunTable
      <4>. HIDE DEF s
      <4>5. Persisted(r, s) = [Persisted(r, s) EXCEPT !.status = t]
        BY <2>5 DEF Persisted
      <4>. QED BY <2>2, <4>1, <4>2, <4>3, <4>4, <4>5
    <3>2. ASSUME run' = [run EXCEPT ![r] =
                   [Persisted(r, [x.state EXCEPT !.attempts = tried]) EXCEPT !.status = "FAILED"]]
          PROVE  \E s \in RunStates, t \in {"RUNNING"} \cup Terminal :
                   /\ run' = [run EXCEPT ![r] = [Persisted(r, s) EXCEPT !.status = t]]
                   /\ Certified(done'[r], c, s)
                   /\ t = "COMPLETED" => \A m \in 1..c : m \in done'[r]
      <4> DEFINE s == [x.state EXCEPT !.attempts = tried]
      <4>1. s \in RunStates /\ s.phase = x.state.phase /\ s.cursor = x.state.cursor
        BY <2>2, <2>5 DEF RunStates
      <4>2. Certified(done'[r], c, s)
        BY <2>2, <2>6, <4>1 DEF Certified, Covers
      <4>. HIDE DEF s
      <4>3. "FAILED" \in {"RUNNING"} \cup Terminal
        BY DEF Terminal
      <4>. QED BY <3>2, <4>1, <4>2, <4>3 DEF s
    <3>. QED BY <1>3, <3>1, <3>2 DEF InfraFailure
  <2>8. UNCHANGED <<created, committed>>
    BY <1>3 DEF InfraFailure
  <2>. HIDE DEF r, c
  <2>. QED BY <2>2, <2>3, <2>4, <2>7, <2>8, WorkerWrites DEF r, c
<1>. QED BY <1>2, <1>3

\* A claim of a queued run sets its cutoff, and nobody works on the run yet.
LEMMA ClaimCovers ==
    ASSUME IInv, CoverInv, NEW w \in Workers, Claim(w)
    PROVE  CoverInv'
<1>1. PICK r \in Runs :
        /\ run[r].status \in {"QUEUED", "RUNNING"}
        /\ run' = [run EXCEPT ![r] =
             [@ EXCEPT !.status = "RUNNING",
                       !.cutoff = IF run[r].status = "QUEUED" THEN created ELSE run[r].cutoff]]
        /\ worker' = [worker EXCEPT ![w] =
             [Idle(r) EXCEPT !.pc = "step", !.state = run[r].state]]
        /\ UNCHANGED <<item, done, created, committed, notified, mailed, lock, faults>>
  BY DEF Claim, Own, Oldest, Running
<1> DEFINE cutoff == IF run[r].status = "QUEUED" THEN created ELSE run[r].cutoff
           y == [Idle(r) EXCEPT !.pc = "step", !.state = run[r].state]
<1>2. /\ run[r] \in [state : RunStates, status : {"NONE"} \cup Active \cup Terminal,
                     cutoff : 0..NumMails, grace : BOOLEAN]
      /\ run \in RunTable /\ created \in Nat /\ \A q \in Runs : RunOK(q)
  BY Tables DEF RunTable, IInv, RuleRunTypeOK, CoverInv
<1>3. /\ run'[r].status = "RUNNING" /\ run'[r].cutoff = cutoff
      /\ run'[r].state = run[r].state /\ run'[r].grace = run[r].grace
      /\ \A q \in Runs : q # r => run'[q] = run[q]
  BY <1>1, <1>2 DEF RunTable
<1>4. DoneKept
  BY <1>1 DEF DoneKept
<1>5. Certified(done[r], cutoff, run[r].state)
  <2>1. CASE run[r].status = "QUEUED"
    <3>1. run[r].state.phase = "SCAN" /\ run[r].state.cursor = 0
      BY <1>2, <2>1 DEF RunOK, Waiting, Blank
    <3>2. cutoff \in Nat
      BY <1>2, <2>1
    <3>. QED BY <3>1, <3>2 DEF Certified, Covers
  <2>2. CASE run[r].status # "QUEUED"
    BY <1>2, <2>2 DEF RunOK
  <2>. QED BY <2>1, <2>2
<1>6. RunOK(r)'
  <2>1. run[r].grace => run[r].status # "QUEUED" /\ 1..run[r].cutoff \subseteq committed
    BY <1>2 DEF RunOK, Waiting
  <2>2. cutoff <= created
    BY <1>2 DEF RunOK
  <2>. QED BY <1>1, <1>3, <1>5, <2>1, <2>2 DEF RunOK, Waiting
<1>7. \A q \in Runs : RunOK(q)'
  BY <1>1, <1>2, <1>3, <1>4, <1>6, RunStays
<1>8. y \in WorkerStates /\ y.pc = "step" /\ y.run = r /\ y.state = run[r].state
  BY <1>2, Constants DEF Idle, WorkerStates, Points, Locked, AtMail
<1>9. PICK z \in WorkerStates : z = y
  BY <1>8
<1>10. TickOK(z)'
  BY <1>1, <1>3, <1>5, <1>8, <1>9 DEF TickOK, PageOK, AtMail, Locked, Waiting
<1>11. \A q \in Runs : run[q].status \notin Waiting =>
         run'[q].status \notin Waiting /\ run'[q].cutoff = run[q].cutoff
  BY <1>3 DEF Waiting
<1>12. worker' = [worker EXCEPT ![w] = z]
  BY <1>1, <1>9
<1>. QED BY <1>1, <1>4, <1>7, <1>10, <1>11, <1>12, WorkerMoves

\* Mails arrive in order, and none is left behind by Window others.
LEMMA SystemCovers ==
    ASSUME IInv, CoverInv,
           \/ Arrive
           \/ \E m \in Mails : Commit(m)
           \/ \E r \in Runs : Queue(r) \/ GracePasses(r)
           \/ UNCHANGED vars
    PROVE  CoverInv'
<1>1. created \in Nat /\ \A r \in Runs : RunOK(r)
  BY DEF IInv, RuleRunTypeOK, CoverInv
<1>2. /\ UNCHANGED <<done, worker>> /\ DoneKept
      /\ created' \in Nat /\ created <= created' /\ committed \subseteq committed'
  BY <1>1 DEF Arrive, Commit, Queue, GracePasses, vars, DoneKept
<1>3. WindowHolds'
  <2>1. CASE Arrive
    BY <1>1, <2>1, Constants DEF Arrive, WindowHolds
  <2>2. CASE ~Arrive
    BY <1>2, <2>2 DEF Commit, Queue, GracePasses, vars, WindowHolds, CoverInv
  <2>. QED BY <2>1, <2>2
<1>4. ASSUME NEW r \in Runs PROVE RunOK(r)'
  <2>1. CASE run'[r] = run[r]
    BY <1>1, <1>2, <2>1, RunStays
  <2>2. CASE run'[r] # run[r]
    <3>1. /\ run[r] \in [state : RunStates, status : {"NONE"} \cup Active \cup Terminal,
                         cutoff : 0..NumMails, grace : BOOLEAN]
          /\ run \in RunTable
      BY Tables DEF RunTable
    <3>2. Queue(r) \/ GracePasses(r)
      BY <2>2, <3>1 DEF Arrive, Commit, Queue, GracePasses, vars, RunTable
    <3>3. CASE Queue(r)
      <4>1. /\ run'[r].status = "QUEUED" /\ run'[r].state = run[r].state
            /\ run'[r].cutoff = run[r].cutoff /\ run'[r].grace = run[r].grace
            /\ run[r].status = "NONE" /\ UNCHANGED <<created, committed>>
        BY <3>1, <3>3 DEF Queue, RunTable
      <4>. QED BY <1>1, <1>2, <4>1 DEF RunOK, Waiting
    <3>4. CASE GracePasses(r)
      <4>1. /\ run'[r].status = run[r].status /\ run'[r].state = run[r].state
            /\ run'[r].cutoff = run[r].cutoff /\ run'[r].grace
            /\ run[r].status \notin Waiting /\ 1..run[r].cutoff \subseteq committed
            /\ UNCHANGED <<created, committed>>
        BY <3>1, <3>4 DEF GracePasses, RunTable, Waiting
      <4>. QED BY <1>1, <1>2, <4>1 DEF RunOK
    <3>. QED BY <3>2, <3>3, <3>4
  <2>. QED BY <2>1, <2>2
<1>5. \A r \in Runs : run[r].status \notin Waiting =>
        run'[r].status \notin Waiting /\ run'[r].cutoff = run[r].cutoff
  <2>1. \A r \in Runs :
          run[r] \in [state : RunStates, status : {"NONE"} \cup Active \cup Terminal,
                      cutoff : 0..NumMails, grace : BOOLEAN]
    BY Tables DEF RunTable
  <2>. QED BY <2>1, Tables DEF Arrive, Commit, Queue, GracePasses, vars, RunTable, Waiting
<1>6. ASSUME NEW w \in Workers PROVE TickOK(worker[w])'
  <2>1. PICK z \in WorkerStates : z = worker[w]
    BY TypedWorker DEF IInv
  <2>2. Placed(z) /\ TickOK(z) /\ worker'[w] = z
    BY <1>2, <2>1 DEF IInv, WorkerOK, CoverInv
  <2>3. TickOK(z)'
    BY <1>2, <1>5, <2>2, TickStays
  <2>. QED BY <2>2, <2>3 DEF TickOK
<1>. QED BY <1>3, <1>4, <1>6 DEF CoverInv

LEMMA CoverInit == Init => CoverInv
<1>. SUFFICES ASSUME Init PROVE CoverInv
  OBVIOUS
<1>1. WindowHolds /\ created \in Nat
  BY Constants DEF Init, WindowHolds
<1>2. ASSUME NEW r \in Runs PROVE RunOK(r)
  BY <1>1 DEF Init, NewRun, Blank, RunOK, Certified, Waiting
<1>3. ASSUME NEW w \in Workers PROVE TickOK(worker[w])
  BY DEF Init, Idle, TickOK
<1>. QED BY <1>1, <1>2, <1>3 DEF CoverInv

LEMMA CoverStep == IInv /\ CoverInv /\ [Next]_vars => CoverInv'
<1>. SUFFICES ASSUME IInv, CoverInv, [Next]_vars PROVE CoverInv'
  OBVIOUS
<1>1. ASSUME NEW w \in Workers, Work(w) PROVE CoverInv'
  BY <1>1, ClaimCovers, FetchCovers, PagingCovers, PassOverCovers, RowStepCovers, MailStepCovers
     DEF Work
<1>2. ASSUME NEW w \in Workers, Cancel(w) \/ InfraFailure(w) \/ Escaped(w) \/ Crash(w) PROVE CoverInv'
  BY <1>2, PagingCovers, MailStepCovers, LeaveCovers
<1>. QED BY <1>1, <1>2, SystemCovers DEF Next

\* A worker of a completed run was through with every mail up to its cutoff, with
\* an item or without, whatever was committed behind the cursor of its scan, and
\* however often its workers died, failed, took the run from each other or wrote
\* their cursors over each other's.
THEOREM CompletedRunMissesNothingHolds == Spec => []CompletedRunMissesNothing
<1>1. Init => IInv /\ CoverInv
  BY RuleRunInit, CoverInit
<1>2. IInv /\ CoverInv /\ [Next]_vars => IInv' /\ CoverInv'
  BY RuleRunStep, CoverStep
<1>3. CoverInv => CompletedRunMissesNothing
  BY DEF CoverInv, RunOK, CompletedRunMissesNothing
<1>. QED BY <1>1, <1>2, <1>3, PTL DEF Spec

---------------------------------------------------------------------------
(* Steps that forward nothing                                              *)

Quiet == {"idle", "step", "row", "prior", "orphan"}

\* A worker that claims, pages, waits, goes on to a row or leaves the run.
LEMMA QuietSteps ==
    ASSUME IInv, NEW w \in Workers,
           \/ Claim(w) \/ FetchPage(w) \/ ScanDone(w) \/ EndPage(w) \/ WaitForGrace(w)
           \/ Complete(w) \/ Cancel(w) \/ Capped(w) \/ ProcessRow(w)
    PROVE  /\ worker[w].pc \in Quiet
           /\ \E y : worker' = [worker EXCEPT ![w] = y] /\ y.pc \in Quiet
           /\ UNCHANGED <<item, mailed, notified, lock>>
<1>0. PICK x : x = worker[w]
  OBVIOUS
<1>1. x \in WorkerStates
  BY <1>0 DEF IInv, RuleRunTypeOK, WorkerStates
<1>2. \A r : Idle(r).pc = "idle"
  BY DEF Idle
<1>3. \A r, st : [Idle(r) EXCEPT !.pc = "step", !.state = st].pc = "step"
  BY DEF Idle
<1>4. CASE Claim(w)
  <2>1. PICK r : worker' = [worker EXCEPT ![w] =
                    [Idle(r) EXCEPT !.pc = "step", !.state = run[r].state]]
    BY <1>4 DEF Claim
  <2>2. [Idle(r) EXCEPT !.pc = "step", !.state = run[r].state].pc \in Quiet
    BY <1>3 DEF Quiet
  <2> QED BY <1>4, <2>1, <2>2 DEF Claim, Quiet
<1>5. CASE FetchPage(w)
  <2>1. PICK last : worker' = [worker EXCEPT ![w] =
                       [x EXCEPT !.pc = "row", !.todo = Page(w), !.last = last]]
    BY <1>0, <1>5 DEF FetchPage
  <2>2. [x EXCEPT !.pc = "row", !.todo = Page(w), !.last = last].pc \in Quiet
    BY <1>1 DEF WorkerStates, Quiet
  <2> QED BY <1>5, <2>1, <2>2 DEF FetchPage, MayFetch, Quiet
<1>6. ASSUME NEW st, Persist(w, st), worker[w].pc \in Quiet
      PROVE  /\ \E y : worker' = [worker EXCEPT ![w] = y] /\ y.pc \in Quiet
             /\ UNCHANGED <<item, mailed, notified, lock>>
  <2>1. \/ worker' = [worker EXCEPT ![w] = [Idle(x.run) EXCEPT !.pc = "step", !.state = st]]
        \/ worker' = [worker EXCEPT ![w] = Idle(x.run)]
    BY <1>0, <1>6 DEF Persist
  <2>2. Idle(x.run).pc \in Quiet /\ [Idle(x.run) EXCEPT !.pc = "step", !.state = st].pc \in Quiet
    BY <1>2, <1>3 DEF Quiet
  <2>3. UNCHANGED <<item, mailed, notified, lock>>
    BY <1>6 DEF Persist
  <2> QED BY <2>1, <2>2, <2>3
<1>7. CASE ScanDone(w) \/ EndPage(w)
  <2>1. worker[w].pc \in Quiet
    BY <1>7 DEF ScanDone, EndPage, MayFetch, Quiet
  <2>2. \E st : Persist(w, st)
    BY <1>7 DEF ScanDone, EndPage
  <2> QED BY <1>6, <2>1, <2>2
<1>8. CASE WaitForGrace(w)
  <2>1. worker' = [worker EXCEPT ![w] = Idle(x.run)]
    BY <1>0, <1>8 DEF WaitForGrace
  <2>2. Idle(x.run).pc \in Quiet
    BY <1>2 DEF Quiet
  <2> QED BY <1>8, <2>1, <2>2 DEF WaitForGrace, Quiet
<1>9. CASE Complete(w) \/ Cancel(w) \/ Capped(w)
  <2>1. worker' = [worker EXCEPT ![w] = Idle(0)]
    BY <1>9 DEF Complete, Cancel, Capped, Finish
  <2>2. Idle(0).pc \in Quiet
    BY <1>2 DEF Quiet
  <2>3. worker[w].pc \in Quiet
    BY <1>9 DEF Complete, Cancel, Capped, MayFetch, Quiet
  <2> QED BY <1>9, <2>1, <2>2, <2>3 DEF Complete, Cancel, Capped
<1>10. CASE ProcessRow(w)
  <2>1. PICK m, next : /\ next = AfterRow(item[x.run][m])
                       /\ worker' = [worker EXCEPT ![w] =
                            [x EXCEPT !.pc = next, !.todo = x.todo \ {m},
                                      !.mail = IF next = "row" THEN 0 ELSE m]]
    BY <1>0, <1>10 DEF ProcessRow
  <2>2. next \in Quiet
    BY <2>1 DEF AfterRow, Quiet
  <2>3. [x EXCEPT !.pc = next, !.todo = x.todo \ {m},
                  !.mail = IF next = "row" THEN 0 ELSE m].pc = next
    BY <1>1 DEF WorkerStates
  <2> QED BY <1>10, <2>1, <2>2, <2>3 DEF ProcessRow, Quiet
<1> QED BY <1>4, <1>5, <1>7, <1>8, <1>9, <1>10

---------------------------------------------------------------------------
(* A second e-mail                                                         *)

\* Two processes break NoSecondForward: one sends between the other's check of
\* earlier runs and its lock.  One process cannot, whatever it suffers.
OneProcess == \A v, w \in Workers : v = w

AtSend == {"lock", "sending", "sent"}

\* What the only worker found out about earlier runs is still so.
FoundHolds(x) ==
    /\ x.pc = "lock" => ~PriorUnresolved(x.mail)
    /\ x.pc \in {"sending", "sent"} =>
         \A q \in Runs : q # x.run => mailed[q][x.mail] = 0

SecondInv == NoSecondForward /\ \A w \in Workers : FoundHolds(worker[w])

\* Steps that do not send and leave the worker elsewhere.
LEMMA ElsewhereKeeps ==
    ASSUME OneProcess, SecondInv, mailed' = mailed, NEW w \in Workers,
           worker'[w].pc \notin AtSend
    PROVE  SecondInv'
<1>1. NoSecondForward'
  BY DEF SecondInv, NoSecondForward
<1>2. ASSUME NEW v \in Workers PROVE FoundHolds(worker[v])'
  <2>1. worker'[v].pc \notin AtSend
    BY DEF OneProcess
  <2> QED BY <2>1 DEF FoundHolds, AtSend
<1> QED BY <1>1, <1>2 DEF SecondInv

LEMMA WorkForwardsOnce ==
    ASSUME OneProcess, IInv, SecondInv, NEW w \in Workers,
           Work(w) \/ Cancel(w) \/ InfraFailure(w) \/ Escaped(w) \/ Crash(w)
    PROVE  SecondInv'
<1>0. PICK x : x = worker[w]
  OBVIOUS
<1>1. x \in WorkerStates /\ worker \in [Workers -> WorkerStates]
  BY <1>0 DEF IInv, RuleRunTypeOK, WorkerStates
<1>2. x.pc \in AtMail => x.mail \in Mails /\ x.run \in Runs
  <2>1. committed \subseteq Mails
    BY Tables
  <2>2. Placed(x)
    BY <1>0 DEF IInv, WorkerOK
  <2> QED BY <2>1, <2>2 DEF Placed, AtMail, Locked
<1>3. CASE CheckPrior(w) /\ worker'[w].pc = "lock"
  <2>1. ~PriorUnresolved(x.mail) /\ item' = item /\ mailed' = mailed
        /\ worker' = [worker EXCEPT ![w] = [x EXCEPT !.pc = "lock"]]
    <3>1. CASE worker' = [worker EXCEPT ![w] = [@ EXCEPT !.pc = "row", !.mail = 0]]
      BY <1>0, <1>1, <1>3, <3>1 DEF WorkerStates
    <3>2. CASE ~(worker' = [worker EXCEPT ![w] = [@ EXCEPT !.pc = "row", !.mail = 0]])
      BY <1>0, <1>3, <3>2 DEF CheckPrior, NextRow
    <3> QED BY <3>1, <3>2
  <2>2. worker'[w] = [x EXCEPT !.pc = "lock"]
    BY <1>1, <2>1
  <2>3. worker'[w].pc = "lock" /\ worker'[w].mail = x.mail
    BY <1>1, <2>2 DEF WorkerStates
  <2>4. ASSUME NEW v \in Workers PROVE FoundHolds(worker[v])'
    <3>1. v = w
      BY DEF OneProcess
    <3>2. worker'[v].pc = "lock" /\ worker'[v].mail = x.mail
      BY <2>3, <3>1
    <3> QED BY <2>1, <3>2 DEF FoundHolds, PriorUnresolved
  <2> QED BY <2>1, <2>4 DEF SecondInv, NoSecondForward
<1>4. CASE MarkSending(w)
  <2>1. /\ x.pc = "lock" /\ x.mail \notin notified /\ mailed' = mailed
        /\ worker' = [worker EXCEPT ![w] = [x EXCEPT !.pc = "sending"]]
    BY <1>0, <1>4 DEF MarkSending, MayMark
  <2>2. x.mail \in Mails /\ \A q \in Runs : item[q][x.mail] \notin Unresolved
    BY <1>0, <1>2, <2>1 DEF AtMail, SecondInv, FoundHolds, PriorUnresolved
  <2>3. ASSUME NEW q \in Runs PROVE mailed[q][x.mail] = 0
    <3>1. item[q][x.mail] \in {"none", "sent", "unsent"}
      BY <2>2 DEF IInv, RuleRunTypeOK, ItemStates
    <3> QED BY <2>1, <2>2, <3>1 DEF IInv, RecordOK
  <2>4. worker'[w] = [x EXCEPT !.pc = "sending"]
    BY <1>1, <2>1
  <2>5. worker'[w].pc = "sending" /\ worker'[w].mail = x.mail
    BY <1>1, <2>4 DEF WorkerStates
  <2>6. ASSUME NEW v \in Workers PROVE FoundHolds(worker[v])'
    <3>1. v = w
      BY DEF OneProcess
    <3>2. worker'[v].pc = "sending" /\ worker'[v].mail = x.mail
      BY <2>5, <3>1
    <3> QED BY <2>1, <2>3, <3>2 DEF FoundHolds
  <2> QED BY <2>1, <2>6 DEF SecondInv, NoSecondForward
<1>5. CASE Send(w) /\ worker'[w].pc = "sent"
  <2>1. /\ x.pc = "sending" /\ mailed' = [mailed EXCEPT ![x.run][x.mail] = @ + 1]
        /\ worker' = [worker EXCEPT ![w] = [x EXCEPT !.pc = "sent"]]
    BY <1>0, <1>1, <1>5 DEF Send, WorkerStates
  <2>2. x.mail \in Mails /\ x.run \in Runs
        /\ \A q \in Runs : q # x.run => mailed[q][x.mail] = 0
    BY <1>0, <1>2, <2>1 DEF AtMail, Locked, SecondInv, FoundHolds
  <2>3. mailed \in [Runs -> [Mails -> Nat]]
    BY DEF IInv, RuleRunTypeOK
  <2>4. \A q \in Runs, m \in Mails :
          (q # x.run \/ m # x.mail) => mailed'[q][m] = mailed[q][m]
    BY <2>1, <2>2, <2>3
  <2>5. worker'[w] = [x EXCEPT !.pc = "sent"]
    BY <1>1, <2>1
  <2>6. worker'[w].pc = "sent" /\ worker'[w].mail = x.mail /\ worker'[w].run = x.run
    BY <1>1, <2>5 DEF WorkerStates
  <2>7. ASSUME NEW v \in Workers PROVE FoundHolds(worker[v])'
    <3>1. v = w
      BY DEF OneProcess
    <3>2. worker'[v].pc = "sent" /\ worker'[v].mail = x.mail /\ worker'[v].run = x.run
      BY <2>6, <3>1
    <3>3. \A q \in Runs : q # x.run => mailed'[q][x.mail] = 0
      BY <2>2, <2>4
    <3> QED BY <3>2, <3>3 DEF FoundHolds
  <2>8. NoSecondForward'
    <3> SUFFICES ASSUME NEW m \in Mails, NEW q \in Runs, NEW r \in Runs,
                        mailed'[q][m] > 0, mailed'[r][m] > 0
                 PROVE  q = r
      BY DEF NoSecondForward
    <3>1. CASE m = x.mail
      <4>1. \A n \in Runs : n # x.run => ~(mailed'[n][m] > 0)
        BY <2>2, <2>4, <3>1
      <4> QED BY <4>1
    <3>2. CASE m # x.mail
      BY <2>4, <3>2 DEF SecondInv, NoSecondForward
    <3> QED BY <3>1, <3>2
  <2> QED BY <2>7, <2>8 DEF SecondInv
<1>6. CASE worker'[w].pc \notin AtSend /\ mailed' = mailed
  BY <1>6, ElsewhereKeeps
<1>7. CASE \/ Claim(w) \/ FetchPage(w) \/ ScanDone(w) \/ EndPage(w) \/ WaitForGrace(w)
           \/ Complete(w) \/ Cancel(w) \/ Capped(w) \/ ProcessRow(w)
  <2>1. PICK y : worker' = [worker EXCEPT ![w] = y] /\ y.pc \in Quiet
    BY <1>7, QuietSteps
  <2>2. worker'[w] = y
    BY <1>1, <2>1
  <2> QED BY <1>6, <1>7, <2>1, <2>2, QuietSteps DEF Quiet, AtSend
<1>8. ASSUME NextRow(w), mailed' = mailed PROVE SecondInv'
  <2>1. worker'[w] = [x EXCEPT !.pc = "row", !.mail = 0]
    BY <1>0, <1>1, <1>8 DEF NextRow
  <2>2. worker'[w].pc = "row"
    BY <1>1, <2>1 DEF WorkerStates
  <2> QED BY <1>6, <1>8, <2>2 DEF AtSend
<1>9. CASE Orphaned(w) \/ NotSent(w) \/ Unsettled(w) \/ Escaped(w)
  BY <1>8, <1>9 DEF Orphaned, NotSent, Unsettled, Escaped
<1>10. CASE CheckPrior(w)
  <2>1. worker'[w].pc = "lock" \/ NextRow(w)
    <3>1. NextRow(w) \/ worker' = [worker EXCEPT ![w] = [x EXCEPT !.pc = "lock"]]
      BY <1>0, <1>10 DEF CheckPrior
    <3>2. worker' = [worker EXCEPT ![w] = [x EXCEPT !.pc = "lock"]]
          => worker'[w] = [x EXCEPT !.pc = "lock"]
      BY <1>1
    <3>3. [x EXCEPT !.pc = "lock"].pc = "lock"
      BY <1>1 DEF WorkerStates
    <3> QED BY <3>1, <3>2, <3>3
  <2> QED BY <1>3, <1>8, <1>10, <2>1 DEF CheckPrior
<1>11. CASE Send(w)
  <2>1. \/ worker' = [worker EXCEPT ![w] = [x EXCEPT !.pc = "sent"]]
        \/ (worker' = [worker EXCEPT ![w] = [x EXCEPT !.pc = "unsent"]] /\ mailed' = mailed)
    BY <1>0, <1>11 DEF Send
  <2>2. \/ worker'[w] = [x EXCEPT !.pc = "sent"]
        \/ (worker'[w] = [x EXCEPT !.pc = "unsent"] /\ mailed' = mailed)
    BY <1>1, <2>1
  <2>3. worker'[w].pc = "sent" \/ (worker'[w].pc = "unsent" /\ mailed' = mailed)
    BY <1>1, <2>2 DEF WorkerStates
  <2> QED BY <1>5, <1>6, <1>11, <2>3 DEF AtSend
<1>12. CASE Settle(w)
  <2>1. PICK st : worker' = [worker EXCEPT ![w] =
                     [x EXCEPT !.pc = "row", !.mail = 0, !.state = st]]
    BY <1>0, <1>12 DEF Settle
  <2>2. worker'[w] = [x EXCEPT !.pc = "row", !.mail = 0, !.state = st]
    BY <1>1, <2>1
  <2>3. worker'[w].pc = "row"
    BY <1>1, <2>2 DEF WorkerStates
  <2> QED BY <1>6, <1>12, <2>3 DEF Settle, AtSend
<1>13. CASE InfraFailure(w) \/ Crash(w)
  <2>1. \E r : worker' = [worker EXCEPT ![w] = Idle(r)]
    BY <1>13 DEF InfraFailure, Crash
  <2>2. \A r : Idle(r).pc = "idle"
    BY DEF Idle
  <2>3. worker'[w].pc = "idle"
    BY <1>1, <2>1, <2>2
  <2> QED BY <1>6, <1>13, <2>3 DEF InfraFailure, Crash, AtSend
<1>14. CASE PassOver(w)
  <2>1. PICK m : worker' = [worker EXCEPT ![w] = [x EXCEPT !.todo = x.todo \ {m}]]
    BY <1>0, <1>14 DEF PassOver
  <2>2. worker'[w] = [x EXCEPT !.todo = x.todo \ {m}] /\ x.pc = "row"
    BY <1>0, <1>1, <1>14, <2>1 DEF PassOver
  <2>3. worker'[w].pc = "row"
    BY <1>1, <2>2 DEF WorkerStates
  <2> QED BY <1>6, <1>14, <2>3 DEF PassOver, AtSend
<1> QED
  BY <1>4, <1>7, <1>9, <1>10, <1>11, <1>12, <1>13, <1>14 DEF Work

LEMMA SystemForwardsNothing ==
    ASSUME SecondInv, UNCHANGED <<item, mailed, worker>> PROVE SecondInv'
BY DEF SecondInv, NoSecondForward, FoundHolds, PriorUnresolved

\* The docstring of RuleRunItem is right for one process, through all its crashes
\* and failures: no mail goes out twice, whichever runs and rules forward it.
THEOREM NoSecondForwardOfOneProcess ==
    ASSUME OneProcess PROVE Spec => []NoSecondForward
<1>1. Init => SecondInv
  BY DEF Init, SecondInv, NoSecondForward, FoundHolds, Idle
<1>2. IInv /\ SecondInv /\ [Next]_vars => SecondInv'
  <2> SUFFICES ASSUME IInv, SecondInv, [Next]_vars PROVE SecondInv'
    OBVIOUS
  <2>1. CASE Arrive \/ (\E m \in Mails : Commit(m)) \/ \E r \in Runs : Queue(r) \/ GracePasses(r)
    BY <2>1, SystemForwardsNothing DEF Arrive, Commit, Queue, GracePasses
  <2>2. ASSUME NEW w \in Workers, Work(w) \/ Cancel(w) \/ InfraFailure(w) \/ Escaped(w) \/ Crash(w)
        PROVE  SecondInv'
    BY <2>2, WorkForwardsOnce
  <2>3. CASE UNCHANGED vars
    BY <2>3, SystemForwardsNothing DEF vars
  <2> QED BY <2>1, <2>2, <2>3 DEF Next
<1>3. SecondInv => NoSecondForward
  BY DEF SecondInv
<1> QED BY <1>1, <1>2, <1>3, RuleRunInvariance, PTL DEF Spec
---------------------------------------------------------------------------
(* The ledger of forwards                                                  *)

\* The forwards under way in a table f of workers.
Pairs(f) == {<<f[w].run, f[w].mail>> : w \in {v \in Workers : f[v].pc \in Locked}}

Forwards(f, v, p) == f[v].pc \in Locked /\ p = <<f[v].run, f[v].mail>>

LEMMA PairsIn ==
    ASSUME NEW f, NEW p
    PROVE  p \in Pairs(f) <=> \E v \in Workers : Forwards(f, v, p)
BY DEF Pairs, Forwards

LEMMA PairsOfTable == Underway = Pairs(worker) /\ Underway' = Pairs(worker')
BY DEF Underway, Pairs

\* A worker that stays outside the lock, or under it, changes none.
LEMMA PairsKept ==
    ASSUME NEW f \in [Workers -> WorkerStates], NEW w \in Workers, NEW y, NEW g,
           g = [f EXCEPT ![w] = y],
           \/ f[w].pc \notin Locked /\ y.pc \notin Locked
           \/ f[w].pc \in Locked /\ y.pc \in Locked /\ y.run = f[w].run /\ y.mail = f[w].mail
    PROVE  Pairs(g) = Pairs(f)
<1>1. ASSUME NEW v \in Workers, NEW p PROVE Forwards(g, v, p) <=> Forwards(f, v, p)
  <2>1. CASE v = w
    <3>1. g[v] = y
      BY <2>1
    <3> QED BY <2>1, <3>1 DEF Forwards
  <2>2. CASE v # w
    <3>1. g[v] = f[v]
      BY <2>2
    <3> QED BY <3>1 DEF Forwards
  <2> QED BY <2>1, <2>2
<1>2. ASSUME NEW p PROVE p \in Pairs(g) <=> p \in Pairs(f)
  BY <1>1, PairsIn
<1> QED BY <1>2

LEMMA PairsOpened ==
    ASSUME NEW f \in [Workers -> WorkerStates], NEW w \in Workers, NEW y, NEW g,
           g = [f EXCEPT ![w] = y], f[w].pc \notin Locked, y.pc \in Locked
    PROVE  Pairs(g) = Pairs(f) \cup {<<y.run, y.mail>>}
<1>1. g[w] = y /\ \A v \in Workers : v # w => g[v] = f[v]
  OBVIOUS
<1>2. ASSUME NEW p PROVE p \in Pairs(g) <=> p \in Pairs(f) \/ p = <<y.run, y.mail>>
  <2>1. ASSUME NEW v \in Workers, v # w PROVE Forwards(g, v, p) <=> Forwards(f, v, p)
    BY <1>1, <2>1 DEF Forwards
  <2>2. ~Forwards(f, w, p) /\ (Forwards(g, w, p) <=> p = <<y.run, y.mail>>)
    BY <1>1 DEF Forwards
  <2> QED BY <2>1, <2>2, PairsIn
<1> QED BY <1>2

LEMMA PairsEnded ==
    ASSUME NEW f \in [Workers -> WorkerStates], NEW w \in Workers, NEW y, NEW g,
           g = [f EXCEPT ![w] = y], f[w].pc \in Locked, y.pc \notin Locked,
           \A v \in Workers : v # w /\ f[v].pc \in Locked => f[v].mail # f[w].mail
    PROVE  Pairs(g) = Pairs(f) \ {<<f[w].run, f[w].mail>>}
<1>1. g[w] = y /\ \A v \in Workers : v # w => g[v] = f[v]
  OBVIOUS
<1>2. ASSUME NEW v \in Workers, v # w, f[v].pc \in Locked
      PROVE  <<f[v].run, f[v].mail>> # <<f[w].run, f[w].mail>>
  BY <1>2
<1>3. ASSUME NEW p
      PROVE  p \in Pairs(g) <=> p \in Pairs(f) /\ p # <<f[w].run, f[w].mail>>
  <2>1. ASSUME NEW v \in Workers, v # w
        PROVE  /\ Forwards(g, v, p) <=> Forwards(f, v, p)
               /\ Forwards(f, v, p) => p # <<f[w].run, f[w].mail>>
    BY <1>1, <1>2, <2>1 DEF Forwards
  <2>2. ~Forwards(g, w, p) /\ (Forwards(f, w, p) <=> p = <<f[w].run, f[w].mail>>)
    BY <1>1 DEF Forwards
  <2> QED BY <2>1, <2>2, PairsIn
<1> QED BY <1>3

\* No run has a record of a mail whose transaction is open.
ItemsAreCommitted == \A r \in Runs, m \in Mails : item[r][m] # "none" => m \in committed

\* What the worker under the lock of a mail knows, in terms of the ledger.
LEMMA LockedKnows ==
    ASSUME IInv, NEW w \in Workers, worker[w].pc \in Locked, NEW x, x = worker[w]
    PROVE  /\ x.run \in Runs /\ x.mail \in Mails /\ x.mail \in committed
           /\ x.mail \notin notified /\ item[x.run][x.mail] # "none"
           /\ mailed[x.run][x.mail] = IF x.pc = "sent" THEN 1 ELSE 0
           /\ <<x.run, x.mail>> \in Underway
           /\ \A v \in Workers : v # w /\ worker[v].pc \in Locked => worker[v].mail # x.mail
<1>1. Placed(x) /\ Holds(w, x)
  BY DEF IInv, WorkerOK
<1>2. x.pc # "idle" /\ x.pc \in AtMail
  BY DEF Locked, AtMail
<1>3. x.run \in Runs /\ x.mail \in committed /\ committed \subseteq Mails
  BY <1>1, <1>2, Tables DEF Placed
<1>4. <<x.run, x.mail>> \in Underway
  BY PairsIn, PairsOfTable DEF Forwards
<1>5. ASSUME NEW v \in Workers, v # w, worker[v].pc \in Locked PROVE worker[v].mail # x.mail
  BY <1>1, <1>5, LockExcludes DEF Holds
<1> QED BY <1>1, <1>3, <1>4, <1>5 DEF Holds, Unresolved

LedgerStep == [Ledger!Next]_(Ledger!ledger)

\* A record that may not exist yet is written as a refusal.
LEMMA RecordedStep ==
    ASSUME IInv, NEW r \in Runs, NEW m \in Mails, item' = Recorded(r, m, "unsent"),
           UNCHANGED <<mailed, notified>>, Underway' = Underway
    PROVE  LedgerStep
<1>1. CASE item[r][m] = "none"
  <2>1. Ledger!Decline(r, m)
    BY <1>1 DEF Recorded, Ledger!Decline
  <2> QED BY <2>1 DEF LedgerStep, Ledger!Next
<1>2. CASE item[r][m] # "none"
  BY <1>2 DEF Recorded, LedgerStep, Ledger!ledger
<1> QED BY <1>1, <1>2

\* A forward ends without a word, or with UNKNOWN.
LEMMA AbandonStep ==
    ASSUME IInv, NEW w \in Workers, NEW x, x = worker[w], x.pc \in Locked,
           NEW y, y.pc \notin Locked, worker' = [worker EXCEPT ![w] = y],
           item' = item \/ item' = [item EXCEPT ![x.run][x.mail] = "unknown"],
           UNCHANGED <<mailed, notified>>
    PROVE  LedgerStep
<1>1. /\ x.run \in Runs /\ x.mail \in Mails /\ <<x.run, x.mail>> \in Underway
      /\ \A v \in Workers : v # w /\ worker[v].pc \in Locked => worker[v].mail # worker[w].mail
  BY LockedKnows
<1>2. Underway' = Underway \ {<<x.run, x.mail>>}
  <2>1. worker \in [Workers -> WorkerStates]
    BY DEF IInv, RuleRunTypeOK, WorkerStates
  <2> QED BY <1>1, <2>1, PairsEnded, PairsOfTable
<1>3. Ledger!Abandon(x.run, x.mail)
  BY <1>1, <1>2 DEF Ledger!Abandon
<1> QED BY <1>1, <1>3 DEF LedgerStep, Ledger!Next

LEMMA WorkIsLedgerStep ==
    ASSUME IInv, NEW w \in Workers, Work(w) \/ Cancel(w) \/ InfraFailure(w) \/ Escaped(w) \/ Crash(w)
    PROVE  LedgerStep
<1>0. PICK x : x = worker[w]
  OBVIOUS
<1>1. x \in WorkerStates /\ worker \in [Workers -> WorkerStates]
  BY <1>0 DEF IInv, RuleRunTypeOK, WorkerStates
<1>2. x.pc \in AtMail => x.mail \in Mails /\ x.run \in Runs
  <2>1. committed \subseteq Mails
    BY Tables
  <2>2. Placed(x)
    BY <1>0 DEF IInv, WorkerOK
  <2> QED BY <2>1, <2>2 DEF Placed, AtMail, Locked
\* Steps that leave items, e-mails and notifications alone.
<1>3. ASSUME UNCHANGED <<item, mailed, notified>>, NEW y, worker' = [worker EXCEPT ![w] = y],
             \/ x.pc \notin Locked /\ y.pc \notin Locked
             \/ x.pc \in Locked /\ y.pc \in Locked /\ y.run = x.run /\ y.mail = x.mail
      PROVE  LedgerStep
  <2>1. Underway' = Underway
    BY <1>0, <1>1, <1>3, PairsKept, PairsOfTable
  <2> QED BY <1>3, <2>1 DEF LedgerStep, Ledger!ledger
<1>4. CASE \/ Claim(w) \/ FetchPage(w) \/ ScanDone(w) \/ EndPage(w) \/ WaitForGrace(w)
           \/ Complete(w) \/ Cancel(w) \/ Capped(w) \/ ProcessRow(w)
  <2>1. PICK y : worker' = [worker EXCEPT ![w] = y] /\ y.pc \in Quiet
    BY <1>4, QuietSteps
  <2>2. x.pc \notin Locked /\ y.pc \notin Locked
    BY <1>0, <1>4, <2>1, QuietSteps DEF Quiet, Locked
  <2> QED BY <1>3, <1>4, <2>1, <2>2, QuietSteps
<1>5. ASSUME NextRow(w)
      PROVE  \E y : worker' = [worker EXCEPT ![w] = y] /\ y.pc \notin Locked
  <2>1. worker' = [worker EXCEPT ![w] = [x EXCEPT !.pc = "row", !.mail = 0]]
    BY <1>0, <1>5 DEF NextRow
  <2>2. [x EXCEPT !.pc = "row", !.mail = 0].pc \notin Locked
    BY <1>1 DEF WorkerStates, Locked
  <2> QED BY <2>1, <2>2
<1>6. ASSUME x.pc \notin Locked, NextRow(w) PROVE Underway' = Underway
  BY <1>0, <1>1, <1>5, <1>6, PairsKept, PairsOfTable
<1>7. CASE Orphaned(w)
  <2>1. /\ x.pc = "orphan" /\ item' = [item EXCEPT ![x.run][x.mail] = "unknown"]
        /\ NextRow(w) /\ UNCHANGED <<mailed, notified>>
    BY <1>0, <1>7 DEF Orphaned
  <2>2. x.run \in Runs /\ x.mail \in Mails /\ item[x.run][x.mail] # "none"
    <3>1. Placed(x)
      BY <1>0 DEF IInv, WorkerOK
    <3> QED BY <1>2, <2>1, <3>1 DEF Placed, AtMail
  <2>3. Underway' = Underway
    BY <1>6, <2>1 DEF Locked
  <2>4. Ledger!Doubt(x.run, x.mail)
    BY <2>1, <2>2, <2>3 DEF Ledger!Doubt
  <2> QED BY <2>2, <2>4 DEF LedgerStep, Ledger!Next
<1>8. CASE NotSent(w)
  <2>1. /\ x.pc = "lock" /\ item' = Recorded(x.run, x.mail, "unsent")
        /\ NextRow(w) /\ UNCHANGED <<mailed, notified>>
    BY <1>0, <1>8 DEF NotSent
  <2>2. x.run \in Runs /\ x.mail \in Mails /\ Underway' = Underway
    BY <1>2, <1>6, <2>1 DEF Locked, AtMail
  <2> QED BY <2>1, <2>2, RecordedStep
<1>9. CASE CheckPrior(w)
  <2>1. x.pc = "prior" /\ UNCHANGED <<mailed, notified>>
    BY <1>0, <1>9 DEF CheckPrior
  <2>2. CASE item' = Recorded(x.run, x.mail, "unsent") /\ NextRow(w)
    <3>1. x.run \in Runs /\ x.mail \in Mails /\ Underway' = Underway
      BY <1>2, <1>6, <2>1, <2>2 DEF Locked, AtMail
    <3> QED BY <2>1, <2>2, <3>1, RecordedStep
  <2>3. CASE worker' = [worker EXCEPT ![w] = [x EXCEPT !.pc = "lock"]] /\ item' = item
    <3>1. [x EXCEPT !.pc = "lock"].pc \notin Locked
      BY <1>1 DEF WorkerStates, Locked
    <3> QED BY <1>3, <2>1, <2>3, <3>1 DEF Locked
  <2> QED BY <1>0, <1>9, <2>2, <2>3 DEF CheckPrior
<1>10. CASE MarkSending(w)
  <2>1. /\ x.pc = "lock" /\ lock[x.mail] = NoWorker
        /\ x.mail \notin notified /\ item[x.run][x.mail] = "none"
        /\ item' = [item EXCEPT ![x.run][x.mail] = "sending"]
        /\ worker' = [worker EXCEPT ![w] = [x EXCEPT !.pc = "sending"]]
        /\ UNCHANGED <<mailed, notified>>
    BY <1>0, <1>10 DEF MarkSending, MayMark, LockFree
  <2>2. x.run \in Runs /\ x.mail \in Mails
    BY <1>2, <2>1 DEF AtMail
  <2>3. /\ [x EXCEPT !.pc = "sending"].pc \in Locked
        /\ [x EXCEPT !.pc = "sending"].run = x.run /\ [x EXCEPT !.pc = "sending"].mail = x.mail
    BY <1>1 DEF WorkerStates, Locked
  <2>4. Underway' = Underway \cup {<<x.run, x.mail>>}
    <3>1. worker[w].pc \notin Locked
      BY <1>0, <2>1 DEF Locked
    <3>2. PICK y : y = [x EXCEPT !.pc = "sending"]
      OBVIOUS
    <3>3. worker' = [worker EXCEPT ![w] = y] /\ y.pc \in Locked /\ y.run = x.run /\ y.mail = x.mail
      BY <2>1, <2>3, <3>2
    <3>4. Pairs(worker') = Pairs(worker) \cup {<<y.run, y.mail>>}
      BY <1>1, <3>1, <3>3, PairsOpened
    <3> QED BY <3>3, <3>4, PairsOfTable
  <2>5. ASSUME NEW q \in Runs PROVE <<q, x.mail>> \notin Underway
    <3>1. ASSUME NEW v \in Workers, worker[v].pc \in Locked PROVE worker[v].mail # x.mail
      <4>1. lock[worker[v].mail] = v
        BY <3>1 DEF IInv, WorkerOK, Holds
      <4> QED BY <2>1, <4>1, Constants
    <3> QED BY <3>1, PairsIn, PairsOfTable DEF Forwards
  <2>6. Ledger!Intend(x.run, x.mail)
    BY <2>1, <2>4, <2>5 DEF Ledger!Intend
  <2> QED BY <2>2, <2>6 DEF LedgerStep, Ledger!Next
<1>11. CASE Send(w)
  <2>1. /\ x.pc = "sending" /\ UNCHANGED <<item, notified>>
        /\ \/ /\ mailed' = [mailed EXCEPT ![x.run][x.mail] = @ + 1]
              /\ worker' = [worker EXCEPT ![w] = [x EXCEPT !.pc = "sent"]]
           \/ /\ worker' = [worker EXCEPT ![w] = [x EXCEPT !.pc = "unsent"]]
              /\ mailed' = mailed
    BY <1>0, <1>11 DEF Send
  <2>2. ASSUME NEW pc \in {"sent", "unsent"}, NEW y, y = [x EXCEPT !.pc = pc]
        PROVE  x.pc \in Locked /\ y.pc \in Locked /\ y.run = x.run /\ y.mail = x.mail
    BY <1>1, <2>1, <2>2 DEF WorkerStates, Locked
  <2>3. CASE worker' = [worker EXCEPT ![w] = [x EXCEPT !.pc = "unsent"]] /\ mailed' = mailed
    BY <1>3, <2>1, <2>2, <2>3
  <2>4. CASE /\ mailed' = [mailed EXCEPT ![x.run][x.mail] = @ + 1]
             /\ worker' = [worker EXCEPT ![w] = [x EXCEPT !.pc = "sent"]]
    <3>1. Underway' = Underway
      <4>1. PICK y : y = [x EXCEPT !.pc = "sent"]
        OBVIOUS
      <4>2. /\ worker' = [worker EXCEPT ![w] = y]
            /\ x.pc \in Locked /\ y.pc \in Locked /\ y.run = x.run /\ y.mail = x.mail
        BY <2>2, <2>4, <4>1
      <4> QED BY <1>0, <1>1, <4>2, PairsKept, PairsOfTable
    <3>2. /\ x.run \in Runs /\ x.mail \in Mails /\ <<x.run, x.mail>> \in Underway
          /\ x.mail \notin notified /\ mailed[x.run][x.mail] = 0
      BY <1>0, <2>1, <2>2, LockedKnows
    <3>3. mailed' = [mailed EXCEPT ![x.run][x.mail] = 1]
      BY <2>4, <3>2
    <3>4. Ledger!Leave(x.run, x.mail)
      BY <2>1, <3>1, <3>2, <3>3 DEF Ledger!Leave
    <3> QED BY <3>2, <3>4 DEF LedgerStep, Ledger!Next
  <2> QED BY <2>1, <2>3, <2>4
<1>12. CASE Settle(w)
  <2>1. PICK st : worker' = [worker EXCEPT ![w] =
                     [x EXCEPT !.pc = "row", !.mail = 0, !.state = st]]
    BY <1>0, <1>12 DEF Settle
  <2>2. /\ x.pc \in {"sent", "unsent"} /\ mailed' = mailed
        /\ item' = [item EXCEPT ![x.run][x.mail] = x.pc]
        /\ notified' = IF x.pc = "sent" THEN notified \cup {x.mail} ELSE notified
    BY <1>0, <1>12 DEF Settle
  <2>3. [x EXCEPT !.pc = "row", !.mail = 0, !.state = st].pc \notin Locked
    BY <1>1 DEF WorkerStates, Locked
  <2>4. /\ x.run \in Runs /\ x.mail \in Mails /\ <<x.run, x.mail>> \in Underway
        /\ mailed[x.run][x.mail] = IF x.pc = "sent" THEN 1 ELSE 0
        /\ \A v \in Workers : v # w /\ worker[v].pc \in Locked => worker[v].mail # worker[w].mail
    BY <1>0, <2>2, LockedKnows DEF Locked
  <2>5. Underway' = Underway \ {<<x.run, x.mail>>}
    <3>1. PICK y : y = [x EXCEPT !.pc = "row", !.mail = 0, !.state = st]
      OBVIOUS
    <3>2. worker' = [worker EXCEPT ![w] = y] /\ worker[w].pc \in Locked /\ y.pc \notin Locked
      BY <1>0, <2>1, <2>2, <2>3, <3>1 DEF Locked
    <3>3. Pairs(worker') = Pairs(worker) \ {<<worker[w].run, worker[w].mail>>}
      BY <1>1, <2>4, <3>2, PairsEnded
    <3> QED BY <1>0, <3>3, PairsOfTable
  <2>6. Ledger!Conclude(x.run, x.mail)
    <3>1. CASE x.pc = "sent"
      BY <2>2, <2>4, <2>5, <3>1 DEF Ledger!Conclude
    <3>2. CASE x.pc = "unsent"
      BY <2>2, <2>4, <2>5, <3>2 DEF Ledger!Conclude
    <3> QED BY <2>2, <3>1, <3>2
  <2> QED BY <2>4, <2>6 DEF LedgerStep, Ledger!Next
<1>13. CASE Unsettled(w)
  <2>1. /\ x.pc \in Locked /\ item' = [item EXCEPT ![x.run][x.mail] = "unknown"]
        /\ NextRow(w) /\ UNCHANGED <<mailed, notified>>
    BY <1>0, <1>13 DEF Unsettled, Locked
  <2> QED BY <1>0, <1>5, <2>1, AbandonStep
<1>14. CASE InfraFailure(w) \/ Crash(w)
  <2>1. /\ \E r : worker' = [worker EXCEPT ![w] = Idle(r)]
        /\ item' = item \/ (x.pc \in Locked /\ item' = [item EXCEPT ![x.run][x.mail] = "unknown"])
        /\ UNCHANGED <<mailed, notified>>
    BY <1>0, <1>14 DEF InfraFailure, Crash, Locked
  <2>2. \A r : Idle(r).pc \notin Locked
    BY DEF Idle, Locked
  <2>3. CASE x.pc \in Locked
    BY <1>0, <2>1, <2>2, <2>3, AbandonStep
  <2>4. CASE x.pc \notin Locked
    BY <1>3, <2>1, <2>2, <2>4
  <2> QED BY <2>3, <2>4
<1>15. CASE Escaped(w)
  <2>1. NextRow(w) /\ UNCHANGED <<item, mailed, notified>>
    BY <1>15 DEF Escaped
  <2>2. PICK y : worker' = [worker EXCEPT ![w] = y] /\ y.pc \notin Locked
    BY <1>5, <2>1
  <2>3. CASE x.pc \in Locked
    BY <1>0, <2>1, <2>2, <2>3, AbandonStep
  <2>4. CASE x.pc \notin Locked
    BY <1>3, <2>1, <2>2, <2>4
  <2> QED BY <2>3, <2>4
<1>16. CASE PassOver(w)
  <2>1. PICK m \in x.todo :
          /\ worker' = [worker EXCEPT ![w] = [x EXCEPT !.todo = x.todo \ {m}]]
          /\ item' = item \/ item' = Recorded(x.run, m, "unsent")
          /\ x.pc = "row" /\ UNCHANGED <<mailed, notified>>
    BY <1>0, <1>16 DEF PassOver
  <2>2. x.run \in Runs /\ m \in Mails
    <3>1. Placed(x)
      BY <1>0 DEF IInv, WorkerOK
    <3> QED BY <2>1, <3>1, Tables DEF Placed
  <2>3. x.pc \notin Locked /\ [x EXCEPT !.todo = x.todo \ {m}].pc \notin Locked
    BY <1>1, <2>1 DEF WorkerStates, Locked
  <2>4. CASE item' = item
    BY <1>3, <2>1, <2>3, <2>4
  <2>5. CASE item' = Recorded(x.run, m, "unsent")
    <3>1. Underway' = Underway
      <4>1. PICK y : y = [x EXCEPT !.todo = x.todo \ {m}]
        OBVIOUS
      <4>2. worker' = [worker EXCEPT ![w] = y] /\ x.pc \notin Locked /\ y.pc \notin Locked
        BY <2>1, <2>3, <4>1
      <4> QED BY <1>0, <1>1, <4>2, PairsKept, PairsOfTable
    <3> QED BY <2>1, <2>2, <2>5, <3>1, RecordedStep
  <2> QED BY <2>1, <2>4, <2>5
<1> QED
  BY <1>4, <1>7, <1>8, <1>9, <1>10, <1>11, <1>12, <1>13, <1>14, <1>15, <1>16 DEF Work

LEMMA ItemsStayCommitted ==
    ASSUME IInv, ItemsAreCommitted, [Next]_vars
    PROVE  ItemsAreCommitted'
<1>1. committed \subseteq committed'
  <2>1. ASSUME NEW w \in Workers, Work(w) PROVE committed' = committed
    <3>1. Claim(w) \/ FetchPage(w) \/ ScanDone(w) \/ WaitForGrace(w) \/ Complete(w) \/ EndPage(w)
            => committed' = committed
      BY DEF Claim, FetchPage, ScanDone, WaitForGrace, Complete, EndPage, Persist
    <3>2. PassOver(w) \/ ProcessRow(w) \/ Orphaned(w) \/ Capped(w) \/ CheckPrior(w)
            => committed' = committed
      BY DEF PassOver, ProcessRow, Orphaned, Capped, CheckPrior
    <3>3. NotSent(w) \/ MarkSending(w) \/ Send(w) \/ Settle(w) \/ Unsettled(w)
            => committed' = committed
      BY DEF NotSent, MarkSending, Send, Settle, Unsettled
    <3> QED BY <2>1, <3>1, <3>2, <3>3 DEF Work
  <2>2. ASSUME NEW w \in Workers, Cancel(w) \/ InfraFailure(w) \/ Escaped(w) \/ Crash(w)
        PROVE  committed' = committed
    BY <2>2 DEF Cancel, InfraFailure, Escaped, Crash
  <2>3. CASE Arrive \/ \E r \in Runs : Queue(r) \/ GracePasses(r)
    BY <2>3 DEF Arrive, Queue, GracePasses
  <2>4. CASE \E m \in Mails : Commit(m)
    BY <2>4 DEF Commit
  <2>5. CASE UNCHANGED vars
    BY <2>5 DEF vars
  <2> QED BY <2>1, <2>2, <2>3, <2>4, <2>5 DEF Next
<1>2. ASSUME NEW w \in Workers, Work(w) \/ Cancel(w) \/ InfraFailure(w) \/ Escaped(w) \/ Crash(w),
             NEW r \in Runs, NEW m \in Mails, item'[r][m] # item[r][m]
      PROVE  m \in committed
  <2>1. PICK x : x = worker[w]
    OBVIOUS
  <2>2. x.pc \in AtMail => x.mail \in committed /\ x.run \in Runs
    BY <2>1 DEF IInv, WorkerOK, Placed, AtMail, Locked
  <2>3. item \in [Runs -> [Mails -> ItemStates]]
    BY DEF IInv, RuleRunTypeOK
  <2>4. CASE PassOver(w)
    <3>1. PICK k \in x.todo : item' = item \/ item' = [item EXCEPT ![x.run][k] = "unsent"]
      BY <2>1, <2>4 DEF PassOver, Recorded
    <3>2. x.todo \subseteq committed /\ x.run \in Runs
      BY <2>1, <2>4 DEF PassOver, IInv, WorkerOK, Placed
    <3> QED BY <1>2, <2>3, <3>1, <3>2, Tables
  <2>5. CASE ~PassOver(w)
    <3>1. /\ x.pc \in AtMail
          /\ \E s : item' = item \/ item' = [item EXCEPT ![x.run][x.mail] = s]
      BY <1>2, <2>1, <2>5, QuietSteps
         DEF Work, Orphaned, CheckPrior, NotSent, MarkSending, Send, Settle, Unsettled,
             InfraFailure, Escaped, Crash, Recorded, AtMail, Locked
    <3> QED BY <1>2, <2>2, <2>3, <3>1
  <2> QED BY <2>4, <2>5
<1>3. ASSUME \/ Arrive \/ (\E m \in Mails : Commit(m))
             \/ (\E r \in Runs : Queue(r) \/ GracePasses(r)) \/ UNCHANGED vars
      PROVE  item' = item
  BY <1>3 DEF Arrive, Commit, Queue, GracePasses, vars
<1>4. ASSUME NEW r \in Runs, NEW m \in Mails, item'[r][m] # "none" PROVE m \in committed'
  <2>1. CASE item'[r][m] # item[r][m]
    BY <1>1, <1>2, <1>3, <2>1 DEF Next
  <2>2. CASE item'[r][m] = item[r][m]
    BY <1>1, <1>4, <2>2 DEF ItemsAreCommitted
  <2> QED BY <2>1, <2>2
<1> QED BY <1>4 DEF ItemsAreCommitted

\* Rule runs implement the ledger of forwards, for any number of runs, workers,
\* mails, crashes and failures: what RuleRunItem calls an at-most-once state machine.
THEOREM RunsImplementLedger == Spec => ImplementsLedger
<1>1. Init => Ledger!Init /\ ItemsAreCommitted
  <2> SUFFICES ASSUME Init PROVE Ledger!Init /\ ItemsAreCommitted
    OBVIOUS
  <2>1. Underway = {}
    <3>1. ASSUME NEW p PROVE p \notin Pairs(worker)
      <4>1. \A v \in Workers : worker[v].pc \notin Locked
        BY DEF Init, Idle, Locked
      <4> QED BY <4>1, PairsIn DEF Forwards
    <3> QED BY <3>1, PairsOfTable
  <2> QED BY <2>1 DEF Init, Ledger!Init, ItemsAreCommitted
<1>2. IInv /\ ItemsAreCommitted /\ [Next]_vars => LedgerStep
  <2> SUFFICES ASSUME IInv, ItemsAreCommitted, [Next]_vars PROVE LedgerStep
    OBVIOUS
  <2>1. ASSUME UNCHANGED <<item, mailed, notified, worker>> PROVE LedgerStep
    BY <2>1 DEF LedgerStep, Ledger!ledger, Underway
  <2>2. CASE Arrive \/ (\E r \in Runs : Queue(r) \/ GracePasses(r)) \/ UNCHANGED vars
    BY <2>1, <2>2 DEF Arrive, Queue, GracePasses, vars
  <2>3. ASSUME NEW m \in Mails, Commit(m) PROVE LedgerStep
    <3>1. CASE notified' = notified
      BY <2>1, <2>3, <3>1 DEF Commit
    <3>2. CASE notified' = notified \cup {m}
      <4>1. \A r \in Runs : item[r][m] = "none"
        BY <2>3 DEF Commit, ItemsAreCommitted
      <4>2. UNCHANGED <<item, mailed, Underway>>
        BY <2>3 DEF Commit, Underway
      <4>3. Ledger!ForwardedOnArrival(m)
        BY <3>2, <4>1, <4>2 DEF Ledger!ForwardedOnArrival
      <4> QED BY <4>3 DEF LedgerStep, Ledger!Next
    <3> QED BY <2>3, <3>1, <3>2 DEF Commit
  <2>4. ASSUME NEW w \in Workers, Work(w) \/ Cancel(w) \/ InfraFailure(w) \/ Escaped(w) \/ Crash(w)
        PROVE  LedgerStep
    BY <2>4, WorkIsLedgerStep
  <2> QED BY <2>2, <2>3, <2>4 DEF Next
<1>3. IInv /\ ItemsAreCommitted /\ [Next]_vars => ItemsAreCommitted'
  BY ItemsStayCommitted
<1>4. Spec => Ledger!Init /\ [][Ledger!Next]_(Ledger!ledger)
  BY <1>1, <1>2, <1>3, RuleRunInvariance, PTL DEF Spec, LedgerStep
<1> QED BY <1>4 DEF ImplementsLedger, Ledger!Spec
=============================================================================
