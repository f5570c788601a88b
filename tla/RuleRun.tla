-------------------------------- MODULE RuleRun --------------------------------
(***************************************************************************)
(* "Run rule now": rows of rule_runs queued by users, worked page by page  *)
(* by the workers of rule_run_worker.py, one in each backend process, and   *)
(* the forwards they send, recorded in rule_run_items.                      *)
(*                                                                          *)
(* Every rule has one forward_to action with one recipient; whether it      *)
(* applies to a mail is left open.  Mails are numbered in the order of      *)
(* (created_at, id).  A step of a worker is what happens between two awaits *)
(* that matter: other workers, and its death, come in between.              *)
(***************************************************************************)
EXTENDS Integers, FiniteSets

CONSTANTS
    NumRuns,      \* runs are numbered in the order of created_at
    RuleOf,       \* RuleOf[r]: the rule of run r
    Workers,      \* processes that run the scheduler
    NoWorker,     \* nobody holds the advisory lock
    NumMails,
    PageSize,     \* PAGE_SIZE
    Window,       \* RECONCILE_WINDOW, in mails
    Cap,          \* HISTORICAL_FORWARD_CAP
    MaxAttempts,  \* MAX_INFRA_ATTEMPTS
    MaxFaults     \* bound: crashes, database failures and escaped exceptions

Runs == 1..NumRuns
Mails == 1..NumMails

ASSUME RuleRunAssumption ==
    /\ {NumRuns, NumMails, Cap, MaxAttempts, MaxFaults} \subseteq Nat
    /\ {PageSize, Window} \subseteq Nat \ {0}
    /\ NoWorker \notin Workers
    /\ DOMAIN RuleOf = Runs

VARIABLES
    run,        \* rows of rule_runs
    item,       \* item[r][m]: status of the rule_run_items row, "none" without one
    done,       \* history: done[r], the mails that a worker of run r is through with
    created,    \* mails 1..created have their created_at
    committed,  \* mails whose intake transaction has committed
    notified,   \* mails with a forward notification for the recipient
    mailed,     \* mailed[r][m]: e-mails that really went out
    lock,       \* holder of the advisory lock of each mail
    worker,     \* a process: its tick, its run, its copy of the run's row
    faults

vars == <<run, item, done, created, committed, notified, mailed, lock, worker, faults>>

Active == {"QUEUED", "RUNNING"}
Terminal == {"COMPLETED", "FAILED", "CANCELLED", "CAPPED"}

\* "unsent" is what SKIPPED, FAILED and ALREADY_APPLIED have in common: the
\* run recorded that it did not forward the mail.
Unresolved == {"sending", "unknown"}
ItemStates == Unresolved \cup {"none", "sent", "unsent"}

\* Where a tick is: at the top of _step, before the next row of a page, before
\* a SENDING item becomes UNKNOWN, before the check of earlier runs, before
\* the lock, and under the lock before the send, after it, after it failed.
Locked == {"sending", "sent", "unsent"}
AtMail == {"orphan", "prior", "lock"} \cup Locked
Points == {"idle", "step", "row"} \cup AtMail

Blank == [phase |-> "SCAN", cursor |-> 0, sent |-> 0, attempts |-> 0]

\* grace: RECONCILE_GRACE after the cutoff is over.
NewRun == [state |-> Blank, status |-> "NONE", cutoff |-> 0, grace |-> FALSE]

\* _worker_state.current_run_id outlives the tick; 0 is None.
Idle(r) == [pc |-> "idle", run |-> r, state |-> Blank, todo |-> {}, last |-> 0, mail |-> 0]

Init ==
    /\ run = [r \in Runs |-> NewRun]
    /\ item = [r \in Runs |-> [m \in Mails |-> "none"]]
    /\ done = [r \in Runs |-> {}]
    /\ created \in 0..NumMails
    /\ committed \in SUBSET (1..created)
    /\ \A m \in 1..created : m + Window <= created => m \in committed
    /\ notified = {}
    /\ mailed = [r \in Runs |-> [m \in Mails |-> 0]]
    /\ lock = [m \in Mails |-> NoWorker]
    /\ worker = [w \in Workers |-> Idle(0)]
    /\ faults = 0

---------------------------------------------------------------------------
(* The rest of the system                                                  *)

\* A transaction that takes in a mail is never open for RECONCILE_WINDOW.
Arrive ==
    /\ created < NumMails
    /\ \A m \in 1..created : m + Window <= created + 1 => m \in committed
    /\ created' = created + 1
    /\ UNCHANGED <<run, item, done, committed, notified, mailed, lock, worker, faults>>

\* The live engine forwards the mail before the commit, if it sees the rule.
Commit(m) ==
    /\ m \in 1..created \ committed
    /\ committed' = committed \cup {m}
    /\ \E forwards \in BOOLEAN :
         notified' = IF forwards THEN notified \cup {m} ELSE notified
    /\ UNCHANGED <<run, item, done, created, mailed, lock, worker, faults>>

\* queue_run, and uq_rule_runs_one_active_per_rule.
Queue(r) ==
    /\ run[r].status = "NONE"
    /\ \A q \in 1..(r - 1) : run[q].status # "NONE"
    /\ \A q \in Runs : RuleOf[q] = RuleOf[r] => run[q].status \notin Active
    /\ run' = [run EXCEPT ![r].status = "QUEUED"]
    /\ UNCHANGED <<item, done, created, committed, notified, mailed, lock, worker, faults>>

\* No transaction that takes in a mail stays open until the grace is over.
GracePasses(r) ==
    /\ run[r].status # "NONE" /\ run[r].status # "QUEUED" /\ ~run[r].grace
    /\ 1..run[r].cutoff \subseteq committed
    /\ run' = [run EXCEPT ![r].grace = TRUE]
    /\ UNCHANGED <<item, done, created, committed, notified, mailed, lock, worker, faults>>

---------------------------------------------------------------------------
(* A worker                                                                *)

\* _persist: the worker's copy over whatever the row has; never the status.
Persisted(r, state) == [run[r] EXCEPT !.state = state]

\* _finish, which asks for no status either.
Finish(w, state, status) ==
    LET r == worker[w].run
    IN  /\ run' = [run EXCEPT ![r] = [Persisted(r, state) EXCEPT !.status = status]]
        /\ worker' = [worker EXCEPT ![w] = Idle(0)]

\* Mutant: the item of a run that has one is written over.
Recorded_Overwrites(r, m, status) == [item EXCEPT ![r][m] = status]

\* _record_item: uq_rule_run_items_run_interaction_action lets no second row in.
Recorded(r, m, status) ==
    IF item[r][m] = "none" THEN [item EXCEPT ![r][m] = status] ELSE item

\* claim_next_run takes its own run if that still runs, else the oldest queued
\* run or an older one whose heartbeat is old.  The heartbeat is written once
\* in a page, so any running run may have an old one, whoever works on it.
Own(w) == {r \in {worker[w].run} \cap Runs : run[r].status = "RUNNING"}
Oldest == {r \in Runs : /\ run[r].status = "QUEUED"
                        /\ \A q \in 1..(r - 1) : run[q].status # "QUEUED"}

\* Mutant: the run of a dead process is never taken over.
Running_Orphaned == {}

Running == {r \in Runs : run[r].status = "RUNNING"}

Claim(w) ==
    /\ worker[w].pc = "idle"
    /\ \E r \in IF Own(w) # {} THEN Own(w) ELSE Oldest \cup Running :
         /\ run' = [run EXCEPT ![r] =
              [@ EXCEPT !.status = "RUNNING",
                        !.cutoff = IF run[r].status = "QUEUED" THEN created ELSE run[r].cutoff]]
         /\ worker' = [worker EXCEPT ![w] =
              [Idle(r) EXCEPT !.pc = "step", !.state = run[r].state]]
    /\ UNCHANGED <<item, done, created, committed, notified, mailed, lock, faults>>

\* Mutant: rows of open transactions.
Rows_Dirty(w) ==
    {m \in 1..created : worker[w].state.cursor < m /\ m <= run[worker[w].run].cutoff}

\* Rows the next page may hold: (created_at, id) after the cursor, to the cutoff.
Rows(w) ==
    {m \in committed : worker[w].state.cursor < m /\ m <= run[worker[w].run].cutoff}

\* The first PageSize of them.
Page(w) == {m \in Rows(w) : Cardinality({k \in Rows(w) : k <= m}) <= PageSize}

ReconcileFrom(r) == IF run[r].cutoff > Window THEN run[r].cutoff - Window ELSE 0

\* _revalidate finds the rule disabled or a user gone or not authorized.
Cancel(w) ==
    /\ worker[w].pc = "step"
    /\ Finish(w, worker[w].state, "CANCELLED")
    /\ UNCHANGED <<item, done, created, committed, notified, mailed, lock, faults>>

\* Mutant: reconciliation does not wait.
MayFetch_NoGrace(w) ==
    worker[w].pc = "step" /\ worker[w].state.phase \in {"SCAN", "RECONCILE"}

MayFetch(w) ==
    LET x == worker[w]
    IN  /\ x.pc = "step"
        /\ \/ x.state.phase = "SCAN"
           \/ x.state.phase = "RECONCILE" /\ run[x.run].grace

FetchPage(w) ==
    /\ MayFetch(w) /\ Rows(w) # {}
    /\ \E last \in Page(w) :
         /\ \A m \in Page(w) : m <= last
         /\ worker' = [worker EXCEPT ![w] =
              [@ EXCEPT !.pc = "row", !.todo = Page(w), !.last = last]]
    /\ UNCHANGED <<run, item, done, created, committed, notified, mailed, lock, faults>>

\* The tick goes on until its budget is spent.
Persist(w, state) ==
    LET x == worker[w]
    IN  /\ run' = [run EXCEPT ![x.run] = Persisted(x.run, state)]
        /\ \/ worker' = [worker EXCEPT ![w] =
                [Idle(x.run) EXCEPT !.pc = "step", !.state = state]]
           \/ worker' = [worker EXCEPT ![w] = Idle(x.run)]
        /\ UNCHANGED <<item, done, created, committed, notified, mailed, lock, faults>>

ScanDone(w) ==
    /\ worker[w].state.phase = "SCAN" /\ MayFetch(w) /\ Rows(w) = {}
    /\ Persist(w, [worker[w].state EXCEPT !.phase = "RECONCILE",
                                          !.cursor = ReconcileFrom(worker[w].run)])

WaitForGrace(w) ==
    LET x == worker[w]
    IN  /\ x.pc = "step" /\ x.state.phase = "RECONCILE" /\ ~run[x.run].grace
        /\ run' = [run EXCEPT ![x.run] = Persisted(x.run, x.state)]
        /\ worker' = [worker EXCEPT ![w] = Idle(x.run)]
        /\ UNCHANGED <<item, done, created, committed, notified, mailed, lock, faults>>

Complete(w) ==
    /\ worker[w].state.phase = "RECONCILE" /\ MayFetch(w) /\ Rows(w) = {}
    /\ Finish(w, [worker[w].state EXCEPT !.phase = "DONE"], "COMPLETED")
    /\ UNCHANGED <<item, done, created, committed, notified, mailed, lock, faults>>

EndPage(w) ==
    /\ worker[w].pc = "row" /\ worker[w].todo = {}
    /\ Persist(w, [worker[w].state EXCEPT !.cursor = worker[w].last])

---------------------------------------------------------------------------
(* One mail of a page                                                      *)

Through(r, m) == [done EXCEPT ![r] = @ \cup {m}]

NextRow(w) ==
    /\ worker' = [worker EXCEPT ![w] = [@ EXCEPT !.pc = "row", !.mail = 0]]
    /\ done' = Through(worker[w].run, worker[w].mail)

\* The mail gets no further than _process_row or _process_matched.  Without an
\* item: the rule does not match, or evaluating it raises, a rule of higher
\* priority stops it, or the mail is no longer visible.  With one, unless there
\* is one: the action is invalid, blocked or out of scope.
PassOver(w) ==
    LET x == worker[w]
    IN  /\ x.pc = "row"
        /\ \E m \in x.todo :
             /\ \A k \in x.todo : m <= k
             /\ worker' = [worker EXCEPT ![w] = [@ EXCEPT !.todo = x.todo \ {m}]]
             /\ item' = item \/ item' = Recorded(x.run, m, "unsent")
             /\ done' = Through(x.run, m)
        /\ UNCHANGED <<run, created, committed, notified, mailed, lock, faults>>

AfterRow(status) ==
    CASE status = "none" -> "prior"
      [] status = "sending" -> "orphan"
      [] OTHER -> "row"

\* _process_action: what this run has recorded about the mail is not repeated.
ProcessRow(w) ==
    LET x == worker[w]
    IN  /\ x.pc = "row"
        /\ \E m \in x.todo :
             LET next == AfterRow(item[x.run][m])
             IN  /\ \A k \in x.todo : m <= k
                 /\ worker' = [worker EXCEPT ![w] =
                      [@ EXCEPT !.pc = next, !.todo = x.todo \ {m},
                                !.mail = IF next = "row" THEN 0 ELSE m]]
                 /\ done' = IF next = "row" THEN Through(x.run, m) ELSE done
    /\ UNCHANGED <<run, item, created, committed, notified, mailed, lock, faults>>

\* A SENDING item becomes UNKNOWN, whatever it is by now.
Orphaned(w) ==
    LET x == worker[w]
    IN  /\ x.pc = "orphan"
        /\ item' = [item EXCEPT ![x.run][x.mail] = "unknown"]
        /\ NextRow(w)
        /\ UNCHANGED <<run, created, committed, notified, mailed, lock, faults>>

\* _prior_unresolved_forward asks for any run, and before the lock.
PriorUnresolved(m) == \E q \in Runs : item[q][m] \in Unresolved

Capped(w) ==
    /\ worker[w].pc = "prior" /\ worker[w].state.sent >= Cap
    /\ Finish(w, worker[w].state, "CAPPED")
    /\ UNCHANGED <<item, done, created, committed, notified, mailed, lock, faults>>

CheckPrior(w) ==
    LET x == worker[w]
    IN  /\ x.pc = "prior" /\ x.state.sent < Cap
        /\ \/ /\ PriorUnresolved(x.mail)
              /\ item' = Recorded(x.run, x.mail, "unsent")
              /\ NextRow(w)
           \/ /\ ~PriorUnresolved(x.mail)
              /\ worker' = [worker EXCEPT ![w] = [@ EXCEPT !.pc = "lock"]]
              /\ UNCHANGED <<item, done>>
        /\ UNCHANGED <<run, created, committed, notified, mailed, lock, faults>>

\* Mutant: no advisory lock.
LockFree_Always(m) == TRUE

LockFree(m) == lock[m] = NoWorker

\* Under the lock, and without a send: the recipient was notified before, is not
\* active, or _execute_action raises before SENDING or at it, which is recorded.
NotSent(w) ==
    LET x == worker[w]
    IN  /\ x.pc = "lock" /\ LockFree(x.mail)
        /\ item' = Recorded(x.run, x.mail, "unsent")
        /\ NextRow(w)
        /\ UNCHANGED <<run, created, committed, notified, mailed, lock, faults>>

\* Mutant: no unique constraint on the items of a run.
MayMark_NotUnique(r, m) == m \notin notified

\* The deduplication under the lock, and the unique constraint.
MayMark(r, m) == m \notin notified /\ item[r][m] = "none"

\* _mark_sending: SENDING is committed before the send.
MarkSending(w) ==
    LET x == worker[w]
    IN  /\ x.pc = "lock" /\ LockFree(x.mail)
        /\ MayMark(x.run, x.mail)
        /\ lock' = [lock EXCEPT ![x.mail] = w]
        /\ item' = [item EXCEPT ![x.run][x.mail] = "sending"]
        /\ worker' = [worker EXCEPT ![w] = [@ EXCEPT !.pc = "sending"]]
        /\ UNCHANGED <<run, done, created, committed, notified, mailed, faults>>

\* Graph takes the e-mail, or an exception says that it does not.
Send(w) ==
    LET x == worker[w]
    IN  /\ x.pc = "sending"
        /\ \/ /\ mailed' = [mailed EXCEPT ![x.run][x.mail] = @ + 1]
              /\ worker' = [worker EXCEPT ![w] = [@ EXCEPT !.pc = "sent"]]
           \/ /\ worker' = [worker EXCEPT ![w] = [@ EXCEPT !.pc = "unsent"]]
              /\ UNCHANGED mailed
        /\ UNCHANGED <<run, item, done, created, committed, notified, lock, faults>>

Unlocked(w) == [m \in Mails |-> IF lock[m] = w THEN NoWorker ELSE lock[m]]

\* The notification and the item's status are one transaction.
Settle(w) ==
    LET x == worker[w]
    IN  /\ x.pc \in {"sent", "unsent"}
        /\ item' = [item EXCEPT ![x.run][x.mail] = x.pc]
        /\ notified' = IF x.pc = "sent" THEN notified \cup {x.mail} ELSE notified
        /\ worker' = [worker EXCEPT ![w] =
             [@ EXCEPT !.pc = "row", !.mail = 0,
                       !.state = IF x.pc = "sent" THEN [x.state EXCEPT !.sent = @ + 1]
                                                  ELSE x.state]]
        /\ done' = Through(x.run, x.mail)
        /\ lock' = Unlocked(w)
        /\ UNCHANGED <<run, created, committed, mailed, faults>>

\* An exception after SENDING that is no infrastructure error.
Unsettled(w) ==
    LET x == worker[w]
    IN  /\ x.pc \in {"sending", "sent"}
        /\ item' = [item EXCEPT ![x.run][x.mail] = "unknown"]
        /\ NextRow(w)
        /\ lock' = Unlocked(w)
        /\ UNCHANGED <<run, created, committed, notified, mailed, faults>>

---------------------------------------------------------------------------
(* Faults                                                                  *)

\* _handle_infrastructure_failure, whose own writes may fail too.  After the
\* SENDING commit the item is set to UNKNOWN if that write succeeds.
InfraFailure(w) ==
    LET x == worker[w]
        tried == x.state.attempts + 1
        given == tried > MaxAttempts
    IN  /\ x.pc # "idle" /\ faults < MaxFaults
        /\ faults' = faults + 1
        /\ \/ UNCHANGED item
           \/ /\ x.pc \in {"sending", "sent"}
              /\ item' = [item EXCEPT ![x.run][x.mail] = "unknown"]
        /\ \/ UNCHANGED run
           \/ /\ ~given
              /\ run' = [run EXCEPT ![x.run] =
                           [@ EXCEPT !.state = [run[x.run].state EXCEPT !.attempts = tried]]]
           \/ /\ given
              /\ run' = [run EXCEPT ![x.run] =
                   [Persisted(x.run, [x.state EXCEPT !.attempts = tried])
                      EXCEPT !.status = "FAILED"]]
        /\ worker' = [worker EXCEPT ![w] = IF given THEN Idle(0) ELSE Idle(x.run)]
        /\ lock' = Unlocked(w)
        /\ UNCHANGED <<done, created, committed, notified, mailed>>

\* An exception that is no infrastructure error and that nothing has recorded,
\* at a mail or at a commit about it: _process_row rolls back and goes on.
Escaped(w) ==
    /\ worker[w].pc \in AtMail /\ faults < MaxFaults
    /\ faults' = faults + 1
    /\ NextRow(w)
    /\ lock' = Unlocked(w)
    /\ UNCHANGED <<run, item, created, committed, notified, mailed>>

\* The process dies and starts again: its connections, and so its lock, go.
Crash(w) ==
    /\ worker[w] # Idle(0) /\ faults < MaxFaults
    /\ faults' = faults + 1
    /\ worker' = [worker EXCEPT ![w] = Idle(0)]
    /\ lock' = Unlocked(w)
    /\ UNCHANGED <<run, item, done, created, committed, notified, mailed>>

---------------------------------------------------------------------------
Work(w) ==
    \/ Claim(w) \/ FetchPage(w) \/ ScanDone(w) \/ WaitForGrace(w) \/ Complete(w)
    \/ EndPage(w) \/ PassOver(w) \/ ProcessRow(w) \/ Orphaned(w) \/ Capped(w)
    \/ CheckPrior(w) \/ NotSent(w) \/ MarkSending(w) \/ Send(w) \/ Settle(w)
    \/ Unsettled(w)

Next ==
    \/ Arrive
    \/ \E m \in Mails : Commit(m)
    \/ \E r \in Runs : Queue(r) \/ GracePasses(r)
    \/ \E w \in Workers : Work(w) \/ Cancel(w) \/ InfraFailure(w) \/ Escaped(w) \/ Crash(w)

Spec == Init /\ [][Next]_vars

\* The scheduler starts a tick every 15 seconds and a tick's awaits return;
\* time passes, and transactions that take in mail end.
Fairness ==
    /\ \A m \in Mails : WF_vars(Commit(m))
    /\ \A r \in Runs : WF_vars(GracePasses(r))
    /\ \A w \in Workers : WF_vars(Work(w))

FairSpec == Spec /\ Fairness

---------------------------------------------------------------------------
(* Properties                                                              *)

RunStates == [phase : {"SCAN", "RECONCILE", "DONE"}, cursor : 0..NumMails,
              sent : Nat, attempts : Nat]

\* Every variable has its type.
RuleRunTypeOK ==
    /\ run \in [Runs -> [state : RunStates, status : {"NONE"} \cup Active \cup Terminal,
                         cutoff : 0..NumMails, grace : BOOLEAN]]
    /\ item \in [Runs -> [Mails -> ItemStates]]
    /\ done \in [Runs -> SUBSET Mails]
    /\ created \in 0..NumMails /\ committed \subseteq 1..created /\ notified \subseteq committed
    /\ mailed \in [Runs -> [Mails -> Nat]]
    /\ lock \in [Mails -> Workers \cup {NoWorker}]
    /\ worker \in [Workers -> [pc : Points, run : 0..NumRuns, state : RunStates,
                               todo : SUBSET Mails, last : 0..NumMails, mail : 0..NumMails]]
    /\ faults \in 0..MaxFaults

\* A run forwards a mail once at most, however often workers die, fail or take
\* the run from each other, and its record never denies an e-mail that went out:
\* the at-most-once state machine of RuleRunItem's docstring.
ForwardIsOnRecord ==
    \A r \in Runs, m \in Mails :
      /\ mailed[r][m] <= 1
      /\ mailed[r][m] = 1 => item[r][m] \in Unresolved \cup {"sent"}
      /\ item[r][m] = "sent" => mailed[r][m] = 1

\* Two runs never both record that they forwarded a mail: the check of the
\* notifications and the send are under one advisory lock.
OneSentForwardPerMail ==
    \A m \in Mails, q, r \in Runs :
      item[q][m] = "sent" /\ item[r][m] = "sent" => q = r

\* The cursors of a completed run have missed no mail up to its cutoff: a worker
\* has had each in a page and was through with it, whether it left an item or
\* not.  So too for mails that were committed behind the cursor of the scan, and
\* if several workers wrote their cursors over each other's.
CompletedRunMissesNothing ==
    \A r \in Runs : run[r].status = "COMPLETED" => 1..run[r].cutoff \subseteq done[r]

\* What the docstring of RuleRunItem adds: an unresolved forward of any run keeps
\* other runs from forwarding the mail, so that it goes out once at most.
NoSecondForward ==
    \A m \in Mails, q, r \in Runs :
      mailed[q][m] > 0 /\ mailed[r][m] > 0 => q = r

\* The forwards under way: those of the workers that have the lock of their mail.
Underway == {<<worker[w].run, worker[w].mail>> : w \in {v \in Workers : worker[v].pc \in Locked}}

Ledger == INSTANCE ForwardLedger WITH
    record <- item, out <- mailed, known <- notified, open <- Underway

\* Items, notifications and locks together are a ledger: SENDING is on record before
\* the e-mail leaves, one forward of a mail is under way at a time, and no e-mail
\* leaves after it is over, whoever takes the run over and doubts its record.
ImplementsLedger == Ledger!Spec

\* A queued run ends, whatever its workers suffer meanwhile.
RunEnds ==
    \A r \in Runs : (run[r].status = "QUEUED") ~> (run[r].status \in Terminal)
=============================================================================
