----------------------------- MODULE MailReminders -----------------------------
(***************************************************************************)
(* "Remind me" on mail threads, of one user.  Requests of the user load a  *)
(* reminder and write it later, in one transaction and without a lock; the *)
(* columns they write are those they give another value than the one they  *)
(* loaded.  Processes sweep what is due: each claims a reminder with a row *)
(* lock that others skip, notifies, marks it FIRED and commits, so that    *)
(* the lock, the notification and the status go together.                  *)
(*                                                                         *)
(* remind_at is a number, a new one for each date a request sets, and      *)
(* whether it lies ahead.                                                  *)
(***************************************************************************)
EXTENDS Naturals

CONSTANTS
    Reminders,       \* rows of mail_reminders
    Threads, NoThread,
    Requests,        \* requests of the user
    Processes,       \* processes with a scheduler
    MaxDates,        \* bound: dates set for one reminder
    PerTick,         \* MAX_HANDLED_PER_TICK
    MaxFailures      \* bound: failures and deaths of a sweep

ASSUME ReminderAssumption ==
    /\ NoThread \notin Threads
    /\ {MaxDates, PerTick} \subseteq Nat \ {0} /\ MaxFailures \in Nat

VARIABLES
    reminder,    \* the rows
    reachable,   \* the mail is visible and the user active
    request,     \* what each request has loaded
    sweeper,     \* the tick of each process
    notices,     \* committed notifications of each reminder and date
    late,        \* history: rows whose last request wrote a date after the sweep had fired them
    failures

remVars == <<reminder, reachable, request, sweeper, notices, late, failures>>

Dates == 1 .. MaxDates
NoReminder == [thread |-> NoThread, status |-> "NONE", date |-> 0, ahead |-> FALSE]
NoRequest == [op |-> "idle", row |-> 0, seen |-> "NONE"]
NoTick == [pc |-> "idle", claimed |-> {}, failed |-> {}, rounds |-> 0]

RemInit ==
    /\ reminder = [r \in Reminders |-> NoReminder]
    /\ reachable = TRUE
    /\ request = [q \in Requests |-> NoRequest]
    /\ sweeper = [p \in Processes |-> NoTick]
    /\ notices = [r \in Reminders |-> [d \in Dates |-> 0]]
    /\ late = {} /\ failures = 0

Locked(r) == \E p \in Processes : r \in sweeper[p].claimed

\* The partial unique index: one ACTIVE reminder of the user on a thread.
IndexAllows(rows) == \A r, o \in Reminders :
    rows[r].status = "ACTIVE" /\ rows[o].status = "ACTIVE" /\ rows[r].thread = rows[o].thread
        => r = o

---------------------------------------------------------------------------
(* Requests                                                                *)

\* The mail may be hidden by the time of the insert.
Create(r, t) ==
    /\ reminder[r] = NoReminder
    /\ reminder' = [reminder EXCEPT ![r] =
                       [thread |-> t, status |-> "ACTIVE", date |-> 1, ahead |-> TRUE]]
    /\ IndexAllows(reminder')
    /\ UNCHANGED <<reachable, request, sweeper, notices, late, failures>>

\* The statuses in which each request is accepted.
Accepts(op) ==
    CASE op = "update" -> {"ACTIVE"}
      [] op \in {"cancel", "snooze"} -> {"ACTIVE", "FIRED"}
      [] op = "dismiss" -> {"FIRED"}

Operations == {"update", "cancel", "snooze", "dismiss"}

LoadReminder(q, op, r) ==
    /\ request[q] = NoRequest /\ reminder[r].status \in Accepts(op)
    /\ request' = [request EXCEPT ![q] = [op |-> op, row |-> r, seen |-> reminder[r].status]]
    /\ UNCHANGED <<reminder, reachable, sweeper, notices, late, failures>>

\* Mutant: the date moves and the status stays.
Requested_NotRearmed(row, op, seen) ==
    CASE op \in {"update", "snooze"} ->
           [row EXCEPT !.date = @ + 1, !.ahead = TRUE]
      [] op = "cancel" -> [row EXCEPT !.status = "CANCELED"]
      [] op = "dismiss" -> [row EXCEPT !.status = "DISMISSED"]

\* Only a snooze that loaded a fired reminder writes the status ACTIVE.
Requested(row, op, seen) ==
    CASE op = "update" -> [row EXCEPT !.date = @ + 1, !.ahead = TRUE]
      [] op = "snooze" ->
           [row EXCEPT !.date = @ + 1, !.ahead = TRUE,
                       !.status = IF seen = "ACTIVE" THEN @ ELSE "ACTIVE"]
      [] op = "cancel" -> [row EXCEPT !.status = "CANCELED"]
      [] op = "dismiss" -> [row EXCEPT !.status = "DISMISSED"]

FiredMeanwhile(q) ==
    /\ request[q].op \in {"update", "snooze"}
    /\ request[q].seen = "ACTIVE" /\ reminder[request[q].row].status = "FIRED"

\* It waits for a sweep that holds the row.
CommitRequest(q) ==
    LET r == request[q].row
        rows == [reminder EXCEPT ![r] = Requested(@, request[q].op, request[q].seen)]
    IN  /\ request[q] # NoRequest /\ ~Locked(r)
        /\ rows[r].date <= MaxDates
        /\ IndexAllows(rows)
        /\ reminder' = rows
        /\ late' = IF FiredMeanwhile(q) THEN late \cup {r} ELSE late \ {r}
        /\ request' = [request EXCEPT ![q] = NoRequest]
        /\ UNCHANGED <<reachable, sweeper, notices, failures>>

\* The date does not lie ahead or the index refuses the row, or the commit fails.
RequestFails(q) ==
    /\ request[q] # NoRequest
    /\ request' = [request EXCEPT ![q] = NoRequest]
    /\ UNCHANGED <<reminder, reachable, sweeper, notices, late, failures>>

\* The mail is moved to the trash or back, the user is deactivated or activated.
HideOrShow ==
    /\ reachable' = ~reachable
    /\ UNCHANGED <<reminder, request, sweeper, notices, late, failures>>

DateArrives(r) ==
    /\ reminder[r].ahead
    /\ reminder' = [reminder EXCEPT ![r].ahead = FALSE]
    /\ UNCHANGED <<reachable, request, sweeper, notices, late, failures>>

---------------------------------------------------------------------------
(* The sweep of a process                                                  *)

StartTick(p) ==
    /\ sweeper[p].pc = "idle"
    /\ sweeper' = [sweeper EXCEPT ![p].pc = "looking"]
    /\ UNCHANGED <<reminder, reachable, request, notices, late, failures>>

Due(r) == reminder[r].status = "ACTIVE" /\ ~reminder[r].ahead

\* Mutant: the query takes no lock.
Claimable_Shared(p) == {r \in Reminders : Due(r) /\ r \notin sweeper[p].failed}

\* FOR UPDATE SKIP LOCKED, without those that failed in this tick.
Claimable(p) == {r \in Reminders : Due(r) /\ r \notin sweeper[p].failed /\ ~Locked(r)}

Looking(p) == sweeper[p].pc = "looking" /\ sweeper[p].rounds < PerTick

Claim(p) ==
    /\ Looking(p)
    /\ \E r \in Claimable(p) :
         sweeper' = [sweeper EXCEPT ![p].pc = "claimed", ![p].claimed = {r}]
    /\ UNCHANGED <<reminder, reachable, request, notices, late, failures>>

\* The transaction has ended; the next round of the tick follows.
NextRound(p, failed) ==
    sweeper' = [sweeper EXCEPT ![p] = [pc |-> "looking", claimed |-> {}, failed |-> failed,
                                       rounds |-> @.rounds + 1]]

\* Nobody to remind, or nothing to open: closed without a notification.
Fire(p) ==
    /\ sweeper[p].pc = "claimed"
    /\ \E r \in sweeper[p].claimed :
         /\ reminder' = [reminder EXCEPT ![r].status = IF reachable THEN "FIRED" ELSE "CANCELED"]
         /\ notices' = IF reachable
                       THEN [notices EXCEPT ![r][reminder[r].date] = @ + 1]
                       ELSE notices
    /\ NextRound(p, sweeper[p].failed)
    /\ UNCHANGED <<reachable, request, late, failures>>

\* The transaction is rolled back; the reminder stays ACTIVE and out of this tick.
FireFails(p) ==
    /\ sweeper[p].pc = "claimed" /\ failures < MaxFailures
    /\ failures' = failures + 1
    /\ NextRound(p, sweeper[p].failed \cup sweeper[p].claimed)
    /\ UNCHANGED <<reminder, reachable, request, notices, late>>

\* A claim that fails ends the tick, and so does the death of the process.
SweepDies(p) ==
    /\ sweeper[p] # NoTick /\ failures < MaxFailures
    /\ failures' = failures + 1
    /\ sweeper' = [sweeper EXCEPT ![p] = NoTick]
    /\ UNCHANGED <<reminder, reachable, request, notices, late>>

FinishTick(p) ==
    /\ sweeper[p].pc = "looking"
    /\ Claimable(p) = {} \/ sweeper[p].rounds = PerTick
    /\ sweeper' = [sweeper EXCEPT ![p] = NoTick]
    /\ UNCHANGED <<reminder, reachable, request, notices, late, failures>>

---------------------------------------------------------------------------
Sweep(p) == StartTick(p) \/ Claim(p) \/ Fire(p) \/ FinishTick(p)

RemNext ==
    \/ \E r \in Reminders, t \in Threads : Create(r, t)
    \/ \E q \in Requests, op \in Operations, r \in Reminders : LoadReminder(q, op, r)
    \/ \E q \in Requests : CommitRequest(q) \/ RequestFails(q)
    \/ HideOrShow
    \/ \E r \in Reminders : DateArrives(r)
    \/ \E p \in Processes : Sweep(p) \/ FireFails(p) \/ SweepDies(p)

\* Time passes, and the scheduler of a process starts a tick every few seconds, one
\* at a time, whose awaits return.  Nothing is assumed of the requests.
RemFairness ==
    /\ \A r \in Reminders : WF_remVars(DateArrives(r))
    /\ \A p \in Processes : WF_remVars(Sweep(p))

RemSpec == RemInit /\ [][RemNext]_remVars /\ RemFairness

---------------------------------------------------------------------------
(* Properties                                                              *)

\* Two processes that sweep one database, with failures and snoozes in between, never
\* notify twice for one date ("two processes can never both fire one").
RemindedOnce == \A r \in Reminders, d \in Dates : notices[r][d] <= 1

\* An open reminder whose date has not been notified, except one that a request which
\* loaded it before the sweep fired it gave that date: it does not write the status again.
Awaited(r) ==
    /\ reminder[r].status \in {"ACTIVE", "FIRED"} /\ r \notin late
    /\ notices[r][reminder[r].date] = 0

\* The backlog empties: the last date set for each reminder is notified, unless the
\* reminder is closed.  No failure, restart or full tick loses it, and neither does a snooze,
\* edit or dismissal of another tab, but for the exception of Awaited.
ReminderComes == []<>(\A r \in Reminders : ~Awaited(r))
=============================================================================
