# A verification development for the unified ticket management backend

The repository is a FastAPI backend (`src/unified-backend`), a React frontend,
shared SQLAlchemy models and documentation. The backend turns customer mail into
tickets, measures a Resolution SLA for each, escalates tickets that are late along
the chain of people who assigned them, and runs mail rules over mailboxes. These
modules model its core logic, the part in which handlers, schedulers and time
interfere; every definition that stands for code names its lines in `PROJECT.json`.

Paths below are relative to `src/unified-backend/app/`; `T/` is `ticketing/`.

## Inventory

| component | state | operations | hard part |
|---|---|---|---|
| Escalation ladder: `T/services/escalation_service.py`, `escalation_rules.py`, `escalation_handling_sla_service.py` and their repositories | `ticket_escalations` (level, frozen chain, position, owners, acknowledgement deadline, handling stage and its deadline), `escalation_handling_slas` | create by hand or by the sweep, climb, re-notify at the top, rebuild after a breached stage, accept, close | three writers of one row, guards on part of the row, deadlines that outlive their purpose |
| Resolution SLA clock: `T/services/sla_service.py`, `T/repositories/resolution_sla_repository.py` | `resolution_slas` (status, `due_at`, `started_at`, target, pauses, cycle) | start, pause, resume, complete, reshift, restart, reopen | date arithmetic that three kinds of fresh window share |
| First response SLA clock | `first_response_slas` | start, complete | an answer that overtakes the sweep must put its own breach on record |
| SLA sweep: `T/services/sla_sweep_service.py`, `core/sla_scheduler.py`, the notification ledger | `sla_breach_notifications` | classify every clock, record and notify each threshold once, escalate, advance | one transaction per tick over stale snapshots; two processes on one database |
| Ticket lifecycle: `T/services/interaction_service.py`, `access_control.py`, `inbox_ticket_service.py` | `tickets` | create, claim, transfer, change status and priority, close, reopen | guards read before awaits; only close and reopen lock the row, only claim is conditional |
| Assignment: `T/services/ticket_assignment_service.py`, `ticket_category_service.py` and their repositories | `ticket_assignments`, `ticket_assignment_slas`, `ticket_categories`, and the columns of `tickets` that repeat them | add, remove, promote, status of an assignee, close and reopen with everybody, add and remove categories | rows loaded before the lock is taken; handlers without a lock that write late; a clock for each person |
| Mail rule runs: `T/services/rule_run_worker.py`, `rule_run_service.py` | `rule_runs` (cursor, phase, attempts, heartbeat), `rule_run_items` | queue, claim, page, forward, reconcile, finish, cancel | crash inside a page, a claim of a run that still lives, mail that must not be sent twice |
| Mail rules on arrival: `T/services/rule_engine_service.py` | interactions, forwards | evaluate in order, forward once | shared deduplication with rule runs |
| Mail intake: `T/services/graph_mail_poller.py`, `graph_subscription_service.py`, `email_service.py` | checkpoint and failure counts in memory, `mailbox_poll_state`, interactions and their parents | webhook, poll, thread, reconcile orphans, renew | the same message by two ways, a failure inside a page, a restart, a reply before its original |
| Outbound mail: `T/services/undo_send.py`, `outbound_dispatcher.py`, `draft_service.py` | `dispatch_status` of interactions, drafts, a task in memory | send, undo, dispatch, retry | undo racing the task, answers of Graph that are lost, a process that dies |
| Reminders: `T/services/mail_reminder_service.py`, `core/mail_reminder_scheduler.py` | `mail_reminders` | create, edit, snooze, cancel, dismiss, sweep what is due | requests that write what they loaded beside a sweep; sweeps of several processes |
| Read receipts, bulk actions, folders, attachments, distribution lists | one row each | small updates | little |
| RBAC: `rbac/services`, `core/rbac_cache.py` | roles, permissions, a cache of 30 s | resolve, override | stale grants |
| Notifications, audit log, storage, routes, schemas, migrations, scripts, frontend | | | no logic of this kind |

How they interact: routes call the services in one database session per request
(`database/session.py`), READ COMMITTED, loaded objects kept until commit. The
scheduler runs the sweep every few seconds in every backend process; local and
deployed backends may share a database. Ticket handlers call the SLA service
(pause, resume, complete, reopen, reshift) and the escalation service (accept by
assignment); the SLA service calls the escalation service back (close) and is called
by it (restart the clock on acceptance); the sweep drives both. Every handler that
changes owner, status or category also writes the assignment rows. A scheduled job polls
each mailbox; it and the webhook call the same `receive_email`. A sent reply waits for its
task in the memory of the process that took the request.

What makes each correct is stated below for the modelled parts. For the others: a rule
matches the mail its conditions describe, the first matching rule that says so ends the
evaluation; a permission that was taken away is not in force later
than its cache entry.

## Modules

| module | models |
|---|---|
| `EscalationLadder` | one ticket, its clock's status and its escalations; every handler and every sweep pass one atomic action |
| `EscalationSessions` | the same handlers in two steps, load then write, in several overlapping sessions |
| `WorkBudget` | what a Resolution SLA promises, without dates |
| `SlaClock` | one resolution clock row with its dates; implements `WorkBudget` |
| `SlaSweep` | that clock and the first response clock, the ledger of notified thresholds, sweeps of several processes, answers |
| `TicketAssignments` | who works on a ticket: assignment rows with a clock each, categories, and the ticket columns that repeat them |
| `ForwardLedger` | what the forwards of rule runs promise, without workers, pages and locks |
| `RuleRun` | runs of mail rules, the processes that work them, their forwards and their records; implements `ForwardLedger` |
| `OutboundMail` | replies with an undo window: sends, undo, retry, the delayed task, drafts |
| `MailIntake` | one mailbox: poller, webhook, checkpoints, threads |
| `MailReminders` | the reminders of one user: requests and the sweeps of several processes |
| `EscalationLadderProofs`, `EscalationSessionsProofs`, `SlaSweepProofs` (which is also about `SlaClock`), `TicketAssignmentsProofs`, `RuleRunProofs`, `OutboundMailProofs`, `MailIntakeProofs`, `MailRemindersProofs` | theorems and their proofs |
| `MCLadder`, `MCSessions`, `MCSweep`, `MCDesk`, `MCRuleRun`, `MCMail` | values and settings for TLC |

Composition. The ladder and the clock meet in `EscalationLadder`, which keeps of the clock
what the ladder reads; `EscalationSessions` instantiates it. `SlaSweep` extends `SlaClock`:
a step of it is a step of the clock or leaves the clock alone (`SweepImplementsClock`), so
what is proved of `SlaClock` holds beside the sweeps; `SlaClock` instantiates `WorkBudget`
and `RuleRun` instantiates `ForwardLedger`, each with its refinement mapping.
`RuleRun`, `OutboundMail`, `MailIntake`, `MailReminders` and `TicketAssignments` share no
state. `MCMail` checks the mail modules in one run, side by side.

A setting of an MC module is a variable chosen at the start that restricts which operations
may occur, so that one run covers several small instances of one module.

### EscalationLadder

`ticket` is the `tickets` row: its status (`WAITING` is `WAITING_FOR_CLIENT`,
`IN_PROGRESS` also stands for `PENDING`) and whether an agent is set. `clock` is the
`resolution_slas` row: its status (`NONE` before there is one) and whether 100 % of
the target has been reached. `esc` holds the `ticket_escalations` rows in the order
of insertion: `pos` is `chain_position`, `owner` the person `owner_ids` resolves to,
`ackLapsed` says that `ack_due_at` is past, `stage` is `handling_stage`, `window` is
`handling_stage_due_at` (none, in the future, past) and `handling` is the latest row
of `escalation_handling_slas` of that escalation.

Deadlines are not dates here: one may lapse whenever it runs (`SlaLapses`,
`AckWindowLapses`, `StageLapses`, `HandlingLapses`). The people in a chain come from
who assigned the ticket to whom; the module takes any chain of a given set each time
one is built. Who is allowed to call what is reduced to what changes state: whether
the caller of an assignment may transfer (`mayAccept`), and whether the ticket is
frozen for everyone. Whether an SLA policy is found is chosen from `PolicyStates`.

The operators that compute a row take `row`, what the statement finds in the database,
and `seen`, what the handler loaded. `advance()` is a conditional UPDATE over level and
position (`SameStep`); an attribute assigned on a loaded object is written only when it
changes that object's value (`Cleared`); `acknowledge()` reloads (`Reloaded`).

Not an action: `EscalationService.acknowledge`, which no route calls any more.

### EscalationSessions

`Begin...` is the handler up to its last guard: what it keeps is in `sess`. `Commit` is
the rest of it, applied to rows that may have changed. Handlers that decide in their own
UPDATE (`claim`) or under a row lock (`close_ticket`, `reopen_ticket`) stay atomic, as
does the marking of breached handling rows. The partial unique index on open escalations
is `IndexAllows`: a write that breaks it is rolled back. `Overlapping` selects which
operations an instance has; proofs are for any selection and any number of sessions.

`SerialSpec` lets a session begin only when all are free and the ladder's own steps happen
only then, apart from time. It implements `EscalationLadder` (`SerialImplementsLadder`,
proved): the split is faithful and only overlapping adds behaviours. For two sessions this
is false, and the runs below say where.

### SlaClock and WorkBudget

`due_at` is shifted by the exact length of a pause when the clock resumes, and computed
anew from `started_at`, `total_paused_seconds` and the new target when the priority
changes. `total_paused_seconds` counts whole seconds, so time is counted in instants of
`1/Second` s. Two operations open a fresh window, the acceptance of an escalation
(`Restart`) and the reopening (`Reopen`); `cycle` counts them.

`WorkBudget` has no dates: a budget, spent only while the ticket is worked; a change of
target keeps what was spent, up to a fraction of a second for each pause so far. `Left`
is the refinement mapping: the distance of `due_at` from now, or from `paused_at`.

### RuleRun

Mails are numbered in the order of (`created_at`, `id`), the order a run pages through.
`created` is the last mail that has its `created_at`, `committed` are those whose intake
transaction is over: a mail may become visible behind the cursor of a scan, which is what
the second pass (`RECONCILE`) is for.

| variable | code |
|---|---|
| `run` | `rule_runs`: status, `cutoff_at`, and in `state` the phase, cursor, `forwards_sent_count` and attempts that a worker copies and writes back |
| `item` | `rule_run_items.status` of run and mail; `"unsent"` stands for SKIPPED, FAILED and ALREADY_APPLIED, which nothing tells apart |
| `notified` | mails with the notification that deduplicates forwards, of the live engine or of a run |
| `mailed` | no variable of the code: the e-mails that left |
| `done` | no variable of the code: the mails a worker of the run is through with, whether they left an item or not; no action reads it |
| `lock` | the advisory lock of a mail, held on a connection of its own over the commit of SENDING |
| `worker` | a process: where its tick is, `current_run_id`, its copy of the run, the rest of its page |

A step ends at an await at which another worker, or death, makes a difference. One mail
goes through `ProcessRow`, `CheckPrior`, then `NotSent` or `MarkSending`, `Send` and
`Settle`; `Orphaned` and `Unsettled` are the ways to UNKNOWN. Not every mail of a completed
run has an item: `PassOver` is a mail the rule does not match or whose evaluation raises, that
a rule of higher priority stops, or that is no longer visible (no item), or whose action is
invalid, blocked or out of scope (an item); `Escaped` is an exception that is no infrastructure
error and that nothing has recorded: `_process_row` rolls back, counts the mail as failed and
goes on, without an item, or with the SENDING item that was committed before. So what a
completed run promises is that its workers were through with each mail (`done`). `Persist` and `Finish` are
not actions but parts of the actions that call them. `InfraFailure` is
`_handle_infrastructure_failure`, each of whose writes may itself fail; `Crash` loses the
process, its copy and its lock. The heartbeat is written once a page, and a page is up to
200 mails, so any running run may look abandoned and be claimed by another worker.

`ForwardLedger` is the promise: each run has one record for each mail; a forward is on
record before its e-mail leaves (`Intend`, `Leave`), one forward of a mail is under way at a
time whatever the run, and when it is over the record says what happened (`Conclude`) or
nobody is told (`Abandon`); a record may be doubted by somebody else at any time. `item`,
`mailed` and `notified` map to themselves, and under way is what a worker is at while it
holds the lock (`Underway`).

Simplified: a rule has one action, `forward_to` with one recipient; whether it applies to a
mail is left open each time the mail is looked at; errors are neither counted nor recorded;
revalidation may cancel a run whenever it is made. Assumed of the rest of the
system: an intake transaction is not open for `RECONCILE_WINDOW` of newer mail nor beyond
`RECONCILE_GRACE` (`Arrive`, `GracePasses`), as the comment on these constants presupposes; an
exception of the mail provider means that nothing was sent, as the code takes it; the
lock is lost only with its process.

### SlaSweep

Extends `SlaClock` by the first response clock (`response`), the ledger (`ledger` holds the
committed rows, `notices` counts the notifications behind each) and database sessions. A
session is a tick of the scheduler or a first reply; `at` is the `now` it computed when it
began. A tick reads both lists of clocks (`Classify`), inserts the rows that are new
(`Record`), notifies (`Notify`, each in its savepoint), escalates (`AutoEscalate`) and
commits; an answer classifies its own clock, records what no later sweep will see, and
completes it. Uncommitted rows make other sessions that insert them wait (`RowsFree`); any
session may be rolled back, and a notification or an escalation may fail alone. Cutoffs are
tenths of the target. The escalation is reduced to none, open or accepted, since
`EscalationLadder` has the rest. `crossed` is no variable of the code: what the clock has
reached in which cycle. Resolving a ticket completes its clock and leaves the escalation
(`ResolveTicket`); closing it closes the escalation too, also if the clock is completed already
(`CloseTicket`); a breached handling stage takes an acceptance back (`StageBreached`).

### TicketAssignments

| variable | code |
|---|---|
| `ticket` | `tickets`: `current_status`, `agent_id`, `ticket_type` |
| `assignment` | `ticket_assignments`: user, `is_primary`, `removed_at`, status; and of `ticket_assignment_slas` how many runs there were (`runs`), the one not completed (`live`) and whether it is paused |
| `category` | `ticket_categories`: the primary, or `NoCategory`, and the others |
| `sess` | what a request loaded before it awaited |
| `slips` | no variable of the code: which of the late writes below have happened |

The operations of `TicketAssignmentService` lock the ticket row and then read: one step
each (`ChangePrimary`, `CloseTicket`, `ReopenTicket`, `AddCategory`, `RemoveCategory`, and
`Claim`, whose UPDATE has its own guard). The routes that add and remove an assignee load
the primary assignment before the lock and compare later with that object, which SQLAlchemy
keeps: `BeginAssign` remembers it, `TakenForPrimary` is what the session then believes.
Status changes, transfers, PATCH and customer replies load without a lock: `Begin...` and
`Commit...`. A column is written when it gets another value than the loaded one. A
violation of a unique index rolls the request back.

`ticket_type` is a string that nothing validates: creation and PATCH take any of `Names`, of
which only `Categories` are in the table of categories. `sync_primary_category` skips a name
that is not (`Synced`), so `ticket_type` then says something else than the primary category,
until the next known name or the removal of the primary category. Only transfers refuse such
a name. Therefore `TypeIsMainCategory` is about a `ticket_type` that is the name of a category:
it names the primary one. A ticket that never had a known name has no category, and the first
one added becomes primary.

Late writes are where the properties stop: a move to another category that names the owner
it loaded, or a request that names the primary it loaded (`"owner"`); a status or a paused
clock written over a close, a removal or a completion (`"work"`); a PATCH of the category
it loaded (`"type"`). The properties say that nothing else puts ticket, rows and clocks out
of step, in any order and number of requests.

Simplified: `PENDING` counts as `IN_PROGRESS`, an SLA policy is configured. Left out: who is
eligible, the deadline of a run and its breach (the arithmetic of `SlaClock`), the shift on a
change of priority, deletion of a ticket, renaming and deleting categories (a renaming leaves
the old name in `ticket_type`, as `models/ticket_category.py` says).

### OutboundMail

`message` is `dispatch_status` and the idempotency key of each interaction, `attempt` how
often it was scheduled, `open` whether `send_after` lies ahead. `task` is the coroutine in
`_background_tasks` of each attempt: it sleeps, reads the row again, calls Graph, writes the
result. `click` and `cancel` are requests under way: `SendLoad` looks the key and the draft up,
`SendCreate` inserts and schedules (the index on the key decides a race), `SendFinish`
deletes the draft in a transaction of its own; `CancelLoad` reads status and window,
`CancelCommit` writes. Retry is a conditional UPDATE and one step. `AnswerLost` is an
e-mail Graph took without saying so, `ResultIsLost` a failed commit after the call, `Restart`
the death of the process with its tasks. `sent`, `lost`, `undone` and `interrupted` are
histories for the properties. Texts, recipients and attachments are left out.

### MailIntake

One mailbox. `memory` is the poller's checkpoint and failure counts in the process, `saved`
the copy in `mailbox_poll_state`, `tick` a tick under way with its listing (`todo`) and the
earliest failure that holds the checkpoint back (`hold`). `receiver` is a call of
`receive_email`, by the poller or by the webhook: `Match` looks for the thread, `Insert`
waits for the unique index on the message, `Store` commits with the replies that waited for
it (`Orphans`). The webhook may come late, twice or never. A listing filters by whole
seconds (`Literal`) and ends at its last page (`PageCap`); a process without a checkpoint
looks back `Lookback`. `outOfSight`, `refused` and `givenUp` record how a message may end
other than stored. `WalkUp` is the chain of parents that the code follows to a root, as the
least set of rows closed under parents; in a loop it has no root. The conversation is Graph's and a constant of an instance.

Assumed: no two events fall on one instant, so that a message is either before or after the
start of a tick; a bounce names no conversation. Left out: the renewal of subscriptions, the
mapping of an address to a client, attachments.

### MailReminders

`reminder` is a row of `mail_reminders`: its thread, status, and `remind_at` as a number of
its own for each date set and whether that lies ahead. `request` is what a request of the
user has loaded: it decides on the status it read (`LoadReminder`) and writes later
(`CommitRequest`), and then only the columns that get another value than the loaded one, so
that only a snooze which loaded a fired reminder writes the status. `sweeper` is the tick of a
process: `Claim` locks a due row others skip, `Fire` notifies, writes the status and commits,
`FireFails` rolls back and leaves the row out of this tick, `SweepDies` ends the tick.
`reachable` is what `Fire` finds out about mail and user. `notices` counts committed
notifications; `late` has the rows whose last request loaded them before the sweep fired them.
The order of the claims (the oldest first) is left open, so the properties hold for any.

## Runs

| run | expected | shows |
|---|---|---|
| `ladder` | pass | all handlers and sweep passes, atomic: pairing of acceptance and stage, owner and chain, clock and ticket, freeze; an unanswered escalation reaches the site lead |
| `ladder_stale` | violation | a stage deadline left on a closed escalation withdraws the acceptance of the next one |
| `sessions` | pass | two overlapping sessions: one open escalation, no stage without a handling row; one session, every operation, tickets with and without a clock: `EscalationLadder` is implemented |
| `sessions_ack` | violation | an acceptance is overwritten by the sweep's advance |
| `sweep` | pass | the resolution clock alone: until a fresh window its dates are a work budget, and `due_at` never undercuts a full target; two sweeps and answers: a threshold is notified once in a cycle and only if it was crossed, a late answer is on record, an overdue ticket is escalated |
| `clock_reopened` | violation | a priority change after a reopening credits old pauses again |
| `desk` | pass | one owner whom the ticket names, one clock for everybody with work to do and never a second, nothing open on a closed ticket, a `ticket_type` that names a category names the primary one, in five settings of requests |
| `rule_run` | pass | two workers on one run, one fault: the workers of a completed run were through with every mail up to its cutoff, with an item or without, and a queued run ends |
| `rule_run_pair` | pass | two runs of two rules on one mail, one fault: a run forwards once and does not deny it, two runs do not both record a forward, and records, notifications and locks together are a `ForwardLedger` |
| `rule_run_duplicate` | violation | two runs forward the same mail, the first of them with an UNKNOWN outcome |
| `mail` | pass | outgoing: no duplicate but for a lost answer, the row tells the truth, one key is one message, a timely undo is final, no message is stuck without a cause; incoming: no checkpoint passes over mail, all mail is handled, replies find their thread; reminders: none is notified twice for one date, by sweeps that fail or die in between, and the last date set is notified, whatever other tabs do, but for a request that had loaded it before it fired |
| `mail_thread` | violation | a reply stored before its original, in one conversation, and the original become each other's parent |

Bounds. Ladder: two escalations per ticket (`MaxRows`): the interesting histories are a
closed escalation followed by another one, and a third adds none, since only the open row
and the rows with a deadline left on them are ever read. `MaxStage` 1: the stage only picks a
percentage, and its bound is where the list repeats its last entry. Chains of one and two
people: shorter than, equal to and beyond the position all occur; `sessions` has chains of
one, the proofs have any. Every ticket of `ladder` has an SLA policy, which
`LiveTicketHasLiveClock` needs; tickets without a clock occur in `sessions`. Two sessions: every race found needs two.

Sweep: setting `clock` has ten instants, two to the second, two pauses, two fresh windows,
targets 2 and 5: overdue, paused over the deadline, truncated pauses and both directions of a
priority change occur (`clock_reopened` has three pauses and one window). The settings with
sweeps have two sessions, a target of one instant and two instants of time: each threshold
is reached on time, late, and between two sessions; one fault and one fresh window of the
clock, and no pause between a reading and its record, which the proof of `LedgerIsTrue` has.

Desk: three users, three rows, two runs of a clock, two sessions; `serial` one request at a
time with two users and one category; `statuses`, `replies`, `owner` and `types` let two
requests of a kind overlap, and only `owner` needs the third user (two successors of one
primary). `types` has two categories and a name that no category has. A run of the model ends at the first slip, after which the properties say less;
the proofs go on after it.

Rule runs: two workers are enough to take a run over and to wait for each other's lock; two
mails, pages of one and a window of one make a mail appear behind the cursor; `MaxAttempts`
0 and 1 are the last failure and the one before; one fault (`MaxFaults`) is the crash
between two commits, and more only repeat it, which the proofs cover for any number. With two
runs, states are one that differ only in the history `done` or in how a run ended (`VIEW` of
`RuleRunPair.cfg`): no action and no property of that setting reads either.

Mail: setting `undo` has one message with two undo requests, three attempts and two lost
answers, so a retry may be retried; `keys` two clicks with and without a key on one
draft; each with one restart or failed commit. `poll` has two messages, a reply and its
original or a bounce and a refused one, two failures or restarts, a limit of two tries, five
instants: a failure is repeated to the limit, or survives a restart. `hook` adds the
webhook with three instants and one failure. `Lookback` 2 is reached in
both; with two messages no page is cut off (`PageCap`), the proofs have any cap; with a bounce the poller has four instants. `tabs` has two requests that change one
reminder beside a sweep, `sweeps` two sweeps of two reminders, one of which a request changes,
with one failure or death; a tick handles one reminder and each has two dates, so a tick is
full, and a snoozed reminder fires again. `Mail.cfg` gives each mail a conversation of its own, so that threading goes by the
message that is answered; `MailThread.cfg` one conversation to both. The proofs have any
number of messages, requests and faults, and any limits.

Fairness, for the liveness properties only. `UnansweredReachesTop`: deadlines pass, and the
sweep passes that create and advance escalations run again and again, since
`core/sla_scheduler.py` starts one every few seconds whatever happened in the last. No
agent is obliged to act. `SweepsEscalateOverdue`: a session that may start a tick or go on
does; failures are bounded. `RunEnds`: a worker that can go on does, since the scheduler
starts a tick every 15 seconds in each process and the awaits of a tick return; open intake
transactions end, and time passes. `PendingSendEnds`: the window closes, the event loop
runs its tasks and a call of Graph ends, since it has a timeout. `MailIsHandled`: the
scheduler starts the poller again and again, one tick at a time (`max_instances=1`), and a
webhook transaction that holds an insert ends. `ReminderComes`: time passes and each process
starts a tick every few seconds, whose awaits return; failures are bounded. Nothing is assumed of users, requests, faults
or new mail.

`CHECK_DEADLOCK FALSE` is set for the clock and sweep runs, where the model's time ends at
`MaxTime`; for the mail runs, which end when all messages, requests and instants are used
up; and for `desk`, which ends at a slip.

## Proofs

Checked by TLAPS for all values of the constants that satisfy the named assumptions
(`LadderAssumption`, `SessionsAssumption`, `ClockAssumption`, `SweepAssumption`,
`AssignmentsAssumption`, `RuleRunAssumption`, `OutboundAssumption`, `IntakeAssumption`,
`ReminderAssumption`): limits are natural numbers, and those that would stop the code at zero
(a page, the reconcile window, tries, dates) are positive.

`EscalationLadderProofs`: the invariants of run `ladder` are not inductive one by one. A
row keeps its type only if its position lies within its chain; the pairing of stage and
acknowledgement needs that an unused row is blank and has no stage deadline; that a closed
ticket has no open escalation needs that its clock is completed, and thereby that clock and
ticket agree. `RowInv` is the part about one row, `IInv` the rest. `Invariance` proves `IInv`
step by step, one lemma for each kind of row operation (a new, moved, accepted or closed row)
shared by the handlers that use it. The six invariants and `FrozenTicketIsNotWorked` follow.

`EscalationSessionsProofs`: for any number of overlapping sessions of every operation,
types, `OneOpenEscalation` and `HandlingRowMeansAccepted` hold. The last is the surprising
one: a stage and its handling row are written together from one decision, and the decision
is taken on the reloaded row whenever the row may have changed in the relevant way, so the
freeze stays right although acceptance and stage fall apart (`sessions_ack`). `SInv` also
says what a session may have loaded. That one session at a time implements the ladder needs
`ServedAlone`: while a session is under way no other is, and what it loaded is still in the
row and still passes the guards it passed (`StillGuarded`), whatever deadlines lapse
meanwhile. So its late writes are the writes of the ladder (`FreshWrites`), and
`SerialSessionsKeepTheLadder` gives back the ladder's invariants that overlapping takes away.

`SlaSweepProofs`, the clock: `ClockTypeCorrect`; `NeverOverdueEarlyHolds`, with every
operation; and `ClockImplementsBudget`, the refinement of `WorkBudget` until a fresh window is
opened (`cycle' = 0`), from `Accounted`: `due_at` exceeds target, start and counted pauses by
less than a second for each pause.

The sweep: `SweepImplementsClock`, whence `SweptClockIsNotEarly`. `NotifiedOnceHolds`
needs the unique index in the form of `LedgerInv`: a row is in the ledger or in one open
session, so whoever notifies is alone with its row. `LedgerIsTrueHolds` needs that a reading
as of an earlier instant may miss a threshold but adds none (`EarlierReadsLess`), and that
what a session found stays crossed in the cycle it read, whatever the clock does since.
`LateAnswerIsOnRecordHolds` follows an answer through its waits: from the insert on, the breach
is in its own rows or in the ledger (`LateInv`).

`TicketAssignmentsProofs`: `IInv` says of ticket, table, categories and slips that they are
`Consistent`; the properties are its parts. Of the categories it says that whatever name a
request brings, the primary one is that of the table it names or stays what it was
(`SyncedCategory`). To be inductive it needs what stale sessions rely
on: that a row, once used, is never unused again, so that what a session holds is a used
row; that only a live run is paused, since a reply revives what it saw paused; and that the
numbers of runs only grow. The lemmas come in three layers: what an operation does to one
row, to the table, and one lemma for each action, which splits a late write into the case
that is a slip and the case that is as good as locked.

`RuleRunProofs`: `ForwardIsOnRecordHolds` and `OneSentForwardPerMailHolds`, for any number
of runs, workers, mails, pages, crashes and failures. Neither is inductive. That a run does
not send again rests on the item: only the worker that put SENDING where there was none may
send (`MayMark`). That its record does not deny the e-mail needs more, because a worker
that took the run over meanwhile may turn SENDING into UNKNOWN, and because `Settle` writes
whatever it finds: `Holds` says that under the lock the item is unresolved, that there is
no notification, and that the mail was sent as often as the worker's point says; `RecordOK`
adds that a recorded forward has its notification, so that the next run under the lock
sees it. `Placed` says that nobody is at a mail whose transaction is open, where the live
engine could still notify. The steps outside the lock share `MovedWorker` or `ItemWritten`,
those that give it back share `Released`, which uses `LockExcludes`: two workers under the
lock are at different mails.

`CompletedRunMissesNothingHolds` is about all copies of a cursor at once. A worker writes back
the state it read long ago, so a cursor may go backward in the row, and a page may be worked
by two. `Certified` makes that harmless: a state, wherever it is kept, has left behind only
mails that some worker of the run was through with, and `done` only grows; so an old state stays certified, and writing
it over a newer one costs work, not mail. In the first pass a cursor answers only for what is
older than the window, since mail younger than that may still become visible behind it
(`WindowHolds`); the second pass answers for the rest, after the grace. `PageOK` says the same
of a page in hand.

`RunsImplementLedger`: every step of `RuleRun` is a step of `ForwardLedger` or leaves it alone.
`MarkSending` intends, `Send` lets the e-mail leave, `Settle` concludes, a crash or failure
under the lock abandons, and what other workers write over a record doubts it. The mapping of
`Settle` needs what a worker under the lock knows (`LockedKnows`): it writes `SENT` exactly if
an e-mail left, no matter what stands in the record by then.

`OutboundMailProofs`: the four safety properties of outgoing mail and its types. The
invariant is about each message by itself: attempts take turns (`TasksInTurn`), what a task
knows of the e-mails that left (`TaskKnows`), what the row knows of its tasks (`RowKnows`):
`SENT` and `FAILED` mean that no task is left, and inside the window none is at Graph,
whence a timely undo meets a task that has still to read the row.

`MailIntakeProofs`: `NothingIsPassedOverHolds`. A waiting message is on the list of the tick,
or holds the checkpoint back, or came later than the list (`Accounted`); both checkpoints lie
behind whatever arrives next (`CheckpointsAreBehind`). The poller takes its list in the order
of arrival, which is why the earliest failure is the one to hold at. `PolledThreadsHold` and
`PolledRepliesFindTheirThreadHolds` are about the poller alone: `ThreadInv` says that a row
stands under another only once its original is stored, that a parent is older than its child,
and that what a call of `receive_email` found is still what there is. They assume that each
message has a conversation of its own (`OwnConversations`), so that it is threaded by what it
answers; with a shared conversation the property is false (run `mail_thread`). And they assume
that a message answers an earlier one (`AnswersEarlier`), which no clock of this program
guarantees but every mail does: nobody answers what was not written. Ages replace an
induction along the chain of parents, because `WalkUp` is a least closed set.

`MailRemindersProofs`: `RemindedOnceHolds` and `OnlyTheSweepOwesHolds`, for any number of
reminders, requests and processes. `RemInv` says of a row that no date later than its own is
notified, that its own is not while it is `ACTIVE`, and that it is once it is `FIRED`, unless
a request that had loaded it before moved the date; of a process, that what it claimed is
due and claimed by no other, which is what the row lock with `SKIP LOCKED` gives.

Promises under a condition. For a promise of the documentation that a violation run refutes,
the proofs say when it holds after all:

| promise (run) | theorem | holds for |
|---|---|---|
| an accepted escalation is withdrawn only when its own stage lapses (`ladder_stale`) | `AcceptanceKeptUnlessStaleBreach` | any step before which no closed escalation of the ticket has a lapsed stage deadline; from `SingleOpen`, at most one escalation is open |
| an acceptance runs its stage (`sessions_ack`) | `SerialSessionsKeepTheLadder` | a process that serves one request or pass at a time |
| a change of priority keeps what was consumed (`clock_reopened`) | `PriorityKeepsConsumptionUnlessReopened` | a clock never reopened; from `PausesInWindow`, the counted pauses lie in the present window |
| no mail is forwarded twice (`rule_run_duplicate`) | `NoSecondForwardOfOneProcess` | one process, through any crashes and failures: nothing is sent between its look at earlier runs and its lock |
| every row is in a thread with a root (`mail_thread`) | `PolledThreadsHold` | the poller alone and conversations of one message |

Model-checked only: the liveness properties, since fairness and `ENABLED` are out of the
prover's reach: `UnansweredReachesTop`, `RunEnds`, `SweepsEscalateOverdue`, `PendingSendEnds`,
`MailIsHandled`, `ReminderComes`. Every safety property of a passing run is proved.

## Findings

The five violation runs disagree with a docstring or comment of the code each;
`PROJECT.json` quotes them. In short: the guard of `advance()` ignores the acknowledgement it would withdraw;
`close()` leaves a deadline that is read without looking at the status; reopening keeps
paused seconds of the time before; a rule run looks for unresolved forwards of other runs
before it waits for the lock, and not again when it has it; an original that arrives after
its reply is threaded under it and takes it as its own reply, so no inbox lists the two.

Seen while modelling, without a run of their own: a status change, a
transfer or a PATCH that loaded the ticket before a close writes over `CLOSED`; a customer
reply sets a clock running that was completed since it loaded it; a request that names as
primary the assignment it loaded as such, after another was promoted, leaves `agent_id` and
the rows apart; a promoted secondary keeps a status the ticket does not mirror; a ticket
without a clock closes and its escalation stays open; a resume that overlaps a close runs a
completed clock; an edit or snooze that loaded a reminder before the sweep fired it moves
the date and leaves the status `FIRED`, where `models/mail_reminder.py:37` says "remind_at
moves, status returns to ACTIVE", so the reminder never comes; what lies beyond the last page of a listing is not listed again; a
ticket created or patched with a type that no category has keeps its primary category, or none,
where `models/ticket_category.py:18` says that `ticket_type` "mirrors the PRIMARY row's category
name".

## Plan

1. Done: the eleven modules above and their proofs.
2. The deadline of an assignee's clock, its breach in the sweep and its shift on a change of
   priority, as a second instance of `SlaClock`.
3. Rules on arrival: conditions, order, stop; several recipients and actions.
4. Read receipts and bulk actions; the renewal of webhook subscriptions; the permission cache
   beside a revocation.
5. Proofs: sweep escalation against close in `EscalationSessions`; threads with shared
   conversations, once the original is the first to be stored; the clock whose resume or pause
   overlaps a close (`T/repositories/resolution_sla_repository.py:163`), for which `SlaClock`
   first needs a load apart from its write.

Not modelled, and why: RBAC decisions, impersonation and authentication (no state of the
modelled parts depends on them beyond `mayAccept` and the users who may be assigned),
notifications and audit rows (nothing reads them back), the requests to Graph, HTML and
signatures, composing and the drafts of tickets, attachments and storage, routes, schemas,
migrations, scripts, shared models and the frontend (input, output and presentation).
