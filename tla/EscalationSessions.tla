--------------------------- MODULE EscalationSessions ---------------------------
(***************************************************************************)
(* The handlers of EscalationLadder as database sessions.  A session loads *)
(* rows and checks its guards (Begin...), awaits, and writes later         *)
(* (Commit); PostgreSQL runs it READ COMMITTED, without row locks except   *)
(* in close_ticket and reopen_ticket, so what it writes is computed from   *)
(* rows other sessions may have changed meanwhile.  Request handlers,      *)
(* the sweep of this process and the sweep of a second process that shares *)
(* the database are all sessions.                                          *)
(*                                                                         *)
(* A handler whose decision is taken by its own UPDATE or under a row lock *)
(* (claim, close, reopen) is a session that begins and commits in one step.*)
(***************************************************************************)
EXTENDS EscalationLadder

CONSTANTS
    Sessions,    \* the sessions that may overlap
    Overlapping  \* the operations that load and write in two steps in this
                 \* instance; the other ones are left out of it

Operations == {"confirm", "transfer", "status", "priority", "escalate_new",
               "escalate_again", "pause", "resume", "auto", "overdue", "breached"}

ASSUME SessionsAssumption == Overlapping \subseteq Operations /\ Sessions # {}

VARIABLE sess    \* what each session loaded before it awaited

svars == <<ticket, clock, esc, sess>>

Idle == [op |-> "idle"]

\* The columns the later write depends on.
Loaded(row) ==
    [status |-> row.status, chain |-> row.chain, pos |-> row.pos,
     owner |-> row.owner, stage |-> row.stage, window |-> row.window]

\* A session is free to serve the next request or sweep.
Free(s) == sess[s] = Idle

Load(s, record) ==
    /\ Free(s)
    /\ record.op \in Overlapping
    /\ sess' = [sess EXCEPT ![s] = record]
    /\ UNCHANGED vars

---------------------------------------------------------------------------
(* Loading: the guards of EscalationLadder, on what is there now           *)

\* Mutant: the lookup does not leave out closed escalations.
BeginConfirm_AnyRow(s, e) ==
    /\ esc[e].status # "UNUSED"
    /\ Load(s, [op |-> "confirm", row |-> e, seen |-> Loaded(esc[e])])

BeginConfirm(s, e) ==
    /\ e \in OpenRows
    /\ Load(s, [op |-> "confirm", row |-> e, seen |-> Loaded(esc[e])])

BeginTransfer(s) ==
    /\ NotClosed
    /\ Load(s, [op |-> "transfer", status |-> ticket.status])

BeginStatus(s, new) ==
    /\ NotClosed /\ ~Frozen /\ new # "CLOSED"
    /\ Load(s, [op |-> "status", status |-> ticket.status, new |-> new])

BeginPriority(s) ==
    /\ NotClosed /\ ~Frozen
    /\ Load(s, [op |-> "priority"])

BeginEscalateNew(s) ==
    /\ NotClosed /\ OpenRows = {} /\ ticket.assigned
    /\ Load(s, [op |-> "escalate_new"])

BeginEscalateAgain(s, e) ==
    /\ NotClosed /\ e \in OpenRows
    /\ esc[e].window # "none" => ticket.assigned
    /\ ~IsTerminal(esc[e])
    /\ Load(s, [op |-> "escalate_again", row |-> e, seen |-> Loaded(esc[e])])

BeginPause(s) == clock.status = "RUNNING" /\ Load(s, [op |-> "pause"])

BeginResume(s) == clock.status = "PAUSED" /\ Load(s, [op |-> "resume"])

BeginAuto(s) ==
    /\ clock.status = "RUNNING" /\ clock.crossed
    /\ OpenRows = {}
    /\ Load(s, [op |-> "auto"])

BeginOverdue(s, e) ==
    /\ esc[e].status = "ACTIVE" /\ esc[e].ackLapsed
    /\ Load(s, [op |-> "overdue", row |-> e, seen |-> Loaded(esc[e])])

BeginBreached(s, d, e) ==
    /\ esc[d].window = "lapsed" /\ e \in OpenRows
    /\ Load(s, [op |-> "breached", row |-> e, seen |-> Loaded(esc[e])])

---------------------------------------------------------------------------
(* Writing                                                                 *)

\* Mutant: no unique index on open escalations.
Store_NoIndex(e, row) == esc' = [esc EXCEPT ![e] = row]

\* A row becomes what the statement makes of it; a violation of the unique
\* index rolls the transaction back.
Store(e, row) ==
    LET rows == [esc EXCEPT ![e] = row]
    IN  esc' = IF IndexAllows(rows) THEN rows ELSE esc

Insert(chain) ==
    IF \E e \in Rows : IsFree(e)
    THEN \E e \in Rows : IsFree(e) /\ Store(e, NewRow(chain))
    ELSE UNCHANGED esc

\* Mutant: the acceptance gives the clock no fresh window.
CommitConfirm_NoRestart(e, seen) ==
    Store(e, Accepted(esc[e], seen)) /\ UNCHANGED <<ticket, clock>>

CommitConfirm(e, seen) ==
    /\ Store(e, Accepted(esc[e], seen))
    /\ clock' = IF esc' # esc /\ StartsStage(esc[e], seen) /\ clock.status # "NONE"
                THEN Restarted(clock) ELSE clock
    /\ UNCHANGED ticket

CommitTransfer(status, mayAccept) ==
    /\ ticket' = [ticket EXCEPT !.assigned = TRUE,
                                !.status = IF status = "OPEN" THEN "IN_PROGRESS" ELSE @]
    /\ AcceptByAssignment(mayAccept)

\* An assignment of the value already loaded writes nothing.
CommitStatus(old, new, policy) ==
    /\ ticket' = [ticket EXCEPT !.status = IF new = old THEN @ ELSE new]
    /\ clock' = ClockAfterStatus(clock, old, new, policy)
    /\ UNCHANGED esc

\* The clock is loaded in the second half, just before it is written.
CommitPriority(policy, crossed) ==
    /\ clock' = Reshifted(clock, policy, crossed)
    /\ UNCHANGED <<ticket, esc>>

CommitClock(status) ==
    /\ clock' = [clock EXCEPT !.status = status]
    /\ UNCHANGED <<ticket, esc>>

\* create() is reached after a second look for an open escalation.
CommitAuto(chain) ==
    /\ IF OpenRows = {} THEN Insert(chain) ELSE UNCHANGED esc
    /\ UNCHANGED <<ticket, clock>>

CommitEscalateNew(chain) == Insert(chain) /\ UNCHANGED <<ticket, clock>>

\* Losing the race is an error of the request, which rolls everything back...
CommitEscalateAgain(e, seen) ==
    /\ IF SameStep(esc[e], seen) THEN Store(e, Climbed(esc[e], seen)) ELSE UNCHANGED esc
    /\ UNCHANGED <<ticket, clock>>

\* ...but the sweep carries on, and the cleared deadline is still flushed.
CommitOverdue(e, seen) ==
    /\ Store(e, IF SameStep(esc[e], seen) THEN Climbed(esc[e], seen)
                                          ELSE Cleared(esc[e], seen))
    /\ UNCHANGED <<ticket, clock>>

CommitBreached(e, seen, chain) ==
    /\ Store(e, IF SameStep(esc[e], seen) THEN Rechained(esc[e], seen, chain)
                                          ELSE Cleared(esc[e], seen))
    /\ UNCHANGED <<ticket, clock>>

Commit(s) ==
    LET t == sess[s] IN
    /\ \/ t.op = "confirm"        /\ CommitConfirm(t.row, t.seen)
       \/ t.op = "transfer"       /\ \E m \in BOOLEAN : CommitTransfer(t.status, m)
       \/ t.op = "status"         /\ \E p \in PolicyStates : CommitStatus(t.status, t.new, p)
       \/ t.op = "priority"       /\ \E p \in PolicyStates, x \in BOOLEAN : CommitPriority(p, x)
       \/ t.op = "pause"          /\ CommitClock("PAUSED")
       \/ t.op = "resume"         /\ CommitClock("RUNNING")
       \/ t.op = "escalate_new"   /\ \E c \in Chains : CommitEscalateNew(c)
       \/ t.op = "escalate_again" /\ CommitEscalateAgain(t.row, t.seen)
       \/ t.op = "auto"           /\ \E c \in Chains : CommitAuto(c)
       \/ t.op = "overdue"        /\ CommitOverdue(t.row, t.seen)
       \/ t.op = "breached"       /\ \E c \in Chains : CommitBreached(t.row, t.seen, c)
    /\ sess' = [sess EXCEPT ![s] = Idle]

---------------------------------------------------------------------------
SInit == Init /\ sess = [s \in Sessions |-> Idle]

Begin(s) ==
    \/ BeginTransfer(s) \/ BeginPriority(s) \/ BeginEscalateNew(s) \/ BeginAuto(s)
    \/ BeginPause(s) \/ BeginResume(s)
    \/ \E new \in Statuses : BeginStatus(s, new)
    \/ \E e \in Rows : BeginConfirm(s, e) \/ BeginEscalateAgain(s, e) \/ BeginOverdue(s, e)
    \/ \E d, e \in Rows : BeginBreached(s, d, e)

\* Decided by their own UPDATE or under FOR UPDATE on the ticket row.
Locked ==
    \/ \E m \in BOOLEAN : Claim(m)
    \/ CloseTicket
    \/ \E p \in PolicyStates : ReopenTicket(p)
    \/ \E e \in Rows : MarkHandlingBreached(e)

SNext ==
    \/ \E s \in Sessions : Begin(s) \/ Commit(s)
    \/ (\E s \in Sessions : Free(s)) /\ Locked /\ UNCHANGED sess
    \/ Time /\ UNCHANGED sess

SSpec == SInit /\ [][SNext]_svars

\* One session at a time: nothing else is served while one is under way.  Time
\* passes all the same.
AllFree == \A s \in Sessions : Free(s)

SerialNext ==
    \/ AllFree /\ SNext
    \/ ~AllFree /\ (\E s \in Sessions : Commit(s))
    \/ ~AllFree /\ Time /\ UNCHANGED sess

SerialSpec == SInit /\ [][SerialNext]_svars

---------------------------------------------------------------------------
(* Properties                                                              *)

LoadedType ==
    [status : OpenStatuses, chain : Chains \cup {<<>>}, pos : Positions, owner : Owners,
     stage : 0 .. MaxStage, window : {"none", "running", "lapsed"}]

InFlight ==
    [op : {"confirm", "escalate_again", "overdue", "breached"}, row : Rows, seen : LoadedType]
      \cup [op : {"transfer"}, status : Statuses]
      \cup [op : {"status"}, status : Statuses, new : Statuses \ {"CLOSED"}]
      \cup [op : {"priority", "escalate_new", "auto", "pause", "resume"}]

\* The rows keep their shape, and a session holds what its operation loads.
SessionsTypeOK == TypeOK /\ sess \in [Sessions -> InFlight \cup {Idle}]

\* However manual and automatic escalation, acceptance and advancement of one
\* ticket overlap, it never has two escalations open: two chains of owners
\* would be notified, and every reader takes an arbitrary one.
OneOpenEscalation == Cardinality(OpenRows) <= 1
=============================================================================
