---------------------------- MODULE EscalationLadder ----------------------------
(***************************************************************************)
(* One ticket of the ticketing service with everything its escalation      *)
(* touches: the ticket row, its Resolution SLA clock, the rows of          *)
(* ticket_escalations and, folded into each of them, its latest row of     *)
(* escalation_handling_slas.  Every request handler and every pass of the  *)
(* SLA sweep is one atomic step here; EscalationSessions interleaves them. *)
(*                                                                         *)
(* Durations are abstracted: a deadline only ever is pending or has        *)
(* lapsed, and a lapse may come at any time.                               *)
(*                                                                         *)
(* The operators that compute a row take two rows: "row", what the         *)
(* database holds when the statement runs, and "seen", what the handler    *)
(* had loaded when it decided.  In this module the two are the same.       *)
(***************************************************************************)
EXTENDS Naturals, FiniteSets, Sequences

CONSTANTS
    MaxRows,       \* bound: escalations the ticket may ever get
    MaxStage,      \* bound: the stage counter stops here, where the list of
                   \* stage percentages repeats its last entry anyway
    Chains,        \* the chains build_chain_owner_ids may return
    SiteLead,      \* the owner once a chain is exhausted
    PolicyStates   \* may an SLA policy be found (TRUE), be inactive (FALSE)

Rows == 1 .. MaxRows

\* IN_PROGRESS also stands for PENDING, which no handler tells from it.
Statuses == {"OPEN", "IN_PROGRESS", "WAITING", "RESOLVED", "CLOSED"}
ClockStatuses == {"NONE", "RUNNING", "PAUSED", "COMPLETED"}
OpenStatuses == {"ACTIVE", "ACKNOWLEDGED"}
Owners == {SiteLead} \cup (UNION {{c[i] : i \in 1 .. Len(c)} : c \in Chains})
Positions == 0 .. 10                       \* MAX_CHAIN_DEPTH = 10

ASSUME LadderAssumption ==
    /\ MaxRows \in Nat \ {0}
    /\ MaxStage \in Nat \ {0}
    /\ \A c \in Chains : c \in Seq(Owners \ {SiteLead}) /\ Len(c) \in Positions
    /\ Chains # {}
    /\ PolicyStates \subseteq BOOLEAN /\ PolicyStates # {}

VARIABLES
    ticket,    \* the tickets row: status, and whether agent_id is set
    clock,     \* the resolution_slas row: status, and whether 100% was reached
    esc        \* the ticket_escalations rows, "UNUSED" ones not inserted yet

vars == <<ticket, clock, esc>>

---------------------------------------------------------------------------
(* Escalation rows                                                         *)

OwnerAt(chain, pos) == IF pos < Len(chain) THEN chain[pos + 1] ELSE SiteLead

NewRow(chain) ==
    [status |-> "ACTIVE", chain |-> chain, pos |-> 0, owner |-> OwnerAt(chain, 0),
     ackLapsed |-> FALSE, stage |-> 0, window |-> "none", handling |-> "none"]

UnusedRow == [NewRow(<<>>) EXCEPT !.status = "UNUSED"]

IsOpen(row) == row.status \in OpenStatuses
OpenRows == {e \in Rows : IsOpen(esc[e])}

\* The partial unique index: one non-CLOSED escalation per ticket.
IndexAllows(rows) == Cardinality({e \in Rows : IsOpen(rows[e])}) <= 1

\* The row the next INSERT takes; rows are handed out in order.
IsFree(e) == /\ esc[e].status = "UNUSED"
             /\ \A d \in Rows : esc[d].status = "UNUSED" => e <= d

\* The WHERE of the conditional UPDATE in advance(): level and position only.
Level(row) == IF row.owner = SiteLead THEN "SITE_LEAD" ELSE "ASSIGNMENT_CHAIN"
SameStep(row, seen) == row.pos = seen.pos /\ Level(row) = Level(seen)

\* Mutant: the advance forgets the deadline of the stage it ends.
Cleared_Kept(row, seen) == row

\* handling_stage_due_at := NULL on the loaded object, written out only if
\* that object had a value there.
Cleared(row, seen) ==
    [row EXCEPT !.window = IF seen.window = "none" THEN @ ELSE "none"]

\* The columns advance() writes.
Moved(row, pos, owner) ==
    [row EXCEPT !.status = "ACTIVE", !.pos = pos, !.owner = owner,
                !.ackLapsed = FALSE]

\* Mutant: the last hop of the chain is taken for its end.
IsTerminal_EndsEarly(row) == row.pos + 1 >= Len(row.chain)

IsTerminal(row) == row.pos >= Len(row.chain)

\* Mutants: the owner is looked up before the position moves; the chain is
\* consumed hop by hop.
Climbed_OldOwner(row, seen) ==
    Moved(Cleared(row, seen), IF IsTerminal(seen) THEN seen.pos ELSE seen.pos + 1,
          OwnerAt(seen.chain, seen.pos))

Climbed_ConsumesChain(row, seen) ==
    IF IsTerminal(seen) THEN Moved(Cleared(row, seen), 0, SiteLead)
    ELSE [Moved(Cleared(row, seen), 0, OwnerAt(Tail(seen.chain), 0))
            EXCEPT !.chain = Tail(seen.chain)]

\* One hop up the frozen chain, or a re-notification at its end.
Climbed(row, seen) ==
    LET pos == IF IsTerminal(seen) THEN seen.pos ELSE seen.pos + 1
    IN  Moved(Cleared(row, seen), pos, OwnerAt(seen.chain, pos))

\* A breached handling stage: a new chain, from its first position.
Rechained(row, seen, chain) ==
    [Moved(Cleared(row, seen), 0, OwnerAt(chain, 0)) EXCEPT !.chain = chain]

\* acknowledge() writes only if the loaded row was ACTIVE, and then reloads
\* it, so the stage guard that follows reads the current row in that case.
Reloaded(row, seen) == IF seen.status = "ACTIVE" THEN row ELSE seen
StartsStage(row, seen) == Reloaded(row, seen).window = "none"

HandlingOpen(row) == row.handling \in {"running", "lapsed"}

NextStage(n) == IF n < MaxStage THEN n + 1 ELSE n

Acknowledged(row, seen) ==
    IF seen.status = "ACTIVE" THEN [row EXCEPT !.status = "ACKNOWLEDGED"] ELSE row

\* Mutant: the stage starts without its handling row.
Accepted_NoHandlingRow(row, seen) ==
    IF ~StartsStage(row, seen) THEN Acknowledged(row, seen)
    ELSE [Acknowledged(row, seen)
            EXCEPT !.stage = NextStage(Reloaded(row, seen).stage), !.window = "running"]

\* _complete_acceptance together with start_if_not_started, which keeps a
\* handling row that is still open as it is.
Accepted(row, seen) ==
    LET acked == Acknowledged(row, seen)
        n     == NextStage(Reloaded(row, seen).stage)
    IN  IF ~StartsStage(row, seen) THEN acked
        ELSE [acked EXCEPT !.stage = n, !.window = "running",
                           !.handling = IF HandlingOpen(row) THEN @ ELSE "running"]

\* Mutant: only an unaccepted escalation is closed.
Closed_OnlyActive(row) ==
    IF row.status = "ACTIVE" THEN [row EXCEPT !.status = "CLOSED"] ELSE row

\* close() leaves handling_stage_due_at alone.
Closed(row) ==
    [row EXCEPT !.status = "CLOSED",
                !.handling = IF HandlingOpen(row) THEN "completed" ELSE @]

---------------------------------------------------------------------------
(* The Resolution SLA clock                                                *)

Paused(c)    == IF c.status = "RUNNING" THEN [c EXCEPT !.status = "PAUSED"] ELSE c
Resumed(c)   == IF c.status = "PAUSED" THEN [c EXCEPT !.status = "RUNNING"] ELSE c
Completed(c) == IF c.status = "NONE" THEN c ELSE [c EXCEPT !.status = "COMPLETED"]
Restarted(c) == IF c.status = "COMPLETED" THEN c ELSE [c EXCEPT !.crossed = FALSE]

\* reopen_resolution_clock: nothing without an active policy, otherwise the
\* clock is created or revived with a full window.
Reopened(c, policy) ==
    IF policy THEN [status |-> "RUNNING", crossed |-> FALSE] ELSE c

\* What a priority change leaves of "100% reached" depends on the targets.
Reshifted(c, policy, crossed) ==
    IF policy /\ c.status \in {"RUNNING", "PAUSED"}
    THEN [c EXCEPT !.crossed = crossed] ELSE c

\* Mutant: leaving RESOLVED does not revive the clock.
ClockAfterStatus_NoReopen(c, old, new, policy) ==
    IF new = "WAITING" /\ old # "WAITING" THEN Paused(c)
    ELSE IF old # "RESOLVED" /\ new = "RESOLVED" THEN Completed(c)
    ELSE IF old = "WAITING" /\ new # "WAITING" THEN Resumed(c)
    ELSE c

\* The clock calls of change_status, in their order.
ClockAfterStatus(c, old, new, policy) ==
    LET c1 == IF new = "WAITING" /\ old # "WAITING" THEN Paused(c)
              ELSE IF old = "WAITING" /\ new # "WAITING" THEN Resumed(c)
              ELSE c
    IN  IF old # "RESOLVED" /\ new = "RESOLVED" THEN Completed(c1)
        ELSE IF old = "RESOLVED" /\ new # "RESOLVED" THEN Reopened(c1, policy)
        ELSE c1

StatusAfterAssignment(old) == IF old = "OPEN" THEN "IN_PROGRESS" ELSE old

---------------------------------------------------------------------------
(* Guards shared by the handlers                                           *)

NotClosed == ticket.status # "CLOSED"

\* An open escalation that was never accepted has no handling row at all.
Frozen == \E e \in OpenRows : esc[e].handling = "none"

---------------------------------------------------------------------------
(* Effects, given what the handler had seen                                *)

Accept(e, seen) ==
    /\ esc' = [esc EXCEPT ![e] = Accepted(@, seen)]
    /\ clock' = IF StartsStage(esc[e], seen) /\ clock.status # "NONE"
                THEN Restarted(clock) ELSE clock

\* acknowledge_via_assignment, after the ticket row was written: it looks
\* the open escalation up now, and acts only for a caller who may transfer.
AcceptByAssignment(mayAccept) ==
    IF mayAccept /\ OpenRows # {}
    THEN \E e \in OpenRows : Accept(e, esc[e])
    ELSE UNCHANGED <<clock, esc>>

Create(e, chain) ==
    /\ esc' = [esc EXCEPT ![e] = NewRow(chain)]
    /\ UNCHANGED <<ticket, clock>>

WriteRow(e, row) ==
    /\ esc' = [esc EXCEPT ![e] = row]
    /\ UNCHANGED <<ticket, clock>>

---------------------------------------------------------------------------
(* Agents and supervisors                                                  *)

\* claim(): one conditional UPDATE decides.
Claim(mayAccept) ==
    /\ ticket.status = "OPEN" /\ ~ticket.assigned
    /\ ticket' = [ticket EXCEPT !.assigned = TRUE, !.status = "IN_PROGRESS"]
    /\ AcceptByAssignment(mayAccept)

Transfer(mayAccept) ==
    /\ NotClosed
    /\ ticket' = [ticket EXCEPT !.assigned = TRUE,
                                !.status = StatusAfterAssignment(@)]
    /\ AcceptByAssignment(mayAccept)

\* confirm_assignment, also the "keep the current assignee" branch of
\* acknowledge_and_assign_escalation; it does not look at the ticket status.
ConfirmAssignment(e) ==
    /\ e \in OpenRows
    /\ Accept(e, esc[e])
    /\ UNCHANGED ticket

\* Mutant: the escalation freeze is not checked.
ChangeStatus_IgnoresFreeze(new, policy) ==
    /\ NotClosed /\ new # "CLOSED"
    /\ ticket' = [ticket EXCEPT !.status = new]
    /\ clock' = ClockAfterStatus(clock, ticket.status, new, policy)
    /\ UNCHANGED esc

ChangeStatus(new, policy) ==
    /\ NotClosed /\ ~Frozen /\ new # "CLOSED"
    /\ ticket' = [ticket EXCEPT !.status = new]
    /\ clock' = ClockAfterStatus(clock, ticket.status, new, policy)
    /\ UNCHANGED esc

ChangePriority(policy, crossed) ==
    /\ NotClosed /\ ~Frozen
    /\ clock' = Reshifted(clock, policy, crossed)
    /\ UNCHANGED <<ticket, esc>>

\* complete_resolution_clock returns before closing the escalation when the
\* ticket has no clock.
CloseTicket ==
    /\ NotClosed /\ ~Frozen
    /\ ticket' = [ticket EXCEPT !.status = "CLOSED"]
    /\ clock' = Completed(clock)
    /\ esc' = IF clock.status = "NONE" THEN esc
              ELSE [e \in Rows |-> IF IsOpen(esc[e]) THEN Closed(esc[e]) ELSE esc[e]]

ReopenTicket(policy) ==
    /\ ticket.status = "CLOSED" /\ ~Frozen
    /\ ticket' = [ticket EXCEPT !.status = "OPEN"]
    /\ clock' = Reopened(clock, policy)
    /\ UNCHANGED esc

\* The caller is the agent while no stage runs yet or one runs, the current
\* owner in between; someone is there for each except an unassigned ticket.
ManualEscalateNew(e, chain) ==
    /\ NotClosed /\ OpenRows = {} /\ IsFree(e)
    /\ ticket.assigned
    /\ Create(e, chain)

ManualEscalateAgain(e) ==
    /\ NotClosed /\ e \in OpenRows
    /\ esc[e].window # "none" => ticket.assigned
    /\ ~IsTerminal(esc[e])
    /\ WriteRow(e, Climbed(esc[e], esc[e]))

ManualPause ==
    /\ clock.status = "RUNNING"
    /\ clock' = Paused(clock)
    /\ UNCHANGED <<ticket, esc>>

\* manual_resume, and a customer reply or an attached email while PAUSED.
Resume ==
    /\ clock.status = "PAUSED"
    /\ clock' = Resumed(clock)
    /\ UNCHANGED <<ticket, esc>>

---------------------------------------------------------------------------
(* The SLA sweep                                                           *)

\* Neither the sweep nor auto_escalate_if_needed reads the ticket status.
AutoEscalate(e, chain) ==
    /\ clock.status = "RUNNING" /\ clock.crossed
    /\ OpenRows = {} /\ IsFree(e)
    /\ Create(e, chain)

AdvanceOverdue(e) ==
    /\ esc[e].status = "ACTIVE" /\ esc[e].ackLapsed
    /\ WriteRow(e, Climbed(esc[e], esc[e]))

\* list_handling_stage_overdue yields d whatever its status; the advance
\* then goes to the open escalation e of the same ticket.
AdvanceBreached(d, e, chain) ==
    /\ esc[d].window = "lapsed"
    /\ e \in OpenRows
    /\ WriteRow(e, Rechained(esc[e], esc[e], chain))

MarkHandlingBreached(e) ==
    /\ esc[e].handling = "lapsed"
    /\ WriteRow(e, [esc[e] EXCEPT !.handling = "breached"])

---------------------------------------------------------------------------
(* The passing of time                                                     *)

SlaLapses ==
    /\ clock.status = "RUNNING" /\ ~clock.crossed
    /\ clock' = [clock EXCEPT !.crossed = TRUE]
    /\ UNCHANGED <<ticket, esc>>

AckWindowLapses(e) ==
    /\ esc[e].status = "ACTIVE" /\ ~esc[e].ackLapsed
    /\ WriteRow(e, [esc[e] EXCEPT !.ackLapsed = TRUE])

StageLapses(e) ==
    /\ esc[e].window = "running"
    /\ WriteRow(e, [esc[e] EXCEPT !.window = "lapsed"])

HandlingLapses(e) ==
    /\ esc[e].handling = "running"
    /\ WriteRow(e, [esc[e] EXCEPT !.handling = "lapsed"])

---------------------------------------------------------------------------
Init ==
    /\ ticket \in [status : {"OPEN", "IN_PROGRESS"}, assigned : BOOLEAN]
    /\ ticket.assigned <=> ticket.status = "IN_PROGRESS"
    /\ \E p \in PolicyStates :
           clock = [status |-> IF p THEN "RUNNING" ELSE "NONE", crossed |-> FALSE]
    /\ esc = [e \in Rows |-> UnusedRow]

Agents ==
    \/ \E m \in BOOLEAN : Claim(m) \/ Transfer(m)
    \/ \E e \in Rows : ConfirmAssignment(e) \/ ManualEscalateAgain(e)
    \/ \E s \in Statuses, p \in PolicyStates : ChangeStatus(s, p)
    \/ \E x \in BOOLEAN, p \in PolicyStates : ChangePriority(p, x)
    \/ CloseTicket
    \/ \E p \in PolicyStates : ReopenTicket(p)
    \/ \E e \in Rows, c \in Chains : ManualEscalateNew(e, c)
    \/ ManualPause \/ Resume

Sweep ==
    \/ \E e \in Rows, c \in Chains : AutoEscalate(e, c)
    \/ \E e \in Rows : AdvanceOverdue(e) \/ MarkHandlingBreached(e)
    \/ \E d, e \in Rows, c \in Chains : AdvanceBreached(d, e, c)

Time ==
    \/ SlaLapses
    \/ \E e \in Rows : AckWindowLapses(e) \/ StageLapses(e) \/ HandlingLapses(e)

Next == Agents \/ Sweep \/ Time

Spec == Init /\ [][Next]_vars

\* Deadlines do pass, and the sweep runs every few seconds whatever the
\* agents do; nothing obliges an agent to act.
Fairness ==
    /\ \A e \in Rows : WF_vars(AckWindowLapses(e)) /\ WF_vars(StageLapses(e))
    /\ \A e \in Rows : WF_vars(AdvanceOverdue(e))
    /\ \A e \in Rows : WF_vars(\E c \in Chains : AdvanceBreached(e, e, c))
    /\ WF_vars(\E e \in Rows, c \in Chains : AutoEscalate(e, c))

FairSpec == Spec /\ Fairness

---------------------------------------------------------------------------
(* Properties                                                              *)

RowType ==
    [status : OpenStatuses \cup {"UNUSED", "CLOSED"}, chain : Chains \cup {<<>>},
     pos : Positions, owner : Owners, ackLapsed : BOOLEAN, stage : 0 .. MaxStage,
     window : {"none", "running", "lapsed"},
     handling : {"none", "running", "lapsed", "breached", "completed"}]

\* Every row keeps its shape, under every handler and every sweep.
TypeOK ==
    /\ ticket \in [status : Statuses, assigned : BOOLEAN]
    /\ clock \in [status : ClockStatuses, crossed : BOOLEAN]
    /\ esc \in [Rows -> RowType]

\* A handling stage runs on an open escalation exactly while it is
\* acknowledged: "an escalation only ever has a running handling stage while
\* ACKNOWLEDGED, never ACTIVE" is what keeps the sweep's two candidate lists
\* disjoint (list_handling_stage_overdue).
StageRunsWhileAcknowledged ==
    \A e \in OpenRows : esc[e].status = "ACKNOWLEDGED" <=> esc[e].window # "none"

\* The owner who is notified and may accept is always the one the frozen
\* chain names at the current position, whichever of create, climb,
\* re-notify and rebuild wrote the row last.
OwnerFollowsChain ==
    \A e \in OpenRows : /\ esc[e].pos <= Len(esc[e].chain)
                        /\ esc[e].owner = OwnerAt(esc[e].chain, esc[e].pos)

\* The freeze of an escalated ticket is lifted by the mere existence of a
\* handling row, which must therefore exist exactly for the escalations some
\* acceptance has given a stage (ensure_ticket_not_frozen_by_escalation).
HandlingRowMeansAccepted ==
    \A e \in Rows : esc[e].stage > 0 <=> esc[e].handling # "none"

\* The Resolution SLA is measured on exactly the tickets that still need
\* work: a resolved or closed ticket has a completed clock, and every other
\* one a clock that runs or is paused and can still escalate it.
LiveTicketHasLiveClock ==
    /\ ticket.status \in {"RESOLVED", "CLOSED"} => clock.status \in {"COMPLETED", "NONE"}
    /\ PolicyStates = {TRUE} /\ clock.status = "COMPLETED"
           => ticket.status \in {"RESOLVED", "CLOSED"}

\* An escalation never outlives a ticket that has an SLA clock: nobody is
\* asked to accept, and no sweep escalates, what has been closed.
ClockedEscalationEndsWithTicket ==
    ticket.status = "CLOSED" /\ clock.status # "NONE" => OpenRows = {}

\* While nobody has accepted the escalation, nobody works the ticket: its
\* status moves only by the assignment that may accept it, and its clock is
\* neither completed nor revived.
FrozenTicketIsNotWorked ==
    [][Frozen => /\ \/ ticket'.status = ticket.status
                    \/ ticket.status = "OPEN" /\ ticket'.status = "IN_PROGRESS"
                 /\ clock'.status = "COMPLETED" <=> clock.status = "COMPLETED"]_vars

\* An accepted escalation goes back to unaccepted only because its own stage
\* lapsed, or because someone escalated it one hop further by hand.
AcceptanceLostOnlyByBreach ==
    [][\A e \in Rows :
         esc[e].status = "ACKNOWLEDGED" /\ esc'[e].status = "ACTIVE"
           => esc[e].window = "lapsed" \/ esc'[e].pos = esc[e].pos + 1]_vars

\* A closed escalation whose stage deadline was left in place.
StaleBreach == \E d \in Rows : esc[d].status = "CLOSED" /\ esc[d].window = "lapsed"

\* Sweeps alone carry an escalation nobody answers to the end of its chain,
\* unless a stale breach keeps sending it back to the first position.
UnansweredReachesTop ==
    \A e \in Rows :
        esc[e].status = "ACTIVE"
          ~> (esc[e].status # "ACTIVE" \/ esc[e].owner = SiteLead \/ StaleBreach)
=============================================================================
