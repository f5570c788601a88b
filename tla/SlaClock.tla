-------------------------------- MODULE SlaClock --------------------------------
(***************************************************************************)
(* One row of resolution_slas with its dates, which EscalationLadder       *)
(* leaves out.  Time is counted in instants, Second of them in a second:   *)
(* due_at is shifted exactly, but total_paused_seconds counts whole        *)
(* seconds.  The ticket is reopened, and so the clock revived, only when   *)
(* the clock is completed (LiveTicketHasLiveClock of EscalationLadder).    *)
(***************************************************************************)
EXTENDS Integers

CONSTANTS
    Targets,   \* resolution targets of the priorities, and of handling stages
    Second,    \* instants in a second
    MaxTime,   \* bound: the model's time ends here
    MaxPauses, \* bound: pauses of a clock
    MaxCycles  \* bound: fresh windows of a clock

ASSUME ClockAssumption ==
    /\ Targets \subseteq Nat \ {0} /\ Second \in Nat \ {0}
    /\ MaxTime \in Nat /\ MaxPauses \in Nat /\ MaxCycles \in Nat

VARIABLES
    now,
    status,        \* the row: NONE while it is not inserted
    started,       \* its started_at
    due,           \* its due_at
    target,        \* its target_minutes
    pausedAt,      \* its paused_at
    totalPaused,   \* its total_paused_seconds
    intervals,     \* closed rows of resolution_sla_pause_intervals
    cycle          \* its escalation_cycle: the fresh windows so far

clock == <<status, started, due, target, pausedAt, totalPaused, intervals, cycle>>
vars == <<now, clock>>

Live == status \in {"RUNNING", "PAUSED"}

---------------------------------------------------------------------------
(* The date arithmetic                                                     *)

ResumedDueAt == due + (now - pausedAt)

RestartedDueAt(newTarget) == now + newTarget

\* Mutant: the two dates are taken in the wrong order.
PausedSeconds_Swapped == (pausedAt - now) \div Second

\* int(pause_duration.total_seconds())
PausedSeconds == (now - pausedAt) \div Second

\* Mutants: the pauses so far are not credited; they are counted as work.
ReshiftedDueAt_NoPauses(newTarget) == now + (newTarget - (now - started))
ReshiftedDueAt_PausesSpent(newTarget) ==
    now + (newTarget - ((now - started) + totalPaused * Second))

ReshiftedDueAt(newTarget) ==
    LET consumed == (now - started) - totalPaused * Second
    IN  now + (newTarget - consumed)

---------------------------------------------------------------------------
(* Operations                                                              *)

\* start_resolution_clock, also by create_or_resume when there is no row.
Start(newTarget) ==
    /\ status = "NONE"
    /\ status' = "RUNNING" /\ started' = now /\ target' = newTarget
    /\ due' = RestartedDueAt(newTarget)
    /\ UNCHANGED <<now, pausedAt, totalPaused, intervals, cycle>>

Pause ==
    /\ status = "RUNNING" /\ intervals < MaxPauses
    /\ status' = "PAUSED" /\ pausedAt' = now
    /\ UNCHANGED <<now, started, due, target, totalPaused, intervals, cycle>>

Resume ==
    /\ status = "PAUSED"
    /\ status' = "RUNNING" /\ due' = ResumedDueAt /\ pausedAt' = 0
    /\ totalPaused' = totalPaused + PausedSeconds
    /\ intervals' = intervals + 1
    /\ UNCHANGED <<now, started, target, cycle>>

\* From PAUSED the open interval is closed as well; due_at stays.
Complete ==
    /\ Live
    /\ status' = "COMPLETED" /\ pausedAt' = 0
    /\ intervals' = intervals + (IF status = "PAUSED" THEN 1 ELSE 0)
    /\ UNCHANGED <<now, started, due, target, totalPaused, cycle>>

\* A change of priority; a paused clock stays paused.
Reshift(newTarget) ==
    /\ Live
    /\ target' = newTarget /\ due' = ReshiftedDueAt(newTarget)
    /\ UNCHANGED <<now, status, started, pausedAt, totalPaused, intervals, cycle>>

\* The acceptance of an escalation: started_at is not moved.
Restart(newTarget) ==
    /\ Live /\ cycle < MaxCycles
    /\ target' = newTarget /\ due' = RestartedDueAt(newTarget)
    /\ cycle' = cycle + 1
    /\ UNCHANGED <<now, status, started, pausedAt, totalPaused, intervals>>

\* The ticket is reopened: total_paused_seconds is not reset.
Reopen(newTarget) ==
    /\ status = "COMPLETED" /\ cycle < MaxCycles
    /\ status' = "RUNNING" /\ started' = now /\ target' = newTarget
    /\ due' = RestartedDueAt(newTarget) /\ pausedAt' = 0
    /\ cycle' = cycle + 1
    /\ UNCHANGED <<now, totalPaused, intervals>>

Tick == now < MaxTime /\ now' = now + 1 /\ UNCHANGED clock

Init ==
    /\ now = 0 /\ status = "NONE" /\ started = 0 /\ due = 0 /\ target = 0
    /\ pausedAt = 0 /\ totalPaused = 0 /\ intervals = 0 /\ cycle = 0

Next ==
    \/ \E t \in Targets : Start(t) \/ Reshift(t) \/ Restart(t) \/ Reopen(t)
    \/ Pause \/ Resume \/ Complete \/ Tick

Spec == Init /\ [][Next]_vars

---------------------------------------------------------------------------
(* Properties                                                              *)

\* No date but due_at lies in the future, and no pause, and no sum of pauses, is
\* negative.
ClockTypeOK ==
    /\ now \in Nat /\ started \in 0 .. now /\ due \in Int /\ target \in Targets \cup {0}
    /\ pausedAt \in 0 .. now /\ totalPaused \in Nat /\ intervals \in Nat
    /\ cycle \in Nat
    /\ status \in {"NONE", "RUNNING", "PAUSED", "COMPLETED"}

\* The working time left: elapsed_fraction reaches 1.0, and the ticket is
\* escalated, when it is used up.
Left == IF Live THEN due - (IF status = "PAUSED" THEN pausedAt ELSE now) ELSE 0

Budget == INSTANCE WorkBudget WITH
    phase <- status, target <- target, left <- Left, pauses <- intervals

\* Until a fresh window is opened, shifting due_at on each resume and computing
\* it anew on a change of priority together are a budget of working time.
ImplementsBudget ==
    Budget!Init /\ [][cycle' = 0 => Budget!Next]_<<status, target, Left, intervals>>

\* However pauses, resumes, changes of priority, acceptances and reopenings
\* are combined, due_at is never so early that the ticket would be escalated
\* before a full target has passed since it was opened or reopened.
NeverOverdueEarly == Live => due >= started + target

\* "Preserves how much running (non-paused) time has already been consumed":
\* a change of priority gives nothing of it back.
PriorityKeepsConsumption ==
    [][Live /\ <<status, cycle>>' = <<status, cycle>> /\ target' # target =>
         target' - Left' >= target - Left]_vars
=============================================================================
