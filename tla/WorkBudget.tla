------------------------------- MODULE WorkBudget -------------------------------
(***************************************************************************)
(* What a Resolution SLA promises, without due dates: a ticket has a budget *)
(* of working time, the budget is spent only while the ticket is worked,    *)
(* and changing the target neither gives back what was spent nor takes more *)
(* than a fraction of a second for each pause there has been.               *)
(***************************************************************************)
EXTENDS Integers

CONSTANTS
    Targets,   \* the budgets policies may set
    Second     \* instants in a second

VARIABLES
    phase,     \* none, running, paused, completed
    target,    \* the budget in force
    left,      \* what is left of it, negative once overdue
    pauses     \* how often the ticket was paused and resumed

vars == <<phase, target, left, pauses>>

Init == phase = "NONE" /\ target = 0 /\ left = 0 /\ pauses = 0

Start(t) ==
    /\ phase = "NONE"
    /\ phase' = "RUNNING" /\ target' = t /\ left' = t
    /\ UNCHANGED pauses

\* An instant of work.
Spend ==
    /\ phase = "RUNNING"
    /\ left' = left - 1
    /\ UNCHANGED <<phase, target, pauses>>

Pause ==
    /\ phase = "RUNNING" /\ phase' = "PAUSED"
    /\ UNCHANGED <<target, left, pauses>>

Resume ==
    /\ phase = "PAUSED" /\ phase' = "RUNNING"
    /\ pauses' = pauses + 1
    /\ UNCHANGED <<target, left>>

Complete ==
    /\ phase \in {"RUNNING", "PAUSED"} /\ phase' = "COMPLETED"
    /\ left' = 0
    /\ pauses' = IF phase = "PAUSED" THEN pauses + 1 ELSE pauses
    /\ UNCHANGED target

Retarget(t) ==
    /\ phase \in {"RUNNING", "PAUSED"}
    /\ target' = t
    /\ \E lost \in 0 .. pauses * (Second - 1) : left' = left + (t - target) - lost
    /\ UNCHANGED <<phase, pauses>>

Next ==
    \/ \E t \in Targets : Start(t) \/ Retarget(t)
    \/ Spend \/ Pause \/ Resume \/ Complete

Spec == Init /\ [][Next]_vars
=============================================================================
