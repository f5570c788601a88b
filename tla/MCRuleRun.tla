------------------------------- MODULE MCRuleRun -------------------------------
(***************************************************************************)
(* RuleRun with one run, and with two runs of different rules.  Workers do  *)
(* not differ.  In the view for two runs, states are one that differ only   *)
(* in the history done, which no action reads, or in how a run ended and    *)
(* with what cursor, which no action and no property of those runs reads:   *)
(* a run that ended is never claimed again.                                 *)
(***************************************************************************)
EXTENDS RuleRun, TLC

CONSTANTS rule1, rule2

MCOneRule == <<rule1>>
MCTwoRules == <<rule1, rule2>>
MCSymmetry == Permutations(Workers)

RunView == [r \in Runs |->
    IF run[r].status \in Terminal
    THEN [run[r] EXCEPT !.state = Blank, !.status = "COMPLETED"]
    ELSE run[r]]
MCView == <<RunView, item, created, committed, notified, mailed, lock, worker, faults>>
=============================================================================
