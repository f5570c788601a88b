-------------------------------- MODULE MCSweep --------------------------------
(***************************************************************************)
(* SlaSweep in three settings: the resolution clock in many operations and *)
(* no sweep; two sessions and the resolution clock; two sessions and the   *)
(* first response.                                                         *)
(***************************************************************************)
EXTENDS SlaSweep

CONSTANTS s1, s2,    \* sessions
    SweepTime,       \* bound: time in the settings with sweeps
    SweepTarget      \* the target of the clock in the settings with sweeps

MCResolution == [AT_RISK |-> 5, ESCALATED |-> 10]
MCFirstResponse == [AT_RISK |-> 5, BREACHED |-> 10]
MCDefault == [AT_RISK |-> 8, BREACHED |-> 10]

VARIABLE setting

MCInit == SweepInit /\ setting \in {"clock", "resolution", "response"}

MCNext ==
    /\ SweepNext /\ UNCHANGED setting
    /\ CASE setting = "clock" ->
              UNCHANGED <<session, response>> /\ target' # SweepTarget
         [] setting = "resolution" ->
              /\ UNCHANGED response /\ target' \in {0, SweepTarget}
              /\ now' <= SweepTime /\ status' # "PAUSED" /\ cycle' <= 1
         [] setting = "response" ->
              UNCHANGED clock /\ now' <= SweepTime

\* The fairness of the sessions, where the bounds let them work.
MCFairness == \A s \in Sessions :
    WF_<<allVars, setting>>(/\ (BeginTick(s) \/ Work(s)) /\ Remember
                            /\ UNCHANGED setting /\ setting = "resolution")

MCSpec == MCInit /\ [][MCNext]_<<allVars, setting>> /\ MCFairness

\* In the setting in which there are sweeps, they escalate a ticket that stays overdue.
SweepsEscalateOverdue == setting = "resolution" => OverdueIsEscalated
=============================================================================
