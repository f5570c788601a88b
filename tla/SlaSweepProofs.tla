----------------------------- MODULE SlaSweepProofs -----------------------------
(***************************************************************************)
(* The Resolution SLA clock for any targets, any time unit and any number  *)
(* of pauses; then the sweep over it and its ledger for any number of      *)
(* sessions, any thresholds and any number of failures.                    *)
(***************************************************************************)
EXTENDS SlaSweep, TLAPS

---------------------------------------------------------------------------
(* The clock                                                               *)

\* Whole seconds lose less than a second.
LEMMA WholeSeconds ==
    ASSUME NEW d \in Nat, NEW s \in Nat \ {0}
    PROVE  /\ d \div s \in Nat
           /\ d - (d \div s) * s \in 0 .. s - 1
OBVIOUS

LEMMA ClockTypeStep == ClockTypeOK /\ [Next]_vars => ClockTypeOK'
<1> SUFFICES ASSUME ClockTypeOK, [Next]_vars PROVE ClockTypeOK'
  OBVIOUS
<1> USE ClockAssumption DEF ClockTypeOK
<1>1. ASSUME NEW t \in Targets, Start(t) PROVE ClockTypeOK'
  BY <1>1 DEF Start, RestartedDueAt
<1>2. ASSUME NEW t \in Targets, Reshift(t) PROVE ClockTypeOK'
  BY <1>2 DEF Reshift, ReshiftedDueAt
<1>3. ASSUME NEW t \in Targets, Restart(t) PROVE ClockTypeOK'
  BY <1>3 DEF Restart, RestartedDueAt
<1>4. ASSUME NEW t \in Targets, Reopen(t) PROVE ClockTypeOK'
  BY <1>4 DEF Reopen, RestartedDueAt
<1>5. CASE Pause
  BY <1>5 DEF Pause
<1>6. CASE Resume
  <2>1. now - pausedAt \in Nat
    OBVIOUS
  <2>2. PausedSeconds \in Nat
    BY <2>1, WholeSeconds DEF PausedSeconds
  <2> QED BY <1>6, <2>2 DEF Resume, ResumedDueAt
<1>7. CASE Complete
  BY <1>7 DEF Complete
<1>8. CASE Tick
  BY <1>8 DEF Tick, clock
<1>9. CASE UNCHANGED vars
  BY <1>9 DEF vars, clock
<1> QED
  BY <1>1, <1>2, <1>3, <1>4, <1>5, <1>6, <1>7, <1>8, <1>9 DEF Next

THEOREM ClockTypeCorrect == Spec => []ClockTypeOK
<1>1. Init => ClockTypeOK
  BY DEF Init, ClockTypeOK
<1> QED BY <1>1, ClockTypeStep, PTL DEF Spec

---------------------------------------------------------------------------
(* No window is shorter than its target                                    *)

LEMMA NeverOverdueEarlyStep ==
    ClockTypeOK /\ ClockTypeOK' /\ NeverOverdueEarly /\ [Next]_vars => NeverOverdueEarly'
<1> SUFFICES ASSUME ClockTypeOK, ClockTypeOK', NeverOverdueEarly, [Next]_vars
             PROVE  NeverOverdueEarly'
  OBVIOUS
<1> USE ClockAssumption DEF ClockTypeOK, NeverOverdueEarly, Live
<1>1. ASSUME NEW t \in Targets, Start(t) PROVE NeverOverdueEarly'
  BY <1>1 DEF Start, RestartedDueAt
<1>2. ASSUME NEW t \in Targets, Reshift(t) PROVE NeverOverdueEarly'
  <2>1. t \in Nat /\ totalPaused * Second \in Nat
    OBVIOUS
  <2>2. due' = started + t + totalPaused * Second
    BY <1>2, <2>1 DEF Reshift, ReshiftedDueAt
  <2> QED BY <1>2, <2>1, <2>2 DEF Reshift
<1>3. ASSUME NEW t \in Targets, Restart(t) PROVE NeverOverdueEarly'
  BY <1>3 DEF Restart, RestartedDueAt
<1>4. ASSUME NEW t \in Targets, Reopen(t) PROVE NeverOverdueEarly'
  BY <1>4 DEF Reopen, RestartedDueAt
<1>5. CASE Pause
  BY <1>5 DEF Pause
<1>6. CASE Resume
  BY <1>6 DEF Resume, ResumedDueAt
<1>7. CASE Complete
  BY <1>7 DEF Complete
<1>8. CASE Tick
  BY <1>8 DEF Tick, clock
<1>9. CASE UNCHANGED vars
  BY <1>9 DEF vars, clock
<1> QED
  BY <1>1, <1>2, <1>3, <1>4, <1>5, <1>6, <1>7, <1>8, <1>9 DEF Next

\* due_at never falls below a full target after the last opening, whatever the
\* order of pauses, priority changes, acceptances and reopenings.
THEOREM NeverOverdueEarlyHolds == Spec => []NeverOverdueEarly
<1>1. Init => NeverOverdueEarly
  BY DEF Init, NeverOverdueEarly, Live
<1> QED BY <1>1, NeverOverdueEarlyStep, ClockTypeCorrect, PTL DEF Spec

---------------------------------------------------------------------------
(* The dates implement a budget                                            *)

\* What due_at has gained beyond the target and the whole seconds of pause that
\* total_paused_seconds counts: the fractions that a resume shifts due_at by
\* and does not count.
Fractions == due - target - started - totalPaused * Second

\* The strengthening: until a fresh window, the uncounted fractions are less than
\* a second for each closed interval, and nothing was paused before the start.
Accounted ==
    cycle = 0 =>
        /\ status = "NONE" => totalPaused = 0 /\ intervals = 0
        /\ Live => Fractions \in 0 .. intervals * (Second - 1)

LEMMA AccountedInit == Init => Accounted
BY DEF Init, Accounted, Live

LEMMA FractionsBound ==
    ASSUME NEW n \in Nat
    PROVE  /\ n * (Second - 1) \in Nat
           /\ (n + 1) * (Second - 1) = n * (Second - 1) + (Second - 1)
BY ClockAssumption

LEMMA AccountedStep ==
    ASSUME ClockTypeOK, Accounted, [Next]_vars
    PROVE  Accounted'
<1> SUFFICES ASSUME cycle' = 0 PROVE Accounted'
  BY DEF Accounted
<1>0. cycle = 0
  <2>1. ASSUME NEW t \in Targets, Restart(t) \/ Reopen(t) PROVE FALSE
    BY <2>1 DEF ClockTypeOK, Restart, Reopen
  <2> QED BY <2>1 DEF Next, Start, Reshift, Pause, Resume, Complete, Tick, vars, clock
<1> USE <1>0, ClockAssumption DEF ClockTypeOK, Accounted, Live, Fractions
<1>1. ASSUME NEW t \in Targets, Start(t) PROVE Accounted'
  <2>1. t \in Nat /\ totalPaused' = 0 /\ intervals' = 0 /\ Second \in Nat \ {0}
    BY <1>1 DEF Start
  <2>2. Fractions' = 0
    BY <1>1, <2>1 DEF Start, RestartedDueAt
  <2> QED BY <1>1, <2>1, <2>2 DEF Start
<1>2. ASSUME NEW t \in Targets, Reshift(t) PROVE Accounted'
  <2>1. t \in Nat /\ totalPaused * Second \in Nat
    OBVIOUS
  <2>2. Fractions' = 0
    BY <1>2, <2>1 DEF Reshift, ReshiftedDueAt
  <2>3. intervals' * (Second - 1) \in Nat
    BY <1>2, FractionsBound DEF Reshift
  <2> QED BY <1>2, <2>2, <2>3 DEF Reshift
<1>3. ASSUME NEW t \in Targets, Restart(t) \/ Reopen(t) PROVE Accounted'
  BY <1>3 DEF Restart, Reopen
<1>4. CASE Pause
  BY <1>4 DEF Pause
<1>5. CASE Resume
  <2> DEFINE d == now - pausedAt
             q == d \div Second
  <2>1. d \in Nat /\ Second \in Nat \ {0}
    OBVIOUS
  <2>2. q \in Nat /\ d - q * Second \in 0 .. Second - 1
    BY <2>1, WholeSeconds
  <2>3. totalPaused' = totalPaused + q /\ due' = due + d
    BY <1>5 DEF Resume, PausedSeconds, ResumedDueAt
  <2> HIDE DEF d, q
  <2>4. (totalPaused + q) * Second = totalPaused * Second + q * Second
    BY <2>1, <2>2
  <2>5. totalPaused * Second \in Nat /\ q * Second \in Nat /\ target \in Int
    BY <2>1, <2>2
  <2>6. Fractions' = Fractions + (d - q * Second)
    BY <1>5, <2>1, <2>2, <2>3, <2>4, <2>5 DEF Resume
  <2>7. intervals' = intervals + 1
    BY <1>5 DEF Resume
  <2>8. /\ intervals * (Second - 1) \in Nat
        /\ intervals' * (Second - 1) = intervals * (Second - 1) + (Second - 1)
    BY <2>7, FractionsBound
  <2>9. Fractions \in 0 .. intervals * (Second - 1)
    BY <1>5 DEF Resume
  <2> QED BY <1>5, <2>1, <2>2, <2>6, <2>8, <2>9 DEF Resume
<1>6. CASE Complete
  BY <1>6 DEF Complete
<1>7. CASE Tick
  BY <1>7 DEF Tick, clock
<1>8. CASE UNCHANGED vars
  BY <1>8 DEF vars, clock
<1> QED BY <1>1, <1>2, <1>3, <1>4, <1>5, <1>6, <1>7, <1>8 DEF Next

\* Every step of the row that opens no fresh window is a step of the budget, or
\* leaves it as it is.
LEMMA BudgetStep ==
    ASSUME ClockTypeOK, Accounted, [Next]_vars
    PROVE  [cycle' = 0 => Budget!Next]_<<status, target, Left, intervals>>
<1> SUFFICES ASSUME cycle' = 0 PROVE [Budget!Next]_(Budget!vars)
  BY DEF Budget!vars
<1>0. cycle = 0
  <2>1. ASSUME NEW t \in Targets, Restart(t) \/ Reopen(t) PROVE FALSE
    BY <2>1 DEF ClockTypeOK, Restart, Reopen
  <2> QED BY <2>1 DEF Next, Start, Reshift, Pause, Resume, Complete, Tick, vars, clock
<1> USE <1>0, ClockAssumption DEF ClockTypeOK, Live, Left
<1>1. ASSUME NEW t \in Targets, Start(t) PROVE Budget!Next
  <2>1. Budget!Start(t)
    BY <1>1 DEF Start, RestartedDueAt, Budget!Start
  <2> QED BY <2>1 DEF Budget!Next
<1>2. ASSUME NEW t \in Targets, Reshift(t) PROVE Budget!Next
  <2>1. t \in Nat /\ totalPaused * Second \in Nat /\ target \in Int
    OBVIOUS
  <2>2. due' = due + (t - target) - Fractions
    BY <1>2, <2>1 DEF Reshift, ReshiftedDueAt, Fractions
  <2>3. Fractions \in 0 .. intervals * (Second - 1)
    BY <1>2 DEF Reshift, Accounted
  <2>4. Fractions \in Int
    BY <2>1 DEF Fractions
  <2>5. Left' = Left + (t - target) - Fractions
    BY <1>2, <2>1, <2>2, <2>4 DEF Reshift
  <2>6. Budget!Retarget(t)
    BY <1>2, <2>3, <2>5 DEF Reshift, Budget!Retarget
  <2> QED BY <2>6 DEF Budget!Next
<1>3. ASSUME NEW t \in Targets, Restart(t) \/ Reopen(t) PROVE FALSE
  BY <1>3 DEF Restart, Reopen
<1>4. CASE Pause
  BY <1>4 DEF Pause, Budget!Pause, Budget!Next
<1>5. CASE Resume
  <2>1. Budget!Resume
    BY <1>5 DEF Resume, ResumedDueAt, Budget!Resume
  <2> QED BY <2>1 DEF Budget!Next
<1>6. CASE Complete
  <2>1. Budget!Complete
    BY <1>6 DEF Complete, Budget!Complete
  <2> QED BY <2>1 DEF Budget!Next
<1>7. CASE Tick
  <2>1. CASE status = "RUNNING"
    BY <1>7, <2>1 DEF Tick, clock, Budget!Spend, Budget!Next
  <2>2. CASE status # "RUNNING"
    BY <1>7, <2>2 DEF Tick, clock, Budget!vars
  <2> QED BY <2>1, <2>2
<1>8. CASE UNCHANGED vars
  BY <1>8 DEF vars, clock, Budget!vars
<1> QED BY <1>1, <1>2, <1>3, <1>4, <1>5, <1>6, <1>7, <1>8 DEF Next

\* Until an acceptance or a reopening opens a fresh window, shifting due_at on
\* each resume and recomputing it on each priority change are a budget of
\* working time, for any targets, any unit of time and any number of pauses.
THEOREM ClockImplementsBudget == Spec => ImplementsBudget
<1>1. Init => Budget!Init
  BY DEF Init, Budget!Init, Left
<1>2. ClockTypeOK /\ Accounted /\ [Next]_vars
        => Accounted' /\ [cycle' = 0 => Budget!Next]_<<status, target, Left, intervals>>
  BY AccountedStep, BudgetStep
<1> QED
  BY <1>1, <1>2, AccountedInit, ClockTypeCorrect, PTL
  DEF Spec, ImplementsBudget

---------------------------------------------------------------------------
(* A clock that is never reopened                                          *)

\* The pauses that are counted lie within the window, and due_at has been moved
\* for all of them.  Reopen breaks the first: it opens a window and keeps the
\* pauses of the window before.
PausesInWindow ==
    /\ status = "NONE" => totalPaused = 0
    /\ status = "RUNNING" => totalPaused * Second <= now - started
    /\ status = "PAUSED" => totalPaused * Second <= pausedAt - started
    /\ Live => due >= started + target + totalPaused * Second

NextButReopen == Next /\ ~\E t \in Targets : Reopen(t)

LEMMA PausesInWindowStep ==
    ASSUME ClockTypeOK, PausesInWindow, [NextButReopen]_vars
    PROVE  PausesInWindow'
<1>0. Second \in Nat \ {0} /\ totalPaused * Second \in Nat
  BY ClockAssumption DEF ClockTypeOK
<1> DEFINE tp == totalPaused * Second
<1>t. tp \in Nat /\ Second \in Nat \ {0} /\ Targets \subseteq Nat
  BY <1>0, ClockAssumption
<1> USE <1>t DEF ClockTypeOK, PausesInWindow, Live
<1>1. ASSUME NEW t \in Targets, Start(t) PROVE PausesInWindow'
  <2>1. totalPaused' = 0 /\ totalPaused' * Second = 0
    BY <1>1 DEF Start
  <2> QED BY <1>1, <2>1 DEF Start, RestartedDueAt
<1>2. ASSUME NEW t \in Targets, Reshift(t) PROVE PausesInWindow'
  <2>1. due' = now + (t - ((now - started) - tp))
    BY <1>2 DEF Reshift, ReshiftedDueAt
  <2>2. totalPaused' * Second = tp
    BY <1>2 DEF Reshift
  <2> HIDE DEF tp
  <2>3. due' = started + t + tp
    BY <2>1
  <2> QED BY <1>2, <2>2, <2>3 DEF Reshift, tp
<1>3. ASSUME NEW t \in Targets, Restart(t) PROVE PausesInWindow'
  <2>1. totalPaused' * Second = tp
    BY <1>3 DEF Restart
  <2> QED BY <1>3, <2>1 DEF Restart, RestartedDueAt
<1>4. CASE Pause
  BY <1>4 DEF Pause
<1>5. CASE Resume
  <2> DEFINE d == now - pausedAt
             q == d \div Second
  <2>1. d \in Nat
    BY <1>5 DEF Resume
  <2>2. q \in Nat /\ d - q * Second \in 0 .. Second - 1
    BY <2>1, WholeSeconds
  <2>3. totalPaused' = totalPaused + q /\ due' = due + d
    BY <1>5 DEF Resume, PausedSeconds, ResumedDueAt
  <2> HIDE DEF q
  <2>4. (totalPaused + q) * Second = tp + q * Second
    BY <2>2
  <2>5. q * Second \in Nat /\ q * Second <= d
    BY <2>1, <2>2
  <2>6. totalPaused' * Second = tp + q * Second
    BY <2>3, <2>4
  <2>7. /\ status = "PAUSED" /\ status' = "RUNNING"
        /\ UNCHANGED <<now, started, target>>
    BY <1>5 DEF Resume
  <2>8. tp <= pausedAt - started /\ due >= started + target + tp
    BY <2>7
  <2>9. target \in Nat /\ started \in Nat /\ pausedAt \in Nat /\ now \in Nat /\ due \in Int
    OBVIOUS
  <2> DEFINE u == q * Second
             tp2 == totalPaused' * Second
  <2> HIDE DEF tp, u, tp2
  <2>10. tp2 = tp + u /\ u \in Nat /\ u <= now - pausedAt
    BY <2>5, <2>6 DEF tp, u, tp2
  <2>11. tp2 <= now - started /\ due' >= started + target + tp2
    BY <2>3, <2>8, <2>9, <2>10
  <2> QED BY <2>7, <2>11 DEF tp2
<1>6. CASE Complete
  BY <1>6 DEF Complete
<1>7. CASE Tick
  BY <1>7 DEF Tick, clock
<1>8. CASE UNCHANGED vars
  BY <1>8 DEF vars, clock
<1> QED
  BY <1>1, <1>2, <1>3, <1>4, <1>5, <1>6, <1>7, <1>8 DEF NextButReopen, Next

\* The consumption that a change of priority finds is at least the one it keeps.
LEMMA ReshiftKeepsConsumption ==
    ASSUME ClockTypeOK, PausesInWindow, NEW t \in Targets, Reshift(t)
    PROVE  target' - Left' >= target - Left
<1> DEFINE tp == totalPaused * Second
           at == IF status = "PAUSED" THEN pausedAt ELSE now
<1>1. tp \in Nat /\ t \in Nat /\ at \in Nat
  BY ClockAssumption DEF ClockTypeOK
<1>2. due' = now + (t - ((now - started) - tp)) /\ target' = t
  BY DEF Reshift, ReshiftedDueAt
<1>3. Left' = due' - at /\ Left = due - at /\ due >= started + target + tp
  BY DEF Reshift, Left, Live, PausesInWindow
<1>4. now \in Nat /\ started \in Nat /\ due \in Int /\ target \in Int
  BY ClockAssumption DEF ClockTypeOK
<1> HIDE DEF tp, at
<1>5. due' = started + t + tp
  BY <1>1, <1>2, <1>4
<1>6. target' - Left' = t - ((started + t + tp) - at) /\ target - Left = target - (due - at)
  BY <1>2, <1>3, <1>5
<1> QED BY <1>1, <1>3, <1>4, <1>6

\* What recompute_resolution_sla promises of a change of priority is true of a
\* clock that was never reopened, however pauses and acceptances came before it.
THEOREM PriorityKeepsConsumptionUnlessReopened ==
    Init /\ [][NextButReopen]_vars => PriorityKeepsConsumption
<1>1. Init => PausesInWindow
  BY ClockAssumption DEF Init, PausesInWindow, Live
<1>2. ClockTypeOK /\ PausesInWindow /\ [NextButReopen]_vars
        => [Live /\ <<status, cycle>>' = <<status, cycle>> /\ target' # target =>
              target' - Left' >= target - Left]_vars
  <2> SUFFICES ASSUME ClockTypeOK, PausesInWindow, NextButReopen,
                      <<status, cycle>>' = <<status, cycle>>, target' # target
               PROVE  target' - Left' >= target - Left
    BY DEF vars, clock
  <2>1. \E t \in Targets : Reshift(t)
    BY DEF ClockTypeOK, NextButReopen, Next, Start, Pause, Resume, Complete, Restart, Tick, clock
  <2> QED BY <2>1, ReshiftKeepsConsumption
<1>3. [NextButReopen]_vars => [Next]_vars
  BY DEF NextButReopen
<1>4. Init => ClockTypeOK
  BY DEF Init, ClockTypeOK
<1> QED BY <1>1, <1>2, <1>3, <1>4, ClockTypeStep, PausesInWindowStep, PTL
       DEF PriorityKeepsConsumption

---------------------------------------------------------------------------
(* The clock under the sweep                                               *)

\* No step of the sweep or of a handler does to the clock what SlaClock does not.
LEMMA StepsAreClockSteps == SweepNext => [Next]_vars
<1> SUFFICES ASSUME SweepNext PROVE [Next]_vars
  OBVIOUS
<1>1. CASE ReceiveMail \/ ManualEscalate \/ StageBreached
  BY <1>1 DEF ReceiveMail, ManualEscalate, StageBreached
<1>2. CASE AcceptEscalation
  BY <1>2 DEF AcceptEscalation, Next
<1>3. CASE ResolveTicket \/ CloseTicket
  BY <1>3 DEF ResolveTicket, CloseTicket, Next
<1>4. CASE ReopenTicket
  BY <1>4 DEF ReopenTicket, Next
<1>5. CASE ClockStep
  BY <1>5 DEF ClockStep, Next
<1>6. ASSUME NEW s \in Sessions, SessionStep(s) PROVE UNCHANGED vars
  BY <1>6 DEF SessionStep, Work, BeginTick, Classify, Record, Notify, AutoEscalate,
     EscalationFails, CommitTick, CommitAnswer, Answer, Rollback
<1> QED BY <1>1, <1>2, <1>3, <1>4, <1>5, <1>6 DEF SweepNext, Steps

\* The clock under sweeps and handlers is the clock of SlaClock.
THEOREM SweepImplementsClock == SweepSpec => Spec
<1>1. SweepInit => Init
  BY DEF SweepInit
<1>2. [SweepNext]_allVars => [Next]_vars
  <2> SUFFICES ASSUME [SweepNext]_allVars PROVE [Next]_vars
    OBVIOUS
  <2>1. CASE UNCHANGED allVars
    BY <2>1 DEF allVars
  <2> QED BY <2>1, StepsAreClockSteps
<1> QED BY <1>1, <1>2, PTL DEF SweepSpec, Spec

\* No cycle is numbered beyond the bound, and time does not run back.
CyclesBounded == cycle <= MaxCycles

LEMMA ClockMoves ==
    ASSUME ClockTypeOK, CyclesBounded, [Next]_vars
    PROVE  now <= now' /\ CyclesBounded'
<1> USE ClockAssumption DEF ClockTypeOK, CyclesBounded
<1>1. CASE UNCHANGED vars
  BY <1>1 DEF vars, clock
<1>2. CASE Next
  BY <1>2 DEF Next, Start, Pause, Resume, Complete, Reshift, Restart, Reopen, Tick, clock
<1> QED BY <1>1, <1>2

---------------------------------------------------------------------------
(* Types                                                                   *)

LEMMA CandidatesType ==
    ASSUME ClockTypeOK, CyclesBounded, NEW at
    PROVE  Candidates(at) \subseteq Entries /\ CrossedNow \subseteq Entries
BY ClockAssumption, SweepAssumption
   DEF Candidates, CrossedNow, ResolutionReached, Reached, Entries, ClockTypeOK, CyclesBounded

LEMMA ResponseCandidatesType ==
    ASSUME NEW at, NEW minutes
    PROVE  /\ ResponseCandidates(FirstResponseCutoffs, minutes, at) \subseteq Entries
           /\ ResponseCandidates(DefaultCutoffs, minutes, at) \subseteq Entries
<1>1. DOMAIN DefaultCutoffs = DOMAIN FirstResponseCutoffs
  BY SweepAssumption
<1> QED BY <1>1 DEF ResponseCandidates, Reached, Entries

\* The part of the type that the sweep adds to the clock's.
SessionsOK ==
    /\ escalation \in {"none", "open", "accepted"}
    /\ response \in [status : {"NONE", "PENDING", "COMPLETED"}, due : Nat, done : 0 .. now]
    /\ ledger \subseteq Entries /\ notices \in [Entries -> Nat]
    /\ session \in [Sessions -> SessionType]
    /\ faults \in 0 .. MaxFaults

LEMMA SessionWritten ==
    ASSUME SessionsOK, NEW s \in Sessions, NEW v \in SessionType,
           now' = now, session' = [session EXCEPT ![s] = v]
    PROVE  session' \in [Sessions -> SessionType']
<1>1. SessionType' = SessionType
  BY DEF SessionType
<1> QED BY <1>1 DEF SessionsOK

LEMMA IdleType == ASSUME ClockTypeOK PROVE Idle \in SessionType
BY DEF Idle, SessionType, ClockTypeOK

LEMMA SessionTypeStep ==
    ASSUME ClockTypeOK, CyclesBounded, SessionsOK, NEW s \in Sessions, SessionStep(s)
    PROVE  SessionsOK'
<1> USE SweepAssumption
<1>1. now \in Nat /\ now \in 0 .. now
      /\ session[s] \in SessionType /\ session[s].at \in 0 .. now
  BY DEF SessionsOK, SessionType, ClockTypeOK
<1>2. ASSUME now' = now, NEW v \in SessionType, session' = [session EXCEPT ![s] = v],
             UNCHANGED <<escalation, response, ledger, notices>>, faults' \in 0 .. MaxFaults
      PROVE  SessionsOK'
  <2>1. session' \in [Sessions -> SessionType']
    BY <1>2, SessionWritten
  <2> QED BY <1>2, <2>1 DEF SessionsOK
<1>3. CASE BeginTick(s)
  <2>1. [Idle EXCEPT !.pc = "started", !.op = "sweep", !.at = now] \in SessionType
    BY IdleType, <1>1 DEF SessionType
  <2>2. now' = now /\ faults' \in 0 .. MaxFaults
    BY <1>3 DEF BeginTick, vars, SessionsOK
  <2> QED BY <1>2, <1>3, <2>1, <2>2 DEF BeginTick
<1>4. CASE Classify(s)
  <2> DEFINE at == session[s].at
             found == Candidates(at) \cup ResponseCandidates(FirstResponseCutoffs, ResponseTarget, at)
             late == "ESCALATED" \in ResolutionReached(at) /\ escalation = "none"
             v == [session[s] EXCEPT !.pc = "classified", !.found = found, !.overdue = late]
  <2>1. found \in SUBSET Entries /\ late \in BOOLEAN
    BY CandidatesType, ResponseCandidatesType
  <2>2. session' = [session EXCEPT ![s] = v]
    BY <1>4 DEF Classify
  <2>3. now' = now /\ faults' \in 0 .. MaxFaults
    BY <1>4 DEF Classify, vars, SessionsOK
  <2>4. v \in SessionType
    <3> HIDE DEF found, late
    <3> QED BY <2>1, <1>1 DEF SessionType
  <2> HIDE DEF v
  <2> QED BY <1>2, <1>4, <2>2, <2>3, <2>4 DEF Classify
<1>5. CASE Record(s)
  <2> DEFINE v == [session[s] EXCEPT !.pc = "recorded", !.rows = session[s].found \ ledger]
  <2>1. v \in SessionType
    BY <1>1 DEF SessionType
  <2>2. session' = [session EXCEPT ![s] = v] /\ now' = now /\ faults' \in 0 .. MaxFaults
    BY <1>5 DEF Record, vars, SessionsOK
  <2> HIDE DEF v
  <2> QED BY <1>2, <1>5, <2>1, <2>2 DEF Record
<1>6. CASE Notify(s)
  <2>1. PICK lost \in SUBSET ToNotify(s) :
          /\ faults' = faults + (IF lost = {} THEN 0 ELSE 1) /\ faults' <= MaxFaults
          /\ session' = [session EXCEPT ![s].pc = "notified", ![s].sent = ToNotify(s) \ lost]
    BY <1>6 DEF Notify
  <2> DEFINE v == [session[s] EXCEPT !.pc = "notified", !.sent = ToNotify(s) \ lost]
  <2>2. v \in SessionType
    BY <1>1 DEF SessionType, ToNotify
  <2>3. session' = [session EXCEPT ![s] = v]
    BY <2>1
  <2>4. now' = now /\ faults' \in 0 .. MaxFaults
    BY <1>6, <2>1 DEF Notify, vars, SessionsOK
  <2> HIDE DEF v
  <2> QED BY <1>2, <1>6, <2>2, <2>3, <2>4 DEF Notify
<1>7. CASE AutoEscalate(s)
  <2> DEFINE late == EscalationDue(s) /\ escalation = "none"
             v == [session[s] EXCEPT !.pc = "escalated", !.opens = late]
  <2>1. v \in SessionType
    BY <1>1 DEF SessionType, EscalationDue
  <2>2. session' = [session EXCEPT ![s] = v] /\ now' = now /\ faults' \in 0 .. MaxFaults
    BY <1>7 DEF AutoEscalate, vars, SessionsOK
  <2> HIDE DEF v
  <2> QED BY <1>2, <1>7, <2>1, <2>2 DEF AutoEscalate
<1>8. CASE EscalationFails(s)
  <2> DEFINE v == [session[s] EXCEPT !.pc = "escalated"]
  <2>1. v \in SessionType
    BY <1>1 DEF SessionType
  <2>2. session' = [session EXCEPT ![s] = v] /\ now' = now /\ faults' \in 0 .. MaxFaults
    BY <1>8 DEF EscalationFails, vars, SessionsOK
  <2> HIDE DEF v
  <2> QED BY <1>2, <1>8, <2>1, <2>2 DEF EscalationFails
<1>9. CASE Rollback(s)
  <2>1. now' = now /\ faults' \in 0 .. MaxFaults
    BY <1>9 DEF Rollback, vars, SessionsOK
  <2> QED BY <1>2, <1>9, <2>1, IdleType DEF Rollback
<1>10. CASE Answer(s)
  <2>1. PICK active \in PolicyStates :
          session' = [session EXCEPT ![s] = [Idle EXCEPT
            !.pc = "classified", !.op = "answer", !.at = now,
            !.found = ResponseCandidates(DefaultCutoffs, IF active THEN ResponseTarget ELSE 0, now)]]
    BY <1>10 DEF Answer
  <2> DEFINE found == ResponseCandidates(DefaultCutoffs, IF active THEN ResponseTarget ELSE 0, now)
             v == [Idle EXCEPT !.pc = "classified", !.op = "answer", !.at = now, !.found = found]
  <2>2. found \in SUBSET Entries
    BY ResponseCandidatesType
  <2>3. v \in SessionType
    <3> HIDE DEF found
    <3> QED BY <2>2, <1>1, IdleType DEF SessionType
  <2>4. session' = [session EXCEPT ![s] = v] /\ now' = now /\ faults' \in 0 .. MaxFaults
    BY <1>10, <2>1 DEF Answer, vars, SessionsOK
  <2> HIDE DEF v
  <2> QED BY <1>2, <1>10, <2>3, <2>4 DEF Answer
<1>11. CASE CommitTick(s)
  <2>1. now' = now /\ response' = response /\ faults' = faults
        /\ session' = [session EXCEPT ![s] = Idle]
    BY <1>11 DEF CommitTick, Recorded, vars
  <2>2. session' \in [Sessions -> SessionType']
    BY <2>1, IdleType, SessionWritten
  <2>3. ledger' \subseteq Entries /\ notices' \in [Entries -> Nat]
    BY <1>11, <1>1 DEF CommitTick, Recorded, SessionsOK, SessionType
  <2>4. escalation' \in {"none", "open", "accepted"}
    BY <1>11 DEF CommitTick, SessionsOK
  <2> QED BY <2>1, <2>2, <2>3, <2>4 DEF SessionsOK
<1>12. CASE CommitAnswer(s)
  <2>1. now' = now /\ escalation' = escalation /\ faults' = faults
        /\ session' = [session EXCEPT ![s] = Idle]
    BY <1>12 DEF CommitAnswer, vars
  <2>2. session' \in [Sessions -> SessionType']
    BY <2>1, IdleType, SessionWritten
  <2>3. ledger' \subseteq Entries /\ notices' \in [Entries -> Nat]
    BY <1>12, <1>1 DEF CommitAnswer, SessionsOK, SessionType
  <2>4. response' \in [status : {"NONE", "PENDING", "COMPLETED"}, due : Nat, done : 0 .. now']
    BY <1>12, <1>1, <2>1 DEF CommitAnswer, SessionsOK
  <2> QED BY <2>1, <2>2, <2>3, <2>4 DEF SessionsOK
<1> QED
  BY <1>3, <1>4, <1>5, <1>6, <1>7, <1>8, <1>9, <1>10, <1>11, <1>12 DEF SessionStep, Work

\* What the steps that are no session's leave alone.
LEMMA HandlersLeaveSessions ==
    ASSUME SweepNext, \A s \in Sessions : ~SessionStep(s)
    PROVE  UNCHANGED <<ledger, notices, session, faults>>
BY DEF SweepNext, Steps, ReceiveMail, ManualEscalate, AcceptEscalation, StageBreached,
   ResolveTicket, CloseTicket, ReopenTicket, ClockStep, sweepVars

LEMMA HandlerTypeStep ==
    ASSUME ClockTypeOK, CyclesBounded, SessionsOK, SweepNext, \A s \in Sessions : ~SessionStep(s)
    PROVE  SessionsOK'
<1> USE SweepAssumption
<1>1. now \in Nat /\ now' \in Nat /\ now <= now'
  BY StepsAreClockSteps, ClockTypeStep, ClockMoves DEF ClockTypeOK
<1>2. session' \in [Sessions -> SessionType']
  <2>1. SessionType \subseteq SessionType'
    BY <1>1 DEF SessionType
  <2> QED BY <2>1, HandlersLeaveSessions DEF SessionsOK
<1>3. escalation' \in {"none", "open", "accepted"}
  BY DEF SessionsOK, SweepNext, Steps, ReceiveMail, ManualEscalate, AcceptEscalation, StageBreached,
     ResolveTicket, CloseTicket, ReopenTicket, ClockStep, sweepVars
<1>4. response' \in [status : {"NONE", "PENDING", "COMPLETED"}, due : Nat, done : 0 .. now']
  <2>1. CASE ReceiveMail
    BY <2>1, <1>1 DEF ReceiveMail
  <2>2. CASE response' = response
    BY <2>2, <1>1 DEF SessionsOK
  <2> QED BY <2>1, <2>2 DEF SweepNext, Steps, ManualEscalate, AcceptEscalation, StageBreached,
     ResolveTicket, CloseTicket, ReopenTicket, ClockStep, sweepVars
<1> QED BY <1>2, <1>3, <1>4, HandlersLeaveSessions DEF SessionsOK

---------------------------------------------------------------------------
(* The ledger                                                              *)

Before(s) == session[s].pc \in {"idle", "started", "classified"}

\* The unique index: a row belongs to the ledger or to one open transaction.
LedgerInv ==
    /\ \A s \in Sessions :
         /\ session[s].rows \cap ledger = {} /\ session[s].sent \subseteq session[s].rows
         /\ Before(s) => session[s].rows = {}
    /\ \A s, o \in Sessions : s # o => session[s].rows \cap session[o].rows = {}
    /\ NotifiedOnce

LEMMA LedgerStep ==
    ASSUME ClockTypeOK, CyclesBounded, SessionsOK, LedgerInv, NEW s \in Sessions, SessionStep(s)
    PROVE  LedgerInv'
<1>1. session[s] \in SessionType /\ session \in [Sessions -> SessionType]
      /\ notices \in [Entries -> Nat]
  BY DEF SessionsOK
<1>2. ASSUME NEW v, v.rows = {} \/ v.rows = session[s].rows, v.sent \subseteq v.rows,
             v.pc \in {"idle", "started", "classified"} => v.rows = {},
             session' = [session EXCEPT ![s] = v], UNCHANGED <<ledger, notices>>
      PROVE  LedgerInv'
  <2>1. session'[s] = v /\ \A o \in Sessions \ {s} : session'[o] = session[o]
    BY <1>2, <1>1
  <2>2. NotifiedOnce'
    BY <1>2 DEF LedgerInv, NotifiedOnce
  <2>3. ASSUME NEW o \in Sessions
        PROVE  /\ session'[o].rows \cap ledger' = {} /\ session'[o].sent \subseteq session'[o].rows
               /\ Before(o)' => session'[o].rows = {}
    BY <1>2, <2>1 DEF LedgerInv, Before
  <2>4. ASSUME NEW o \in Sessions, NEW q \in Sessions, o # q
        PROVE  session'[o].rows \cap session'[q].rows = {}
    <3>1. session'[o].rows \subseteq session[o].rows /\ session'[q].rows \subseteq session[q].rows
      BY <1>2, <2>1
    <3> QED BY <3>1, <2>4 DEF LedgerInv
  <2> QED BY <2>2, <2>3, <2>4 DEF LedgerInv
<1>3. Idle.rows = {} /\ Idle.sent = {} /\ Idle.pc = "idle"
  BY DEF Idle
<1>4. CASE BeginTick(s)
  <2> DEFINE v == [Idle EXCEPT !.pc = "started", !.op = "sweep", !.at = now]
  <2>1. v.rows = {} /\ v.sent = {}
    BY DEF Idle
  <2>2. session' = [session EXCEPT ![s] = v] /\ UNCHANGED <<ledger, notices>>
    BY <1>4 DEF BeginTick
  <2> HIDE DEF v
  <2> QED BY <1>2, <2>1, <2>2
<1>5. CASE Classify(s)
  <2> DEFINE at == session[s].at
             v == [session[s] EXCEPT !.pc = "classified",
                    !.found = Candidates(at) \cup ResponseCandidates(FirstResponseCutoffs, ResponseTarget, at),
                    !.overdue = "ESCALATED" \in ResolutionReached(at) /\ escalation = "none"]
  <2>1. v.rows = session[s].rows /\ v.sent = session[s].sent
    BY <1>1 DEF SessionType
  <2>2. session' = [session EXCEPT ![s] = v] /\ UNCHANGED <<ledger, notices>>
    BY <1>5 DEF Classify
  <2>3. session[s].rows = {} /\ session[s].sent \subseteq session[s].rows
    BY <1>5 DEF Classify, LedgerInv, Before
  <2> HIDE DEF v
  <2> QED BY <1>2, <2>1, <2>2, <2>3
<1>6. CASE Record(s)
  <2>1. session'[s] = [session[s] EXCEPT !.pc = "recorded", !.rows = session[s].found \ ledger]
        /\ (\A o \in Sessions \ {s} : session'[o] = session[o]) /\ UNCHANGED <<ledger, notices>>
    BY <1>6, <1>1 DEF Record
  <2>2. session'[s].rows = session[s].found \ ledger /\ session'[s].pc = "recorded"
        /\ session'[s].sent = session[s].sent
    BY <2>1, <1>1 DEF SessionType
  <2>3. session[s].sent = {}
    BY <1>6 DEF Record, LedgerInv, Before
  <2>4. \A o \in Sessions \ {s} : session'[o].rows \cap session'[s].rows = {}
    BY <1>6, <2>1, <2>2 DEF Record, RowsFree
  <2>5. NotifiedOnce'
    BY <2>1 DEF LedgerInv, NotifiedOnce
  <2>6. ASSUME NEW o \in Sessions
        PROVE  /\ session'[o].rows \cap ledger' = {} /\ session'[o].sent \subseteq session'[o].rows
               /\ Before(o)' => session'[o].rows = {}
    BY <2>1, <2>2, <2>3 DEF LedgerInv, Before
  <2>7. ASSUME NEW o \in Sessions, NEW q \in Sessions, o # q
        PROVE  session'[o].rows \cap session'[q].rows = {}
    BY <2>1, <2>4, <2>7 DEF LedgerInv
  <2> QED BY <2>5, <2>6, <2>7 DEF LedgerInv
<1>7. CASE Notify(s)
  <2>1. PICK lost \in SUBSET ToNotify(s) :
          session' = [session EXCEPT ![s].pc = "notified", ![s].sent = ToNotify(s) \ lost]
    BY <1>7 DEF Notify
  <2> DEFINE v == [session[s] EXCEPT !.pc = "notified", !.sent = ToNotify(s) \ lost]
  <2>2. v.rows = session[s].rows /\ v.sent \subseteq session[s].rows /\ v.pc = "notified"
    BY <1>1 DEF SessionType, ToNotify
  <2>3. session' = [session EXCEPT ![s] = v] /\ UNCHANGED <<ledger, notices>>
    BY <1>7, <2>1 DEF Notify
  <2> HIDE DEF v
  <2> QED BY <1>2, <2>2, <2>3
<1>8. CASE AutoEscalate(s)
  <2> DEFINE v == [session[s] EXCEPT !.pc = "escalated",
                                     !.opens = EscalationDue(s) /\ escalation = "none"]
  <2>1. v.rows = session[s].rows /\ v.sent = session[s].sent /\ v.pc = "escalated"
    BY <1>1 DEF SessionType
  <2>2. session' = [session EXCEPT ![s] = v] /\ UNCHANGED <<ledger, notices>>
    BY <1>8 DEF AutoEscalate
  <2>3. v.sent \subseteq v.rows
    BY <2>1 DEF LedgerInv
  <2> HIDE DEF v
  <2> QED BY <1>2, <2>1, <2>2, <2>3
<1>9. CASE EscalationFails(s)
  <2> DEFINE v == [session[s] EXCEPT !.pc = "escalated"]
  <2>1. v.rows = session[s].rows /\ v.sent = session[s].sent /\ v.pc = "escalated"
    BY <1>1 DEF SessionType
  <2>2. session' = [session EXCEPT ![s] = v] /\ UNCHANGED <<ledger, notices>>
    BY <1>9 DEF EscalationFails
  <2>3. v.sent \subseteq v.rows
    BY <2>1 DEF LedgerInv
  <2> HIDE DEF v
  <2> QED BY <1>2, <2>1, <2>2, <2>3
<1>10. CASE Rollback(s)
  BY <1>2, <1>3, <1>10 DEF Rollback
<1>11. CASE Answer(s)
  <2>1. PICK active \in PolicyStates :
          session' = [session EXCEPT ![s] = [Idle EXCEPT
            !.pc = "classified", !.op = "answer", !.at = now,
            !.found = ResponseCandidates(DefaultCutoffs, IF active THEN ResponseTarget ELSE 0, now)]]
    BY <1>11 DEF Answer
  <2> DEFINE v == [Idle EXCEPT !.pc = "classified", !.op = "answer", !.at = now,
            !.found = ResponseCandidates(DefaultCutoffs, IF active THEN ResponseTarget ELSE 0, now)]
  <2>2. v.rows = {} /\ v.sent = {}
    BY DEF Idle
  <2>3. session' = [session EXCEPT ![s] = v] /\ UNCHANGED <<ledger, notices>>
    BY <1>11, <2>1 DEF Answer
  <2> HIDE DEF v
  <2> QED BY <1>2, <2>2, <2>3
<1>12. ASSUME ledger' = ledger \cup session[s].rows, NEW new, new \subseteq session[s].rows,
              notices' = [r \in Entries |-> notices[r] + (IF r \in new THEN 1 ELSE 0)],
              session' = [session EXCEPT ![s] = Idle]
       PROVE  LedgerInv'
  <2>1. session'[s] = Idle /\ \A o \in Sessions \ {s} : session'[o] = session[o]
    BY <1>12, <1>1
  <2>2. NotifiedOnce'
    <3> SUFFICES ASSUME NEW r \in Entries
                 PROVE  notices'[r] <= 1 /\ (notices'[r] = 1 => r \in ledger')
      BY DEF NotifiedOnce
    <3>1. notices[r] \in Nat /\ notices[r] <= 1 /\ (notices[r] = 1 => r \in ledger)
      BY <1>1 DEF LedgerInv, NotifiedOnce
    <3>2. CASE r \in new
      <4>1. r \notin ledger /\ r \in ledger'
        BY <3>2, <1>12 DEF LedgerInv
      <4>2. notices[r] = 0
        BY <3>1, <4>1
      <4> QED BY <4>1, <4>2, <3>2, <1>12
    <3>3. CASE r \notin new
      BY <3>1, <3>3, <1>12
    <3> QED BY <3>2, <3>3
  <2>3. ASSUME NEW o \in Sessions
        PROVE  /\ session'[o].rows \cap ledger' = {} /\ session'[o].sent \subseteq session'[o].rows
               /\ Before(o)' => session'[o].rows = {}
    <3>1. CASE o = s
      BY <3>1, <2>1, <1>3
    <3>2. CASE o # s
      <4>1. session[o].rows \cap session[s].rows = {}
        BY <3>2 DEF LedgerInv
      <4> QED BY <3>2, <4>1, <2>1, <1>12 DEF LedgerInv, Before
    <3> QED BY <3>1, <3>2
  <2>4. ASSUME NEW o \in Sessions, NEW q \in Sessions, o # q
        PROVE  session'[o].rows \cap session'[q].rows = {}
    BY <2>1, <2>4, <1>3 DEF LedgerInv
  <2> QED BY <2>2, <2>3, <2>4 DEF LedgerInv
<1>13. CASE CommitTick(s)
  <2>1. session[s].sent \subseteq session[s].rows
    BY DEF LedgerInv
  <2> QED BY <1>12, <1>13, <2>1 DEF CommitTick, Recorded
<1>14. CASE CommitAnswer(s)
  <2>1. ToNotify(s) \subseteq session[s].rows
    BY DEF ToNotify
  <2> QED BY <1>12, <1>14, <2>1 DEF CommitAnswer
<1> QED
  BY <1>4, <1>5, <1>6, <1>7, <1>8, <1>9, <1>10, <1>11, <1>13, <1>14 DEF SessionStep, Work

\* A session starts and ends with nothing found and nothing recorded.
LEMMA SessionEnds ==
    ASSUME SessionsOK, NEW s \in Sessions,
           BeginTick(s) \/ CommitTick(s) \/ CommitAnswer(s) \/ Rollback(s)
    PROVE  /\ session'[s].found = {} /\ session'[s].rows = {}
           /\ session'[s].op \in {"none", "sweep"}
<1>1. session \in [Sessions -> SessionType]
  BY DEF SessionsOK
<1>2. CASE BeginTick(s)
  <2>1. session'[s] = [Idle EXCEPT !.pc = "started", !.op = "sweep", !.at = now]
    BY <1>1, <1>2 DEF BeginTick
  <2> QED BY <2>1 DEF Idle
<1>3. CASE CommitTick(s) \/ CommitAnswer(s) \/ Rollback(s)
  <2>1. session'[s] = Idle
    BY <1>1, <1>3 DEF CommitTick, Recorded, CommitAnswer, Rollback
  <2> QED BY <2>1 DEF Idle
<1> QED BY <1>2, <1>3

---------------------------------------------------------------------------
(* Every row stands for a crossing                                         *)

Known(rows) == \A r \in rows : r.type = "RESOLUTION" => r \in crossed

\* What a session is about to record was crossed when it was read.
TruthInv ==
    /\ CrossedNow \subseteq crossed /\ Known(ledger)
    /\ \A s \in Sessions : Known(session[s].found) /\ Known(session[s].rows)

\* A reading as of an earlier instant misses thresholds but never adds one.
LEMMA EarlierReadsLess ==
    ASSUME ClockTypeOK, NEW at \in 0 .. now
    PROVE  Candidates(at) \subseteq CrossedNow
<1> SUFFICES ASSUME status = "RUNNING", NEW t \in Reached(ResolutionCutoffs, due, target, at)
             PROVE  t \in Reached(ResolutionCutoffs, due, target, now)
  BY DEF Candidates, CrossedNow, ResolutionReached
<1>1. due \in Int /\ target \in Nat /\ now \in Nat /\ at \in Nat /\ at <= now
  BY ClockAssumption DEF ClockTypeOK
<1>2. 10 * (target - (due - at)) <= 10 * (target - (due - now))
  BY <1>1
<1>3. ResolutionCutoffs[t] * target \in Int
  BY <1>1, SweepAssumption DEF Reached
<1> QED BY <1>1, <1>2, <1>3 DEF Reached

LEMMA TruthStep ==
    ASSUME ClockTypeOK, SessionsOK, TruthInv, SweepNext
    PROVE  TruthInv'
<1>1. CrossedNow' \subseteq crossed' /\ crossed \subseteq crossed'
  BY DEF SweepNext, Remember
<1>2. session \in [Sessions -> SessionType]
  BY DEF SessionsOK
<1>3. ASSUME NEW s \in Sessions, SessionStep(s)
      PROVE  /\ Known(ledger)'
             /\ \A o \in Sessions : Known(session[o].found)' /\ Known(session[o].rows)'
  <2>1. session[s].at \in 0 .. now
    BY <1>2 DEF SessionType
  <2>2. \A o \in Sessions \ {s} : session'[o] = session[o]
    BY <1>2, <1>3 DEF SessionStep, Work, BeginTick, Classify, Record, Notify, AutoEscalate,
       EscalationFails, CommitTick, Recorded, CommitAnswer, Answer, Rollback
  <2>3. ledger' \subseteq ledger \cup session[s].rows
    BY <1>3 DEF SessionStep, Work, BeginTick, Classify, Record, Notify, AutoEscalate,
       EscalationFails, CommitTick, Recorded, CommitAnswer, Answer, Rollback
  <2>4. session'[s].found \subseteq session[s].found \cup Candidates(session[s].at)
               \cup {r \in Entries : r.type = "FIRST_RESPONSE"}
        /\ session'[s].rows \subseteq session[s].rows \cup session[s].found
    <3> DEFINE fr == {r \in Entries : r.type = "FIRST_RESPONSE"}
    <3>1. \A c, m, a : ResponseCandidates(c, m, a) \in SUBSET Entries
                          => ResponseCandidates(c, m, a) \subseteq fr
      BY DEF ResponseCandidates, Entry
    <3>2. CASE Classify(s)
      <4> DEFINE at == session[s].at
                 rc == ResponseCandidates(FirstResponseCutoffs, ResponseTarget, at)
                 late == "ESCALATED" \in ResolutionReached(at) /\ escalation = "none"
      <4>1. session'[s] = [session[s] EXCEPT !.pc = "classified",
                             !.found = Candidates(at) \cup rc, !.overdue = late]
        BY <1>2, <3>2 DEF Classify
      <4>2. rc \subseteq fr
        BY <3>1, ResponseCandidatesType
      <4> HIDE DEF rc, late
      <4>3. session'[s].found = Candidates(at) \cup rc /\ session'[s].rows = session[s].rows
        BY <4>1, <1>2 DEF SessionType
      <4> QED BY <4>2, <4>3
    <3>3. CASE Answer(s)
      <4>1. PICK m :
              session'[s] = [Idle EXCEPT !.pc = "classified", !.op = "answer", !.at = now,
                               !.found = ResponseCandidates(DefaultCutoffs, m, now)]
        BY <1>2, <3>3 DEF Answer
      <4> DEFINE rc == ResponseCandidates(DefaultCutoffs, m, now)
      <4>2. rc \subseteq fr
        BY <3>1, ResponseCandidatesType
      <4> HIDE DEF rc
      <4>3. session'[s].found = rc /\ session'[s].rows = {}
        BY <4>1 DEF Idle, rc
      <4> QED BY <4>2, <4>3
    <3>4. CASE Record(s)
      <4>1. session'[s] = [session[s] EXCEPT !.pc = "recorded", !.rows = session[s].found \ ledger]
        BY <1>2, <3>4 DEF Record
      <4> QED BY <4>1, <1>2 DEF SessionType
    <3>5. CASE Notify(s) \/ AutoEscalate(s) \/ EscalationFails(s)
      <4>1. session'[s].found = session[s].found /\ session'[s].rows = session[s].rows
        BY <3>5, <1>2 DEF SessionType, Notify, AutoEscalate, EscalationFails
      <4> QED BY <4>1
    <3>6. CASE BeginTick(s) \/ CommitTick(s) \/ CommitAnswer(s) \/ Rollback(s)
      BY <3>6, SessionEnds
    <3> QED BY <1>3, <3>2, <3>3, <3>4, <3>5, <3>6 DEF SessionStep, Work
  <2>5. \A r \in session'[s].found \cup session'[s].rows : r.type = "RESOLUTION" => r \in crossed
    <3>1. \A r \in Candidates(session[s].at) : r \in crossed
      BY <2>1, EarlierReadsLess DEF TruthInv
    <3>2. "RESOLUTION" # "FIRST_RESPONSE"
      OBVIOUS
    <3> QED BY <3>1, <3>2, <2>4 DEF TruthInv, Known
  <2> QED BY <2>2, <2>3, <2>5, <1>1 DEF TruthInv, Known
<1>4. CASE \A s \in Sessions : ~SessionStep(s)
  <2>1. ledger' = ledger /\ session' = session
    BY <1>4, HandlersLeaveSessions
  <2> QED BY <2>1, <1>1 DEF TruthInv, Known
<1> QED BY <1>1, <1>3, <1>4 DEF TruthInv

---------------------------------------------------------------------------
(* A late answer                                                           *)

Breach == Entry("FIRST_RESPONSE", "BREACHED", 0)

\* An answer that is too late has found the breach, and once it has passed the
\* insert the breach is its own row or the ledger's.
LateInv ==
    /\ LateAnswerIsOnRecord
    /\ \A s \in Sessions : session[s].op = "answer" =>
         /\ response.status # "NONE" /\ session[s].pc # "started"
         /\ session[s].at >= response.due => Breach \in session[s].found
         /\ session[s].pc = "recorded" => session[s].found \subseteq session[s].rows \cup ledger

LEMMA LateIsFound ==
    ASSUME SessionsOK, ClockTypeOK, response.status = "PENDING", now >= response.due,
           NEW active \in BOOLEAN
    PROVE  Breach \in ResponseCandidates(DefaultCutoffs, IF active THEN ResponseTarget ELSE 0, now)
<1>1. response.due \in Nat /\ now \in Nat
  BY DEF SessionsOK, ClockTypeOK
<1>2. "BREACHED" \in DOMAIN DefaultCutoffs /\ DefaultCutoffs["BREACHED"] = 10
  BY SweepAssumption
<1>3. "BREACHED" \in Reached(DefaultCutoffs, response.due, IF active THEN ResponseTarget ELSE 0, now)
  BY <1>1, <1>2, SweepAssumption DEF Reached
<1> QED BY <1>3 DEF Breach, ResponseCandidates

LEMMA LateStep ==
    ASSUME ClockTypeOK, SessionsOK, LateInv, SweepNext
    PROVE  LateInv'
<1>1. session \in [Sessions -> SessionType]
  BY DEF SessionsOK
<1>2. ASSUME NEW s \in Sessions, SessionStep(s) PROVE LateInv'
  <2>1. \A o \in Sessions \ {s} : session'[o] = session[o]
    BY <1>1, <1>2 DEF SessionStep, Work, BeginTick, Classify, Record, Notify, AutoEscalate,
       EscalationFails, CommitTick, Recorded, CommitAnswer, Answer, Rollback
  <2>2. ledger \subseteq ledger'
    BY <1>2 DEF SessionStep, Work, BeginTick, Classify, Record, Notify, AutoEscalate,
       EscalationFails, CommitTick, Recorded, CommitAnswer, Answer, Rollback
  <2>3. /\ response'.due = response.due
        /\ response.status # "NONE" => response'.status # "NONE"
    BY <1>2 DEF SessionsOK, SessionStep, Work, BeginTick, Classify, Record, Notify, AutoEscalate,
       EscalationFails, CommitTick, Recorded, CommitAnswer, Answer, Rollback
  <2>4. LateAnswerIsOnRecord'
    <3>1. CASE CommitAnswer(s)
      <4>1. response'.done = session[s].at /\ ledger' = ledger \cup session[s].rows
        BY <3>1 DEF CommitAnswer, SessionsOK
      <4>2. session[s].at >= response.due => Breach \in session[s].rows \cup ledger
        BY <3>1 DEF CommitAnswer, LateInv
      <4> QED BY <4>1, <4>2, <2>3 DEF LateAnswerIsOnRecord, Breach
    <3>2. CASE ~CommitAnswer(s)
      <4>1. response' = response
        BY <1>2, <3>2 DEF SessionStep, Work, BeginTick, Classify, Record, Notify, AutoEscalate,
           EscalationFails, CommitTick, Recorded, Answer, Rollback
      <4> QED BY <4>1, <2>2 DEF LateInv, LateAnswerIsOnRecord
    <3> QED BY <3>1, <3>2
  <2>5. session'[s].op = "answer" =>
          /\ response'.status # "NONE" /\ session'[s].pc # "started"
          /\ session'[s].at >= response'.due => Breach \in session'[s].found
          /\ session'[s].pc = "recorded" => session'[s].found \subseteq session'[s].rows \cup ledger'
    <3>1. CASE Answer(s)
      <4>1. PICK active \in PolicyStates :
              session'[s] = [Idle EXCEPT !.pc = "classified", !.op = "answer", !.at = now,
                !.found = ResponseCandidates(DefaultCutoffs, IF active THEN ResponseTarget ELSE 0, now)]
        BY <1>1, <3>1 DEF Answer
      <4>2. session'[s].pc = "classified" /\ session'[s].at = now
            /\ session'[s].found = ResponseCandidates(DefaultCutoffs,
                                      IF active THEN ResponseTarget ELSE 0, now)
        BY <4>1 DEF Idle
      <4>3. response.status = "PENDING" /\ response' = response /\ active \in BOOLEAN
        BY <3>1, SweepAssumption DEF Answer
      <4> QED BY <4>2, <4>3, LateIsFound
    <3>2. CASE Record(s)
      <4>1. session'[s] = [session[s] EXCEPT !.pc = "recorded", !.rows = session[s].found \ ledger]
            /\ response' = response /\ ledger' = ledger
        BY <1>1, <3>2 DEF Record
      <4>2. session'[s].op = session[s].op /\ session'[s].at = session[s].at
            /\ session'[s].pc = "recorded"
            /\ session'[s].found = session[s].found /\ session'[s].rows = session[s].found \ ledger
        BY <4>1, <1>1 DEF SessionType
      <4> QED BY <4>1, <4>2 DEF LateInv
    <3>3. CASE Classify(s)
      <4> DEFINE at == session[s].at
                 found == Candidates(at) \cup ResponseCandidates(FirstResponseCutoffs, ResponseTarget, at)
                 late == "ESCALATED" \in ResolutionReached(at) /\ escalation = "none"
      <4>1. session[s].pc = "started"
            /\ session'[s] = [session[s] EXCEPT !.pc = "classified", !.found = found, !.overdue = late]
        BY <1>1, <3>3 DEF Classify
      <4>2. session'[s].op = session[s].op
        BY <4>1, <1>1 DEF SessionType
      <4>3. session[s].op # "answer"
        BY <4>1 DEF LateInv
      <4> QED BY <4>2, <4>3
    <3>4. CASE Notify(s) \/ AutoEscalate(s) \/ EscalationFails(s)
      <4>1. session'[s].op = session[s].op /\ session'[s].at = session[s].at
            /\ session'[s].found = session[s].found /\ session'[s].pc \notin {"recorded", "started"}
            /\ response' = response
        BY <3>4, <1>1 DEF SessionType, Notify, AutoEscalate, EscalationFails
      <4> QED BY <4>1 DEF LateInv
    <3>5. CASE BeginTick(s) \/ CommitTick(s) \/ CommitAnswer(s) \/ Rollback(s)
      BY <3>5, SessionEnds
    <3> QED BY <1>2, <3>1, <3>2, <3>3, <3>4, <3>5 DEF SessionStep, Work
  <2>6. ASSUME NEW o \in Sessions, o # s, session'[o].op = "answer"
        PROVE  /\ response'.status # "NONE" /\ session'[o].pc # "started"
               /\ session'[o].at >= response'.due => Breach \in session'[o].found
               /\ session'[o].pc = "recorded" => session'[o].found \subseteq session'[o].rows \cup ledger'
    BY <2>6, <2>1, <2>2, <2>3 DEF LateInv
  <2> QED BY <2>4, <2>5, <2>6 DEF LateInv, Breach
<1>3. CASE \A s \in Sessions : ~SessionStep(s)
  <2>1. ledger' = ledger /\ session' = session
    BY <1>3, HandlersLeaveSessions
  <2>2. CASE response' = response
    BY <2>1, <2>2 DEF LateInv, LateAnswerIsOnRecord, Breach
  <2>3. CASE ReceiveMail
    BY <2>1, <2>3 DEF ReceiveMail, LateInv, LateAnswerIsOnRecord
  <2> QED BY <1>3, <2>2, <2>3 DEF SweepNext, Steps, ManualEscalate, AcceptEscalation, StageBreached,
     ResolveTicket, CloseTicket, ReopenTicket, ClockStep, sweepVars
<1> QED BY <1>2, <1>3

---------------------------------------------------------------------------

IInv ==
    /\ ClockTypeOK /\ CyclesBounded /\ SessionsOK /\ crossed \subseteq Entries
    /\ LedgerInv /\ TruthInv /\ LateInv

LEMMA IInvInit == SweepInit => IInv
<1> SUFFICES ASSUME SweepInit PROVE IInv
  OBVIOUS
<1> USE ClockAssumption, SweepAssumption DEF SweepInit, Init
<1>1. ClockTypeOK /\ CyclesBounded
  BY DEF ClockTypeOK, CyclesBounded
<1>2. \A s \in Sessions : session[s] = Idle
  OBVIOUS
<1>3. SessionsOK
  BY <1>1, IdleType DEF SessionsOK
<1>4. LedgerInv
  BY <1>2 DEF LedgerInv, NotifiedOnce, Idle, Before
<1>5. CrossedNow = {}
  BY DEF CrossedNow, ResolutionReached
<1>6. TruthInv
  BY <1>2, <1>5 DEF TruthInv, Known, Idle
<1>7. LateInv
  BY <1>2 DEF LateInv, LateAnswerIsOnRecord, Idle
<1> QED BY <1>1, <1>3, <1>4, <1>6, <1>7 DEF IInv

LEMMA IInvStep == IInv /\ [SweepNext]_allVars => IInv'
<1> SUFFICES ASSUME IInv, [SweepNext]_allVars PROVE IInv'
  OBVIOUS
<1> USE DEF IInv
<1>1. CASE UNCHANGED allVars
  <2>1. ClockTypeOK' /\ CyclesBounded'
    BY <1>1, ClockTypeStep, ClockMoves DEF allVars
  <2>2. SessionsOK' /\ crossed' \subseteq Entries
    BY <1>1 DEF allVars, sweepVars, vars, clock, SessionsOK, SessionType
  <2>3. LedgerInv'
    BY <1>1 DEF allVars, sweepVars, LedgerInv, NotifiedOnce, Before
  <2>4. CrossedNow' = CrossedNow
    BY <1>1 DEF allVars, vars, clock, CrossedNow, ResolutionReached, Reached
  <2>5. TruthInv'
    BY <1>1, <2>4 DEF allVars, sweepVars, TruthInv, Known
  <2>6. LateInv'
    BY <1>1 DEF allVars, sweepVars, LateInv, LateAnswerIsOnRecord
  <2> QED BY <2>1, <2>2, <2>3, <2>5, <2>6
<1>2. CASE SweepNext
  <2>1. ClockTypeOK' /\ CyclesBounded'
    BY <1>2, StepsAreClockSteps, ClockTypeStep, ClockMoves
  <2>2. crossed' \subseteq Entries
    <3>1. CrossedNow' \subseteq Entries
      BY <2>1, ClockAssumption
         DEF CrossedNow, ResolutionReached, Reached, Entries, ClockTypeOK, CyclesBounded
    <3> QED BY <3>1, <1>2 DEF SweepNext, Remember
  <2>3. SessionsOK'
    BY <1>2, SessionTypeStep, HandlerTypeStep
  <2>4. LedgerInv'
    <3>1. CASE \A s \in Sessions : ~SessionStep(s)
      BY <1>2, <3>1, HandlersLeaveSessions DEF LedgerInv, NotifiedOnce, Before
    <3> QED BY <3>1, LedgerStep
  <2>5. TruthInv' /\ LateInv'
    BY <1>2, TruthStep, LateStep
  <2> QED BY <2>1, <2>2, <2>3, <2>4, <2>5
<1> QED BY <1>1, <1>2

\* The inductive invariant of sweeps, answers and their ledger.
THEOREM SweepInvariance == SweepSpec => []IInv
BY IInvInit, IInvStep, PTL DEF SweepSpec

\* Types, for any number of sessions, thresholds and failures.
THEOREM SweepTypeCorrect == SweepSpec => []SweepTypeOK
<1>1. IInv => SweepTypeOK
  BY DEF IInv, SweepTypeOK, SessionsOK
<1> QED BY <1>1, SweepInvariance, PTL

\* A threshold is notified once at most in each cycle, and only from the ledger.
THEOREM NotifiedOnceHolds == SweepSpec => []NotifiedOnce
<1>1. IInv => NotifiedOnce
  BY DEF IInv, LedgerInv
<1> QED BY <1>1, SweepInvariance, PTL

\* The ledger never claims a threshold the clock did not reach in that cycle.
THEOREM LedgerIsTrueHolds == SweepSpec => []LedgerIsTrue
<1>1. IInv => LedgerIsTrue
  BY DEF IInv, TruthInv, Known, LedgerIsTrue
<1> QED BY <1>1, SweepInvariance, PTL

\* No late first response escapes the ledger.
THEOREM LateAnswerIsOnRecordHolds == SweepSpec => []LateAnswerIsOnRecord
<1>1. IInv => LateAnswerIsOnRecord
  BY DEF IInv, LateInv
<1> QED BY <1>1, SweepInvariance, PTL

\* due_at keeps its lower bound under sweeps and handlers.
THEOREM SweptClockIsNotEarly == SweepSpec => []NeverOverdueEarly
BY SweepImplementsClock, NeverOverdueEarlyHolds, PTL
=============================================================================
