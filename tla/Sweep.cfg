SPECIFICATION MCSpec
CONSTANTS
  Targets = {1, 2, 5}
  Second = 2
  MaxTime = 10
  MaxPauses = 2
  MaxCycles = 2
  s1 = s1
  s2 = s2
  Sessions = {s1, s2}
  ResolutionCutoffs <- MCResolution
  FirstResponseCutoffs <- MCFirstResponse
  DefaultCutoffs <- MCDefault
  ResponseTarget = 2
  PolicyStates = {TRUE, FALSE}
  MaxFaults = 1
  SweepTime = 2
  SweepTarget = 1
INVARIANTS SweepTypeOK NeverOverdueEarly NotifiedOnce LedgerIsTrue LateAnswerIsOnRecord
PROPERTIES ImplementsBudget SweepsEscalateOverdue
\* The time of the model ends.
CHECK_DEADLOCK FALSE
