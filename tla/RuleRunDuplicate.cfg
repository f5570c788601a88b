SPECIFICATION Spec
CONSTANTS
  rule1 = rule1
  rule2 = rule2
  NumRuns = 2
  RuleOf <- MCTwoRules
  Workers = {w1, w2}
  NoWorker = NoWorker
  NumMails = 1
  PageSize = 1
  Window = 1
  Cap = 1
  MaxAttempts = 1
  MaxFaults = 0
INVARIANT NoSecondForward
CHECK_DEADLOCK FALSE
