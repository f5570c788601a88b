SPECIFICATION FairSpec
CONSTANTS
  rule1 = rule1
  rule2 = rule2
  NumRuns = 1
  RuleOf <- MCOneRule
  Workers = {w1, w2}
  NoWorker = NoWorker
  NumMails = 2
  PageSize = 1
  Window = 1
  Cap = 1
  MaxAttempts = 0
  MaxFaults = 1
INVARIANTS RuleRunTypeOK CompletedRunMissesNothing
PROPERTIES RunEnds
CHECK_DEADLOCK FALSE
