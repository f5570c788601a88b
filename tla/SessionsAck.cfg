SPECIFICATION OverlapSpec
CONSTANTS
  MaxRows = 2
  MaxStage = 1
  tl = tl
  am = am
  s1 = s1
  s2 = s2
  SiteLead = SiteLead
  Chains <- ShortChains
  PolicyStates = {TRUE}
  Sessions = {s1, s2}
  Overlapping = {"escalate_new", "confirm", "overdue"}
INVARIANT StageRunsWhileAcknowledged
