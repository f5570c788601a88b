SPECIFICATION MCSpec
CONSTANTS
  MaxRows = 2
  MaxStage = 1
  tl = tl
  am = am
  s1 = s1
  s2 = s2
  SiteLead = SiteLead
  Chains <- ShortChains
  PolicyStates = {TRUE, FALSE}
  Sessions = {s1, s2}
  Overlapping <- Operations
SYMMETRY Symmetry
INVARIANTS SessionsTypeOK OneOpenEscalation HandlingRowMeansAccepted
PROPERTY SerialImplementsLadder
