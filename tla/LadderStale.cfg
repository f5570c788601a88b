SPECIFICATION Spec
CONSTANTS
  MaxRows = 2
  MaxStage = 1
  tl = tl
  am = am
  SiteLead = SiteLead
  Chains <- MCChains
  PolicyStates = {TRUE}

PROPERTY AcceptanceLostOnlyByBreach
