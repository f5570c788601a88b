SPECIFICATION FairSpec
CONSTANTS
  MaxRows = 2
  MaxStage = 1
  tl = tl
  am = am
  SiteLead = SiteLead
  Chains <- MCChains
  PolicyStates = {TRUE}
INVARIANTS TypeOK StageRunsWhileAcknowledged OwnerFollowsChain LiveTicketHasLiveClock ClockedEscalationEndsWithTicket
PROPERTIES FrozenTicketIsNotWorked UnansweredReachesTop
