SPECIFICATION Spec
CONSTANTS
  Targets = {2, 5}
  Second = 2
  MaxTime = 10
  MaxPauses = 3
  MaxCycles = 1
PROPERTY PriorityKeepsConsumption
\* The time of the model ends.
CHECK_DEADLOCK FALSE
