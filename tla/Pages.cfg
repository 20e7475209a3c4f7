SPECIFICATION Spec
CONSTANTS
  Steps = 1
  MaxRuns = 2
  MaxFaults = 1
  MaxPolls = 2
INVARIANTS
  TypeOK
  FrozenIsFinal
  DoneIsCompleted
  FollowedUpOnce
PROPERTIES
  Converges
  PanelCompletes
CHECK_DEADLOCK FALSE
