SPECIFICATION FairSpec
CONSTANTS
  Runs = {r1}
  Items = {i1, i2, i3}
  NoRun = NoRun
  Program <- AllKinds
  MaxAttempts = 5
  Concurrency = 1
  BatchSize = 16
  HasTimeout = TRUE
  HasThrottle = FALSE
  MayUnregister = TRUE
  WaitExpires = TRUE
  MaxFaults = 0
  MaxCrashes = 0
PROPERTIES
  EveryRunEnds
  FailureAnnounced
  EndedRunSwept
  ImplementsDurableRun
CHECK_DEADLOCK FALSE
