SPECIFICATION Spec
CONSTANTS
  Runs = {r1}
  Items = {i1, i2}
  NoRun = NoRun
  Program <- OneRun
  MaxAttempts = 2
  Concurrency = 1
  BatchSize = 16
  HasTimeout = FALSE
  HasThrottle = FALSE
  MayUnregister = FALSE
  WaitExpires = FALSE
  MaxFaults = 0
  MaxCrashes = 1
SYMMETRY ItemSymmetry
INVARIANTS
  RunningSurvivesCrash
CHECK_DEADLOCK FALSE
