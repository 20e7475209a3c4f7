SPECIFICATION Spec
CONSTANTS
  Runs = {r1, r2}
  Items = {i1, i2}
  NoRun = NoRun
  Program <- SleepSend
  MaxAttempts = 3
  Concurrency = 1
  BatchSize = 16
  HasTimeout = TRUE
  HasThrottle = FALSE
  MayUnregister = FALSE
  WaitExpires = TRUE
  MaxFaults = 0
  MaxCrashes = 1
SYMMETRY Symmetry
INVARIANTS
  SingleCarrier
PROPERTIES
  ImplementsDurableRun
CHECK_DEADLOCK FALSE
