SPECIFICATION Spec
CONSTANTS
  Runs = {r1}
  Items = {i1, i2, i3}
  NoRun = NoRun
  Program <- AllKinds
  MaxAttempts = 5
  Concurrency = 1
  BatchSize = 16
  HasTimeout = TRUE
  HasThrottle = TRUE
  MayUnregister = TRUE
  WaitExpires = TRUE
  MaxFaults = 2
  MaxCrashes = 2
SYMMETRY ItemSymmetry
INVARIANTS
  TypeOK
  SingleCarrier
  NoRunLost
  StepsInOrder
  SleepsInFull
  SentBeforeDone
  AttemptsBounded
PROPERTIES
  ExecutedOnce
  ResultsLast
  EndIsFinal
CHECK_DEADLOCK FALSE
