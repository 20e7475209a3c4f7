SPECIFICATION Spec
CONSTANTS
  Apps = {"a", "b"}
  Code <- TwoApps
  Static <- OnlyB
  Key <- SameKey
  Skew <- Ahead
  PlatformKey = "key"
  Tolerance = 5
  MaxAttempts = 2
  Slots = {1, 2}
  MaxFaults = 2
INVARIANTS
  TypeOK
  RoutedOnce
  RegistryIsTable
  AckedIsRouted
  FailureIsHandled
PROPERTIES
  Settles
CHECK_DEADLOCK FALSE
