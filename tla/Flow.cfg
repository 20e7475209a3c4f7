SPECIFICATION Spec
CONSTANTS
  Subscribers <- ByName
  Debounced = {"merge"}
  MaxSize = 2
  MaxEvents = 2
  MaxFaults = 2
INVARIANTS
  TypeOK
  BatchesInOrder
  QueuedIsEnqueued
  WindowIsLive
PROPERTIES
  AllHandled
CHECK_DEADLOCK FALSE
