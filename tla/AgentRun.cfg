SPECIFICATION Spec
CONSTANTS
  Tools = {"search", "fetch"}
  Replies <- FewReplies
  MaxIterations = 2
  Rounds = 2
  Prepare <- Compacts
  MaxAttempts = 3
  MaxLost = 2
INVARIANTS
  TypeOK
  SameQuestion
  OwnOutput
  DecisionDurable
  ResultOfMemos
PROPERTIES
  RecordedStays
  Ends
CHECK_DEADLOCK FALSE
