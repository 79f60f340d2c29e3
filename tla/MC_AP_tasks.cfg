SPECIFICATION Spec
CONSTANTS
  NumTasks = 5
  Type <- TypesFollowUps
  PageSize = 2
  MaxRetries = 2
  MaxFaults = 1
INVARIANTS TypeOK NoTaskSkipped NeverForgotten GivenUpAfterRetries
CHECK_DEADLOCK FALSE
