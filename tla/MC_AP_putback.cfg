SPECIFICATION Spec
CONSTANTS
  NumTasks = 1
  Type <- TypesGateway
  PageSize = 2
  MaxRetries = 3
  MaxFaults = 1
INVARIANT RetryCountsSends
CHECK_DEADLOCK FALSE
