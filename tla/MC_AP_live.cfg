SPECIFICATION FairSpec
CONSTANTS
  NumTasks = 3
  Type <- TypesRetries
  PageSize = 2
  MaxRetries = 3
  MaxFaults = 1
INVARIANT DuplicatesNeedFaults
PROPERTIES EveryTaskIsSaved EveryGatewayTaskEnds
CHECK_DEADLOCK FALSE
