SPECIFICATION Spec
CONSTANTS
  a = a
  b = b
  c = c
  Messages = {a, b, c}
  Kind <- KindsGarbled
  Take = 2
  Timely = TRUE
  MaxFaults = 1
  MaxThrows = 1
  MaxIntake = 1
INVARIANTS ReportsBounded FailedIsReported ReportedIsNotExecuted
CHECK_DEADLOCK FALSE
