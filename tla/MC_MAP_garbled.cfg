SPECIFICATION Spec
CONSTANTS
  a = a
  b = b
  c = c
  Messages = {a, b}
  Kind <- KindsGarbled
  Take = 2
  Timely = FALSE
  MaxFaults = 0
  MaxThrows = 2
  MaxIntake = 1
INVARIANT FailedAtOnce
CHECK_DEADLOCK FALSE
