SPECIFICATION Spec
CONSTANTS
  a = a
  b = b
  c = c
  Messages = {a}
  Kind <- KindsDeployPlain
  Take = 2
  Timely = FALSE
  MaxFaults = 1
  MaxThrows = 0
  MaxIntake = 1
INVARIANT UnsentKeepsRetry
CHECK_DEADLOCK FALSE
