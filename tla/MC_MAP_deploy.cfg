SPECIFICATION Spec
CONSTANTS
  a = a
  b = b
  c = c
  Messages = {a}
  Kind <- KindsDeployPlain
  Take = 2
  Timely = FALSE
  MaxFaults = 2
  MaxThrows = 0
  MaxIntake = 2
INVARIANTS TypeOK AttemptsBounded IssueCostAfterSuccess SuccessKeptUnlessRaced
CHECK_DEADLOCK FALSE
