SPECIFICATION Spec
CONSTANTS
  a = a
  b = b
  Messages = {a, b}
  NumTasks = 2
  Refunds <- RefundSecond
  Collect = collect
  Take = 2
  MaxRetries = 2
  MaxFaults = 1
SYMMETRY Interchangeable
INVARIANTS TypeOK NoNonceSkipped NoncesOfARunDiffer OnlyLateOnesSucceedTwice
VIEW View
CHECK_DEADLOCK FALSE
