SPECIFICATION FairSpec
CONSTANTS
  a = a
  b = b
  c = c
  Messages = {b, c}
  Kind <- KindsMixed
  Take = 1
  Timely = FALSE
  MaxFaults = 1
  MaxThrows = 0
  MaxIntake = 1
PROPERTIES EveryMessageSettles
CHECK_DEADLOCK FALSE
