SPECIFICATION FairSpec
CONSTANTS
  MinGasPrice = 5
  MinGasLimit = 4
  GasPerDataByte = 2
  GasPriceModifierInverted = 3
  MaxGasLimit = 22
  IssueCost = 7
  Balances <- BalancesAround
  Lengths <- LengthsSmall
  ExtraUnits <- ExtraSmall
  MaxFaults = 1
  MaxIntake = 2
INVARIANTS TypeOK FeesAreCovered FullGasIsUsed RetriesGetMoreGas
PROPERTY EveryMessageEnds
CHECK_DEADLOCK FALSE
