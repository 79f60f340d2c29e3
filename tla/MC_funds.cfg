SPECIFICATION FairSpec
CONSTANTS
  CollectThreshold = 3
  RefundReserve = 1
  ConvertThreshold = 2
  RefundTasks <- SmallAndLarge
  MaxPaid = 4
  MaxFaults = 1
INVARIANTS TypeOK CoveredUnlessLate ReserveServesRefunds
PROPERTIES FeesAreCollected WrewaIsUnwrapped
