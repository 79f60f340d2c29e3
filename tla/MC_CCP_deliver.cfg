SPECIFICATION FairSpec
CONSTANTS
  a = a
  b = b
  c = c
  k = k
  msg = msg
  Txs = {a, b, c}
  Calls = {k}
  Messages = {msg}
  Log <- LogMixed
  NumBlocks = 3
  Block <- BlockMixed
  MaxFaults = 1
INVARIANTS TypeOK OnlyFinalIsPosted PostsBounded MarkedBeforePosted NoCallCreditedTwice
PROPERTIES DeliversEvents EveryEventIsAnswered
CHECK_DEADLOCK FALSE
