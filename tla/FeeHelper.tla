------------------------------- MODULE FeeHelper -------------------------------
(***************************************************************************)
(* What the transactions of one approved message may cost: the gas that is *)
(* estimated, the check of its price against the gas that was paid for on  *)
(* the source chain, and the limit taken from that payment when the        *)
(* estimate fails (FeeHelper, TransactionsHelper.getTransactionGas and     *)
(* their use in MessageApprovedProcessorService).                          *)
(*                                                                         *)
(* MessageApprovedProcessor has the batches and no amounts; here are the   *)
(* amounts, for one message. A turn of it, from the read of its row to the *)
(* update, is one step; the faults that keep a turn from being counted and *)
(* the redelivery of the task are here too, for they decide which gas the  *)
(* next transaction gets.                                                  *)
(***************************************************************************)
EXTENDS Integers, Sequences

CONSTANTS
  MinGasPrice,              \* minGasPrice
  MinGasLimit,              \* minGasLimit
  GasPerDataByte,           \* gasPerDataByte
  GasPriceModifierInverted, \* gasPriceModifierInverted
  MaxGasLimit,              \* MAX_GAS_LIMIT
  IssueCost,                \* the value of the second transaction of a deployment
  Balances,                 \* availableGasBalance: negative when overspent
  Lengths,                  \* lengths of the data of a transaction
  ExtraUnits,               \* txGasUnits beyond those of the data
  MaxFaults,                \* bound: lost answers, failed updates and crashes
  MaxIntake                 \* bound: deliveries of the EXECUTE task

ASSUME PriceType == MinGasPrice \in Nat \ {0} /\ GasPriceModifierInverted \in Nat \ {0}
ASSUME LimitType == MinGasLimit \in Nat \ {0} /\ GasPerDataByte \in Nat /\ MaxGasLimit \in Nat
ASSUME AmountType == IssueCost \in Nat /\ Balances \subseteq Int
ASSUME InputType == Lengths \subseteq Nat /\ ExtraUnits \subseteq Nat
ASSUME BoundType == MaxFaults \in Nat /\ MaxIntake \in Nat

MaxRetries == 3   \* MAX_NUMBER_OF_RETRIES

VARIABLES
  enabled,   \* isEnabledGasCheck
  estimable, \* the network can estimate the gas, at some times at least
  balance,   \* availableGasBalance of the row
  length,    \* the length of its transactions' data
  status,    \* of the row
  retry,     \* of the row
  sent,      \* the transactions the network accepted since the last delivery
  intake,    \* EXECUTE tasks processed for the message
  faults     \* lost answers, failed updates and crashes so far

parameters == <<enabled, estimable, balance, length>>
vars       == <<parameters, status, retry, sent, intake, faults>>

(* counted: the update that saves the retry count of its turn was made.    *)
Transaction == [gas : Int, value : Nat, estimated : BOOLEAN, units : Nat,
                counted : BOOLEAN]

------------------------------------------------------------------------------
(* FeeHelper and getTransactionGas                                         *)

(* gasLimit1: what carrying the data costs.                                *)
DataGas(len) == MinGasLimit + GasPerDataByte * len

GetRewaFeeFromGasLimit(gas, len) ==
  DataGas(len) * MinGasPrice + (gas * MinGasPrice) \div GasPriceModifierInverted

(* Variant: what the data costs is not taken off.                          *)
LimitWithoutData(funds, len) ==
  IF funds < DataGas(len) * MinGasPrice
  THEN DataGas(len)
  ELSE LET limit == (funds * GasPriceModifierInverted) \div MinGasPrice
       IN  IF limit > MaxGasLimit THEN MaxGasLimit ELSE limit

(* Variant: the gas price modifier is left out.                            *)
LimitWithoutModifier(funds, len) ==
  IF funds < DataGas(len) * MinGasPrice
  THEN DataGas(len)
  ELSE LET limit == (funds - DataGas(len) * MinGasPrice) \div MinGasPrice
       IN  IF limit > MaxGasLimit THEN MaxGasLimit ELSE limit

(* Variant: a balance that does not pay for the data gives no gas.         *)
LimitWithoutFloor(funds, len) ==
  IF funds < DataGas(len) * MinGasPrice
  THEN 0
  ELSE LET limit == ((funds - DataGas(len) * MinGasPrice) * GasPriceModifierInverted)
                      \div MinGasPrice
       IN  IF limit > MaxGasLimit THEN MaxGasLimit ELSE limit

GetGasLimitFromRewaFee(funds, len) ==
  IF funds < DataGas(len) * MinGasPrice
  THEN DataGas(len)
  ELSE LET limit == ((funds - DataGas(len) * MinGasPrice) * GasPriceModifierInverted)
                      \div MinGasPrice
       IN  IF limit > MaxGasLimit THEN MaxGasLimit ELSE limit

(* Math.ceil((txGasUnits * (11 + retry * 2)) / 10)                         *)
GetTransactionGas(units, n) == (units * (11 + 2 * n) + 9) \div 10

(* checkGasCost does not throw.                                            *)
CheckGasCost(gas, value) ==
  GetRewaFeeFromGasLimit(gas, length) + value <= balance \/ ~enabled

------------------------------------------------------------------------------
Init ==
  /\ enabled \in BOOLEAN /\ estimable \in BOOLEAN
  /\ balance \in Balances /\ length \in Lengths
  /\ status = "PENDING" /\ retry = 0
  /\ sent = <<>> /\ intake = 1 /\ faults = 0

(* createOrUpdate for a task that is delivered again, whatever became of   *)
(* the row: the retries begin again at 0, and so does the gas.             *)
ExecuteTask ==
  /\ intake < MaxIntake
  /\ status' = "PENDING" /\ retry' = 0
  /\ sent' = <<>> /\ intake' = intake + 1
  /\ UNCHANGED <<parameters, faults>>

(* The network refuses a limit below what carrying the data takes.         *)
Accepted(tx) == tx.gas >= DataGas(length)

(* Variant: the retry of an entry that was not sent begins again at 1.     *)
UnsentAtOne(n) == 1

(* An entry that was not sent gets its retry back, with 1 as a floor.      *)
Unsent(n) == IF n = 1 THEN 1 ELSE n - 1

Sent(tx, counted) == sent' = Append(sent, [tx EXCEPT !.counted = counted])

Fault == faults < MaxFaults /\ faults' = faults + 1

(* sendTransactions and the update, with n the retry count after the build.*)
Submit(tx, n) ==
  /\ IF Accepted(tx)
     THEN Sent(tx, TRUE) /\ retry' = n
     ELSE retry' = Unsent(n) /\ UNCHANGED sent
  /\ UNCHANGED <<parameters, status, intake, faults>>

(* The network refuses the transaction for another reason, say its nonce.  *)
SubmitRefused(n) ==
  /\ Fault
  /\ retry' = Unsent(n)
  /\ UNCHANGED <<parameters, status, sent, intake>>

(* sendTransactions answers null, the update fails, or the process stops   *)
(* before it: the row keeps its retry, whether the network has the         *)
(* transaction or not.                                                     *)
SubmitLost(tx) ==
  /\ Fault
  /\ \/ Accepted(tx) /\ Sent(tx, FALSE)
     \/ UNCHANGED sent
  /\ UNCHANGED <<parameters, status, retry, intake>>

(* The issue cost is only attached once a first transaction succeeded.     *)
Values == IF sent = <<>> /\ intake = 1 THEN {0} ELSE {0, IssueCost}

Turn == status = "PENDING" /\ retry < MaxRetries

Estimated(units, value) ==
  [gas |-> GetTransactionGas(units, retry), value |-> value, estimated |-> TRUE,
   units |-> units, counted |-> FALSE]

WithFullGas(value) ==
  [gas |-> GetGasLimitFromRewaFee(balance, length), value |-> value,
   estimated |-> FALSE, units |-> 0, counted |-> FALSE]

(* Variant: a try that is sent is not counted.                             *)
ExecuteEstimatedUncounted ==
  /\ Turn /\ estimable
  /\ \E x \in ExtraUnits, v \in Values :
       LET tx == Estimated(DataGas(length) + x, v)
       IN  /\ CheckGasCost(tx.gas, v)
           /\ Submit(tx, IF retry = 0 THEN 1 ELSE retry)

(* The gas is estimated and paid for.                                      *)
ExecuteEstimated ==
  /\ Turn /\ estimable
  /\ \E x \in ExtraUnits, v \in Values :
       LET tx == Estimated(DataGas(length) + x, v)
       IN  /\ CheckGasCost(tx.gas, v)
           /\ Submit(tx, retry + 1) \/ SubmitRefused(retry + 1) \/ SubmitLost(tx)

(* The gas is estimated and not paid for: the row is FAILED at once.       *)
NotEnoughGas ==
  /\ Turn /\ estimable
  /\ \E x \in ExtraUnits, v \in Values :
       ~CheckGasCost(Estimated(DataGas(length) + x, v).gas, v)
  /\ status' = "FAILED" /\ retry' = MaxRetries
  /\ UNCHANGED <<parameters, sent, intake, faults>>

(* The estimate fails: all that was paid for becomes the limit, unchecked, *)
(* and the try counts as the last one.                                     *)
GasError ==
  /\ Turn
  /\ \E v \in Values :
       LET tx == WithFullGas(v)
       IN  Submit(tx, MaxRetries) \/ SubmitRefused(MaxRetries) \/ SubmitLost(tx)

GiveUp ==
  /\ status = "PENDING" /\ retry >= MaxRetries
  /\ status' = "FAILED"
  /\ UNCHANGED <<parameters, retry, sent, intake, faults>>

(* A transaction succeeds and GatewayProcessor marks the row.              *)
Execute ==
  /\ status = "PENDING" /\ sent # <<>>
  /\ status' = "SUCCESS"
  /\ UNCHANGED <<parameters, retry, sent, intake, faults>>

Cron == ExecuteEstimated \/ NotEnoughGas \/ GasError \/ GiveUp

Next == Cron \/ Execute \/ ExecuteTask

Spec == Init /\ [][Next]_vars

(* The cron is fired every 15 seconds and finds a PENDING row in the end.  *)
FairSpec == Spec /\ WF_vars(Cron)

------------------------------------------------------------------------------
(* The type of every variable; of one delivery the network has no more     *)
(* transactions than retries are counted, one more for each fault.         *)
TypeOK ==
  /\ enabled \in BOOLEAN /\ estimable \in BOOLEAN
  /\ balance \in Balances /\ length \in Lengths
  /\ status \in {"PENDING", "SUCCESS", "FAILED"}
  /\ retry \in 0 .. MaxRetries
  /\ sent \in Seq(Transaction) /\ intake \in Nat /\ faults \in Nat
  /\ Len(sent) <= retry + faults

CoversData == balance >= DataGas(length) * MinGasPrice

(* With the check enabled an estimated transaction costs the relayer's     *)
(* wallet, fee and value, at most the balance it gets back on the source   *)
(* chain. The limit that replaces a failed estimate is worth at most the   *)
(* balance too, when that carries the data at all; but the value such a    *)
(* transaction has, the issue cost, is checked by nobody and comes on top: *)
(* fee and value may exceed the balance by as much as the issue cost.      *)
FeesAreCovered ==
  enabled => \A i \in 1 .. Len(sent) :
    LET fee == GetRewaFeeFromGasLimit(sent[i].gas, length)
    IN  IF sent[i].estimated
        THEN fee + sent[i].value <= balance
        ELSE CoversData => fee <= balance /\ fee + sent[i].value <= balance + IssueCost

(* "with the full gas available": after a failed estimate one more unit of *)
(* gas costs all of the balance or more, and two more cost more than it,   *)
(* unless MAX_GAS_LIMIT stands in between. One more unit may still cost    *)
(* the balance exactly, for limit and fee both round down. The part about  *)
(* two units is for prices not below the modifier: below it the fee of     *)
(* several units may round down to the same number.                        *)
FullGasIsUsed ==
  \A i \in 1 .. Len(sent) :
    LET tx == sent[i]
    IN  ~tx.estimated =>
          \/ tx.gas = MaxGasLimit
          \/ /\ GetRewaFeeFromGasLimit(tx.gas + 1, length) >= balance
             /\ MinGasPrice >= GasPriceModifierInverted =>
                  GetRewaFeeFromGasLimit(tx.gas + 2, length) > balance

(* "and more gas with each retry": within one delivery of the task and for *)
(* the same estimate, a transaction gets more gas than every earlier one   *)
(* whose retry was saved, also when tries in between were refused and      *)
(* their retry taken back, and never less than any earlier one. After a    *)
(* turn whose update was lost the same gas is sent again: the comment is   *)
(* about retries, and the row does not count that one. Below 5 units       *)
(* rounding hides the difference.                                          *)
RetriesGetMoreGas ==
  \A i, j \in 1 .. Len(sent) :
    /\ i < j /\ sent[i].estimated /\ sent[j].estimated
    /\ sent[i].units = sent[j].units
    => /\ sent[i].gas <= sent[j].gas
       /\ sent[i].counted /\ sent[i].units >= 5 => sent[i].gas < sent[j].gas

(* Balances that carry the data and whose limit, for the rest, does not:   *)
(* getGasLimitFromRewaFee answers a limit the network refuses.             *)
RefusedBand ==
  CoversData /\ GetGasLimitFromRewaFee(balance, length) < DataGas(length)

(* Each delivery of a message ends, executed or failed, whatever its       *)
(* balance, negative or zero ones included, and whatever was lost on the   *)
(* way, outside RefusedBand. In it a transaction whose estimate fails is   *)
(* refused, its retry taken back, and all begins again.                    *)
EveryMessageEnds == []<>(status # "PENDING" \/ RefusedBand)
================================================================================
