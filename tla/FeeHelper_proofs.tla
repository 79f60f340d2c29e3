---------------------------- MODULE FeeHelper_proofs ----------------------------
(* Proofs about FeeHelper: what the fees cover, for every price, every     *)
(* limit and every balance.                                                *)
EXTENDS FeeHelper, TLAPS

(* Integer division rounds down by less than one.                          *)
LEMMA DivBounds ==
  ASSUME NEW a \in Int, NEW b \in Nat \ {0}
  PROVE  /\ a \div b \in Int
         /\ (a \div b) * b <= a
         /\ a < ((a \div b) + 1) * b
  OBVIOUS

(* A product of positive factors is compared by comparing one of them.     *)
LEMMA Cancel ==
  ASSUME NEW a \in Int, NEW b \in Int, NEW c \in Nat \ {0}
  PROVE  /\ a * c <= b * c => a <= b
         /\ a <= b => a * c <= b * c
         /\ a * c < b * c => a < b
  OBVIOUS

LEMMA DataGasType ==
  ASSUME NEW len \in Nat
  PROVE  DataGas(len) \in Nat \ {0} /\ DataGas(len) * MinGasPrice \in Nat
  BY PriceType, LimitType DEF DataGas

LEMMA FeeType ==
  ASSUME NEW gas \in Int, NEW len \in Nat
  PROVE  GetRewaFeeFromGasLimit(gas, len) \in Int
<1>1. DataGas(len) * MinGasPrice \in Int /\ gas * MinGasPrice \in Int
  BY DataGasType, PriceType
<1>2. (gas * MinGasPrice) \div GasPriceModifierInverted \in Int
  BY <1>1, DivBounds, PriceType
<1>3. QED
  BY <1>1, <1>2 DEF GetRewaFeeFromGasLimit

(* The limit is a number whatever the balance, a negative one included.    *)
LEMMA LimitType2 ==
  ASSUME NEW funds \in Int, NEW len \in Nat
  PROVE  GetGasLimitFromRewaFee(funds, len) \in Int
<1> DEFINE x == funds - DataGas(len) * MinGasPrice
<1>1. DataGas(len) \in Nat \ {0} /\ x \in Int
  BY DataGasType
<1>2. (x * GasPriceModifierInverted) \div MinGasPrice \in Int
  BY <1>1, DivBounds, PriceType
<1>3. QED
  BY <1>1, <1>2, LimitType DEF GetGasLimitFromRewaFee

(* The limit taken from a balance that carries the data is worth at most   *)
(* that balance, and one more unit of gas at least as much, although both  *)
(* functions round down; two more are worth more, unless the fee of        *)
(* several units rounds down to nothing.                                   *)
LEMMA LimitIsWorthTheBalance ==
  ASSUME NEW funds \in Int, NEW len \in Nat, funds >= DataGas(len) * MinGasPrice,
         NEW gas, gas = GetGasLimitFromRewaFee(funds, len)
  PROVE  /\ GetRewaFeeFromGasLimit(gas, len) <= funds
         /\ \/ gas = MaxGasLimit
            \/ /\ GetRewaFeeFromGasLimit(gas + 1, len) >= funds
               /\ MinGasPrice >= GasPriceModifierInverted =>
                    GetRewaFeeFromGasLimit(gas + 2, len) > funds
<1> DEFINE P == MinGasPrice
           I == GasPriceModifierInverted
           x == funds - DataGas(len) * P
           q == (x * I) \div P
<1>1. P \in Nat \ {0} /\ I \in Nat \ {0} /\ MaxGasLimit \in Nat
  BY PriceType, LimitType
<1>2. DataGas(len) * P \in Nat /\ x \in Nat
  BY DataGasType
<1>3. q \in Int /\ q * P <= x * I /\ x * I < (q + 1) * P
  <2> DEFINE n == x * I
  <2>1. n \in Int
    BY <1>1, <1>2
  <2> HIDE DEF n
  <2>2. n \div P \in Int /\ (n \div P) * P <= n /\ n < ((n \div P) + 1) * P
    BY <2>1, <1>1, DivBounds
  <2>3. QED
    BY <2>2 DEF n
<1>4. gas = IF q > MaxGasLimit THEN MaxGasLimit ELSE q
  BY <1>2 DEF GetGasLimitFromRewaFee
<1>5. gas \in Int /\ gas <= q
  BY <1>1, <1>3, <1>4
<1>6. (gas * P) \div I <= x
  <2> DEFINE r == (gas * P) \div I
  <2>1. r \in Int /\ r * I <= gas * P
    BY <1>1, <1>5, DivBounds
  <2>2. gas * P <= q * P
    BY <1>1, <1>3, <1>5, Cancel
  <2>3. r * I <= x * I
    <3> HIDE DEF q, r, x
    <3>1. QED
      BY <2>1, <2>2, <1>1, <1>2, <1>3, <1>5
  <2>4. QED
    BY <2>1, <2>3, <1>1, <1>2, Cancel
<1>7. ASSUME gas = q
      PROVE  x <= ((gas + 1) * P) \div I
  <2> DEFINE r == ((gas + 1) * P) \div I
  <2>1. r \in Int /\ (gas + 1) * P < (r + 1) * I
    <3> DEFINE n == (gas + 1) * P
    <3>1. n \in Int
      BY <1>1, <1>5
    <3> HIDE DEF n
    <3>2. n \div I \in Int /\ n < ((n \div I) + 1) * I
      BY <3>1, <1>1, DivBounds
    <3>3. QED
      BY <3>2 DEF n
  <2>2. x * I < (r + 1) * I
    <3> HIDE DEF q, r, x
    <3>1. QED
      BY <2>1, <1>1, <1>2, <1>3, <1>7
  <2>3. x < r + 1
    BY <2>1, <2>2, <1>1, <1>2, Cancel
  <2>4. QED
    BY <2>1, <2>3, <1>2
<1>7a. ASSUME gas = q, P >= I
       PROVE  x < ((gas + 2) * P) \div I
  <2> DEFINE n == (gas + 2) * P
             r == n \div I
  <2>1. n \in Int /\ n = (gas + 1) * P + P
    BY <1>1, <1>5
  <2>2. r \in Int /\ n < (r + 1) * I
    <3> HIDE DEF n
    <3>1. QED
      BY <2>1, <1>1, DivBounds
  <2>3. x * I + I < n
    <3>1. x * I < (gas + 1) * P
      BY <1>3, <1>7a
    <3>2. PICK a \in Int, b \in Int : a = x * I /\ b = (gas + 1) * P
      BY <1>1, <1>2, <1>5
    <3>3. n = b + P /\ a < b
      BY <2>1, <3>1, <3>2
    <3> HIDE DEF n, x, q
    <3>4. QED
      BY <3>2, <3>3, <1>1, <1>7a
  <2>4. (x + 1) * I < (r + 1) * I
    <3>1. (x + 1) * I = x * I + I
      BY <1>1, <1>2
    <3> HIDE DEF n, r, x, q
    <3>2. PICK a \in Int, b \in Int : a = (x + 1) * I /\ b = (r + 1) * I
      BY <1>1, <1>2, <2>2
    <3>3. a < n /\ n < b
      BY <2>2, <2>3, <3>1, <3>2
    <3>4. QED
      BY <2>1, <3>2, <3>3
  <2>5. x + 1 < r + 1
    <3> HIDE DEF r, x
    <3>1. x + 1 \in Int /\ r + 1 \in Int
      BY <2>2, <1>2
    <3>2. QED
      BY <2>4, <3>1, <1>1, Cancel
  <2>6. QED
    BY <2>2, <2>5, <1>2
<1>8. GetRewaFeeFromGasLimit(gas, len) = DataGas(len) * P + (gas * P) \div I
  BY DEF GetRewaFeeFromGasLimit
<1>9. GetRewaFeeFromGasLimit(gas + 1, len) = DataGas(len) * P + ((gas + 1) * P) \div I
  BY DEF GetRewaFeeFromGasLimit
<1>9a. GetRewaFeeFromGasLimit(gas + 2, len) = DataGas(len) * P + ((gas + 2) * P) \div I
  BY DEF GetRewaFeeFromGasLimit
<1>10. /\ (gas * P) \div I \in Int /\ ((gas + 1) * P) \div I \in Int
       /\ ((gas + 2) * P) \div I \in Int
  BY <1>1, <1>5, DivBounds
<1>11. GetRewaFeeFromGasLimit(gas, len) <= funds
  <2> HIDE DEF x
  <2>1. funds = x + DataGas(len) * P
    BY <1>2 DEF x
  <2>2. QED
    BY <2>1, <1>2, <1>6, <1>8, <1>10
<1>12. CASE gas = q
  <2>1. GetRewaFeeFromGasLimit(gas + 1, len) >= funds
    BY <1>2, <1>7, <1>9, <1>10, <1>12
  <2>2. P >= I => GetRewaFeeFromGasLimit(gas + 2, len) > funds
    BY <1>2, <1>7a, <1>9a, <1>10, <1>12
  <2>3. QED
    BY <1>11, <2>1, <2>2
<1>13. QED
  BY <1>4, <1>11, <1>12

(* A balance that does not carry the data pays for no limit at all.        *)
LEMMA PoorBalance ==
  ASSUME NEW funds \in Int, NEW len \in Nat, ~(funds >= DataGas(len) * MinGasPrice)
  PROVE  /\ GetRewaFeeFromGasLimit(GetGasLimitFromRewaFee(funds, len) + 1, len) >= funds
         /\ GetRewaFeeFromGasLimit(GetGasLimitFromRewaFee(funds, len) + 2, len) > funds
<1> DEFINE n == (DataGas(len) + 1) * MinGasPrice
           k == (DataGas(len) + 2) * MinGasPrice
<1>1. DataGas(len) \in Nat /\ DataGas(len) * MinGasPrice \in Nat
  BY DataGasType
<1>2. GetGasLimitFromRewaFee(funds, len) = DataGas(len)
  BY <1>1 DEF GetGasLimitFromRewaFee
<1>3. n \in Nat /\ k \in Nat
  BY <1>1, PriceType
<1>4. n \div GasPriceModifierInverted \in Nat /\ k \div GasPriceModifierInverted \in Nat
  <2> HIDE DEF n, k
  <2>1. QED
    BY <1>3, PriceType
<1>5. QED
  BY <1>1, <1>2, <1>4 DEF GetRewaFeeFromGasLimit

------------------------------------------------------------------------------
(* What each step adds to the transactions sent.                           *)

(* A transaction as one of the two builders makes it.                      *)
Built(tx) ==
  /\ tx \in Transaction /\ tx.value \in {0, IssueCost}
  /\ tx.estimated => CheckGasCost(tx.gas, tx.value)
  /\ ~tx.estimated => tx.gas = GetGasLimitFromRewaFee(balance, length)

(* ... and its gas, when it is estimated with retry n.                     *)
EstimatedAt(tx, n) == tx.estimated => tx.gas = GetTransactionGas(tx.units, n)

Parameters == /\ balance \in Int /\ length \in Nat
              /\ sent \in Seq(Transaction)

LEMMA ParametersTyped == TypeOK => Parameters
  BY AmountType, InputType DEF TypeOK, Parameters

LEMMA GasType ==
  ASSUME NEW units \in Nat, NEW n \in Nat
  PROVE  GetTransactionGas(units, n) \in Int
<1>1. units * (11 + 2 * n) + 9 \in Int
  OBVIOUS
<1>2. QED
  BY <1>1, DivBounds DEF GetTransactionGas

LEMMA ValueType ==
  ASSUME NEW v \in Values
  PROVE  v \in Nat /\ v \in {0, IssueCost}
  BY AmountType DEF Values

LEMMA EstimatedBuilt ==
  ASSUME TypeOK, NEW x \in ExtraUnits, NEW v \in Values,
         CheckGasCost(Estimated(DataGas(length) + x, v).gas, v)
  PROVE  /\ Built(Estimated(DataGas(length) + x, v))
         /\ EstimatedAt(Estimated(DataGas(length) + x, v), retry)
<1>1. DataGas(length) + x \in Nat /\ v \in Nat /\ v \in {0, IssueCost} /\ retry \in Nat
  <2>1. DataGas(length) \in Nat
    BY ParametersTyped, DataGasType DEF Parameters
  <2>2. x \in Nat /\ v \in Nat /\ v \in {0, IssueCost} /\ retry \in Nat
    BY InputType, ValueType DEF TypeOK, MaxRetries
  <2>3. QED
    BY <2>1, <2>2
<1>2. GetTransactionGas(DataGas(length) + x, retry) \in Int
  BY <1>1, GasType
<1>3. QED
  BY <1>1, <1>2 DEF Estimated, Built, EstimatedAt, Transaction

LEMMA LimitedBuilt ==
  ASSUME TypeOK, NEW v \in Values, NEW tx, tx = WithFullGas(v)
  PROVE  Built(tx) /\ EstimatedAt(tx, retry)
<1>1. GetGasLimitFromRewaFee(balance, length) \in Int
  BY ParametersTyped, LimitType2 DEF Parameters
<1>2. QED
  BY <1>1, ValueType DEF WithFullGas, Built, EstimatedAt, Transaction

(* The three ways a step deals with the transactions. It may send none,    *)
(* and then takes no retry back below what it was before the build; send   *)
(* one, built for this row at this retry, that is counted or whose loss is *)
(* a fault; or begin a new delivery.                                       *)
SendsNone ==
  /\ UNCHANGED sent
  /\ retry' \in 0 .. MaxRetries /\ retry <= retry'
  /\ faults' \in {faults, faults + 1}

SendsOne(tx) ==
  /\ Built(tx) /\ EstimatedAt(tx, retry)
  /\ sent' = Append(sent, tx)
  /\ \/ retry' \in 0 .. MaxRetries /\ retry < retry' /\ faults' = faults
     \/ ~tx.counted /\ retry' = retry /\ faults' = faults + 1

Sends ==
  /\ UNCHANGED parameters /\ intake' \in Nat
  /\ \/ SendsNone
     \/ \E tx : SendsOne(tx)
     \/ sent' = <<>> /\ retry' = 0 /\ UNCHANGED faults

(* Whether a transaction is counted matters for neither.                   *)
LEMMA CountedBuilt ==
  ASSUME NEW tx, Built(tx), EstimatedAt(tx, retry), NEW b \in BOOLEAN,
         NEW ty, ty = [tx EXCEPT !.counted = b]
  PROVE  Built(ty) /\ EstimatedAt(ty, retry) /\ ty.counted = b
<1>1. tx \in Transaction
  BY DEF Built
<1>2. /\ ty \in Transaction /\ ty.counted = b /\ ty.gas = tx.gas /\ ty.value = tx.value
      /\ ty.estimated = tx.estimated /\ ty.units = tx.units
  BY <1>1 DEF Transaction
<1>3. QED
  BY <1>2 DEF Built, EstimatedAt

LEMMA SubmitSends ==
  ASSUME TypeOK, Turn, NEW tx, Built(tx), EstimatedAt(tx, retry),
         NEW n \in {retry + 1, MaxRetries},
         Submit(tx, n) \/ SubmitRefused(n) \/ SubmitLost(tx)
  PROVE  Sends /\ UNCHANGED status
<1>1. n \in 1 .. MaxRetries /\ retry < n /\ retry \in 0 .. MaxRetries /\ intake \in Nat
  BY DEF TypeOK, Turn, MaxRetries
<1>2. CASE Submit(tx, n) /\ Accepted(tx)
  <2>1. PICK ty : ty = [tx EXCEPT !.counted = TRUE]
    OBVIOUS
  <2>2. Built(ty) /\ EstimatedAt(ty, retry)
    BY <2>1, CountedBuilt
  <2>3. SendsOne(ty)
    BY <1>1, <1>2, <2>1, <2>2 DEF Submit, Sent, SendsOne, MaxRetries
  <2>4. QED
    BY <1>1, <1>2, <2>3 DEF Submit, Sends
<1>3. CASE Submit(tx, n) /\ ~Accepted(tx)
  BY <1>1, <1>3 DEF Submit, Sends, SendsNone, Unsent, MaxRetries
<1>4. CASE SubmitRefused(n)
  BY <1>1, <1>4 DEF SubmitRefused, Fault, Sends, SendsNone, Unsent, MaxRetries
<1>5. CASE SubmitLost(tx) /\ UNCHANGED sent
  BY <1>1, <1>5 DEF SubmitLost, Fault, Sends, SendsNone, MaxRetries
<1>6. CASE SubmitLost(tx) /\ Sent(tx, FALSE)
  <2>1. PICK ty : ty = [tx EXCEPT !.counted = FALSE]
    OBVIOUS
  <2>2. Built(ty) /\ EstimatedAt(ty, retry) /\ ~ty.counted
    BY <2>1, CountedBuilt
  <2>3. SendsOne(ty)
    BY <1>6, <2>1, <2>2 DEF SubmitLost, Fault, Sent, SendsOne
  <2>4. QED
    BY <1>1, <1>6, <2>3 DEF SubmitLost, Sends
<1>7. QED
  BY <1>2, <1>3, <1>4, <1>5, <1>6 DEF SubmitLost

LEMMA EveryStepSends ==
  ASSUME TypeOK, [Next]_vars
  PROVE  Sends /\ status' \in {"PENDING", "SUCCESS", "FAILED"}
<1>1. ASSUME ExecuteEstimated PROVE Sends /\ UNCHANGED status
  <2>1. PICK x \in ExtraUnits, v \in Values :
          /\ CheckGasCost(Estimated(DataGas(length) + x, v).gas, v)
          /\ \/ Submit(Estimated(DataGas(length) + x, v), retry + 1)
             \/ SubmitRefused(retry + 1)
             \/ SubmitLost(Estimated(DataGas(length) + x, v))
    BY <1>1 DEF ExecuteEstimated
  <2>2. Turn
    BY <1>1 DEF ExecuteEstimated
  <2>3. QED
    BY <2>1, <2>2, EstimatedBuilt, SubmitSends
<1>2. ASSUME GasError PROVE Sends /\ UNCHANGED status
  <2>1. PICK v \in Values :
          \/ Submit(WithFullGas(v), MaxRetries)
          \/ SubmitRefused(MaxRetries)
          \/ SubmitLost(WithFullGas(v))
    BY <1>2 DEF GasError
  <2>2. Turn
    BY <1>2 DEF GasError
  <2>3. QED
    BY <2>1, <2>2, LimitedBuilt, SubmitSends
<1>3. CASE NotEnoughGas
  BY <1>3 DEF NotEnoughGas, Sends, SendsNone, TypeOK, MaxRetries
<1>4. CASE GiveUp
  BY <1>4 DEF GiveUp, Sends, SendsNone, TypeOK, MaxRetries
<1>5. CASE Execute
  BY <1>5 DEF Execute, Sends, SendsNone, TypeOK, MaxRetries
<1>6. CASE ExecuteTask
  BY <1>6 DEF ExecuteTask, Sends, TypeOK
<1>7. CASE UNCHANGED vars
  BY <1>7 DEF vars, Sends, SendsNone, TypeOK, MaxRetries
<1>8. QED
  BY <1>1, <1>2, <1>3, <1>4, <1>5, <1>6, <1>7 DEF Next, Cron, TypeOK

LEMMA TypeStep ==
  ASSUME TypeOK, [Next]_vars
  PROVE  TypeOK'
<1>1. Sends /\ status' \in {"PENDING", "SUCCESS", "FAILED"}
  BY EveryStepSends
<1>2. CASE SendsNone
  BY <1>1, <1>2 DEF TypeOK, Sends, SendsNone, MaxRetries, parameters
<1>3. CASE \E tx : SendsOne(tx)
  BY <1>1, <1>3 DEF TypeOK, Sends, SendsOne, Built, MaxRetries, parameters
<1>4. CASE sent' = <<>> /\ retry' = 0 /\ UNCHANGED faults
  BY <1>1, <1>4 DEF TypeOK, Sends, MaxRetries, parameters
<1>5. QED
  BY <1>1, <1>2, <1>3, <1>4 DEF Sends

(* Every variable keeps its type, a refused transaction included, and each *)
(* transaction of a delivery the network has took one of its retries or    *)
(* was sent by a turn that failed.                                         *)
THEOREM TypeCorrect == Spec => []TypeOK
<1>1. Init => TypeOK
  BY DEF Init, TypeOK, MaxRetries
<1>2. TypeOK /\ [Next]_vars => TypeOK'
  BY TypeStep
<1>3. QED
  BY <1>1, <1>2, PTL DEF Spec

------------------------------------------------------------------------------
(* Fees                                                                    *)

SentInv == \A i \in 1 .. Len(sent) : Built(sent[i])

LEMMA SentStep ==
  ASSUME TypeOK, SentInv, [Next]_vars
  PROVE  SentInv'
<1>1. Sends
  BY EveryStepSends
<1>2. \A tx : Built(tx) => Built(tx)'
  BY <1>1 DEF Sends, Built, CheckGasCost, parameters
<1>3. SUFFICES ASSUME NEW i \in 1 .. Len(sent') PROVE Built(sent'[i])
  BY <1>1 DEF SentInv, Sends, Built, CheckGasCost, parameters
<1>4. CASE UNCHANGED sent \/ sent' = <<>>
  BY <1>4 DEF SentInv
<1>5. ASSUME NEW tx, Built(tx), sent' = Append(sent, tx) PROVE Built(sent'[i])
  <2>1. CASE i = Len(sent) + 1
    BY <1>5, <2>1 DEF TypeOK, Built
  <2>2. CASE i # Len(sent) + 1
    BY <1>5, <2>2 DEF TypeOK, Built, SentInv
  <2>3. QED
    BY <2>1, <2>2
<1>6. QED
  BY <1>1, <1>4, <1>5 DEF Sends, SendsNone, SendsOne

LEMMA SentCorrect == Spec => [](TypeOK /\ SentInv)
<1>1. Init => SentInv
  BY DEF Init, SentInv
<1>2. TypeOK /\ SentInv /\ [Next]_vars => SentInv'
  BY SentStep
<1>3. QED
  BY <1>1, <1>2, TypeCorrect, PTL DEF Spec

(* For every price, limit, balance and estimate: with the check enabled an *)
(* estimated transaction costs at most the message's balance, and one      *)
(* whose estimate failed at most that and the issue cost, provided the     *)
(* balance carries the data; see FeesAreCovered.                           *)
THEOREM FeesCovered == Spec => []FeesAreCovered
<1>1. ASSUME TypeOK, SentInv PROVE FeesAreCovered
  <2>1. SUFFICES ASSUME enabled, NEW i \in 1 .. Len(sent)
        PROVE LET fee == GetRewaFeeFromGasLimit(sent[i].gas, length)
              IN  IF sent[i].estimated
                  THEN fee + sent[i].value <= balance
                  ELSE CoversData =>
                         fee <= balance /\ fee + sent[i].value <= balance + IssueCost
    BY DEF FeesAreCovered
  <2>2. Built(sent[i])
    BY <1>1 DEF SentInv
  <2>3. CASE sent[i].estimated
    BY <2>1, <2>2, <2>3 DEF Built, CheckGasCost
  <2>4. CASE ~sent[i].estimated
    <3>1. SUFFICES ASSUME CoversData
          PROVE LET fee == GetRewaFeeFromGasLimit(sent[i].gas, length)
                IN  fee <= balance /\ fee + sent[i].value <= balance + IssueCost
      BY <2>4
    <3>2. /\ balance \in Int /\ length \in Nat /\ sent[i].gas \in Int
          /\ sent[i].value \in Nat /\ sent[i].value <= IssueCost /\ IssueCost \in Nat
      BY <1>1, <2>2, ParametersTyped, AmountType DEF Built, Transaction, Parameters
    <3>3. GetRewaFeeFromGasLimit(sent[i].gas, length) <= balance
      BY <2>2, <2>4, <3>1, <3>2, LimitIsWorthTheBalance DEF Built, CoversData
    <3>4. GetRewaFeeFromGasLimit(sent[i].gas, length) \in Int
      BY <3>2, FeeType
    <3>5. QED
      BY <3>2, <3>3, <3>4
  <2>5. QED
    BY <2>3, <2>4
<1>2. QED
  BY <1>1, SentCorrect, PTL

(* For every price, limit and balance: one unit more than the limit that   *)
(* replaces a failed estimate costs all of the balance at least, and two   *)
(* cost more than it unless the price is below the modifier; see           *)
(* FullGasIsUsed.                                                          *)
THEOREM FullGasUsed == Spec => []FullGasIsUsed
<1>1. ASSUME TypeOK, SentInv PROVE FullGasIsUsed
  <2>1. SUFFICES ASSUME NEW i \in 1 .. Len(sent), ~sent[i].estimated
        PROVE \/ sent[i].gas = MaxGasLimit
              \/ /\ GetRewaFeeFromGasLimit(sent[i].gas + 1, length) >= balance
                 /\ MinGasPrice >= GasPriceModifierInverted =>
                      GetRewaFeeFromGasLimit(sent[i].gas + 2, length) > balance
    BY DEF FullGasIsUsed
  <2>2. sent[i].gas = GetGasLimitFromRewaFee(balance, length)
    BY <1>1, <2>1 DEF SentInv, Built
  <2>3. balance \in Int /\ length \in Nat
    BY <1>1, ParametersTyped DEF Parameters
  <2>4. CASE CoversData
    BY <2>2, <2>3, <2>4, LimitIsWorthTheBalance DEF CoversData
  <2>5. CASE ~CoversData
    BY <2>2, <2>3, <2>5, PoorBalance DEF CoversData
  <2>6. QED
    BY <2>4, <2>5
<1>2. QED
  BY <1>1, SentCorrect, PTL

------------------------------------------------------------------------------
(* Retries                                                                 *)

(* A later retry gets at least the gas of an earlier one, and more of it   *)
(* from 5 units on.                                                        *)
LEMMA MoreGas ==
  ASSUME NEW units \in Nat, NEW n \in Nat, NEW k \in Nat, n < k
  PROVE  /\ GetTransactionGas(units, n) <= GetTransactionGas(units, k)
         /\ units >= 5 => GetTransactionGas(units, n) < GetTransactionGas(units, k)
<1> DEFINE a == units * (11 + 2 * n) + 9
           b == units * (11 + 2 * k) + 9
<1>1. a \in Nat /\ b \in Nat
  OBVIOUS
<1>2. b >= a + 2 * units
  <2>1. PICK d \in Nat \ {0} : k = n + d
    <3>1. k - n \in Nat \ {0} /\ k = n + (k - n)
      OBVIOUS
    <3>2. QED
      BY <3>1
  <2>2. b = a + 2 * (units * d)
    BY <2>1
  <2>3. units * d >= units
    BY <2>1
  <2>4. units * d \in Nat
    BY <2>1
  <2>5. QED
    BY <2>2, <2>3, <2>4, <1>1
<1>3. a \div 10 <= b \div 10 /\ (units >= 5 => a \div 10 < b \div 10)
  <2> HIDE DEF a, b
  <2>1. QED
    BY <1>1, <1>2
<1>4. QED
  BY <1>3 DEF GetTransactionGas

(* Every estimated transaction was built at the retry the row has or, when *)
(* it is counted, at an earlier one.                                       *)
BuiltEarlier(tx, r) ==
  \E n \in 0 .. MaxRetries : /\ n <= r /\ (tx.counted => n < r)
                             /\ EstimatedAt(tx, n)

RetryInv ==
  /\ \A i \in 1 .. Len(sent) : BuiltEarlier(sent[i], retry)
  /\ RetriesGetMoreGas

LEMMA RetryStep ==
  ASSUME TypeOK, RetryInv, [Next]_vars
  PROVE  RetryInv'
<1>1. Sends
  BY EveryStepSends
<1>2. retry \in 0 .. MaxRetries /\ Len(sent) \in Nat
  BY DEF TypeOK
<1>3. CASE SendsNone
  <2>1. \A i \in 1 .. Len(sent') : BuiltEarlier(sent'[i], retry')
    BY <1>2, <1>3 DEF SendsNone, RetryInv, BuiltEarlier, MaxRetries
  <2>2. RetriesGetMoreGas'
    BY <1>3 DEF SendsNone, RetryInv, RetriesGetMoreGas
  <2>3. QED
    BY <2>1, <2>2 DEF RetryInv, BuiltEarlier, EstimatedAt
<1>4. ASSUME NEW tx, SendsOne(tx) PROVE RetryInv'
  <2>1. /\ Len(sent') = Len(sent) + 1
        /\ sent'[Len(sent) + 1] = tx
        /\ \A i \in 1 .. Len(sent) : sent'[i] = sent[i] /\ sent[i] \in Transaction
        /\ tx \in Transaction /\ EstimatedAt(tx, retry)
        /\ retry' \in 0 .. MaxRetries /\ retry <= retry' /\ (tx.counted => retry < retry')
    BY <1>2, <1>4 DEF TypeOK, Built, SendsOne, MaxRetries
  <2>2. \A i \in 1 .. Len(sent') : BuiltEarlier(sent'[i], retry')
    <3>1. BuiltEarlier(tx, retry')
      BY <1>2, <2>1 DEF BuiltEarlier
    <3>2. \A i \in 1 .. Len(sent) : BuiltEarlier(sent[i], retry')
      BY <1>2, <2>1 DEF RetryInv, BuiltEarlier, MaxRetries
    <3>3. QED
      BY <1>2, <2>1, <3>1, <3>2
  <2>3. ASSUME NEW i \in 1 .. Len(sent), sent[i].estimated, tx.estimated,
               sent[i].units = tx.units
        PROVE  /\ sent[i].gas <= tx.gas
               /\ sent[i].counted /\ sent[i].units >= 5 => sent[i].gas < tx.gas
    <3>1. PICK n \in 0 .. MaxRetries : /\ n <= retry /\ (sent[i].counted => n < retry)
                                       /\ EstimatedAt(sent[i], n)
      BY DEF RetryInv, BuiltEarlier
    <3>2. n \in Nat /\ retry \in Nat /\ tx.units \in Nat /\ tx.gas \in Int
      BY <1>2, <2>1 DEF Transaction, MaxRetries
    <3>3. sent[i].gas = GetTransactionGas(tx.units, n) /\ tx.gas = GetTransactionGas(tx.units, retry)
      BY <2>1, <2>3, <3>1 DEF EstimatedAt
    <3>4. CASE n = retry
      BY <3>1, <3>2, <3>3, <3>4
    <3>5. CASE n < retry
      <4>1. /\ GetTransactionGas(tx.units, n) <= GetTransactionGas(tx.units, retry)
            /\ tx.units >= 5 =>
                 GetTransactionGas(tx.units, n) < GetTransactionGas(tx.units, retry)
        BY <3>2, <3>5, MoreGas
      <4>2. QED
        BY <2>3, <3>3, <4>1
    <3>6. QED
      BY <3>1, <3>2, <3>4, <3>5
  <2>4. RetriesGetMoreGas'
    <3>1. SUFFICES ASSUME NEW i \in 1 .. Len(sent'), NEW j \in 1 .. Len(sent'),
                          i < j, sent'[i].estimated, sent'[j].estimated,
                          sent'[i].units = sent'[j].units
                   PROVE  /\ sent'[i].gas <= sent'[j].gas
                          /\ sent'[i].counted /\ sent'[i].units >= 5
                               => sent'[i].gas < sent'[j].gas
      BY DEF RetriesGetMoreGas
    <3>2. i \in 1 .. Len(sent)
      BY <1>2, <2>1, <3>1
    <3>3. CASE j = Len(sent) + 1
      BY <2>1, <2>3, <3>1, <3>2, <3>3
    <3>4. CASE j # Len(sent) + 1
      <4>1. j \in 1 .. Len(sent)
        BY <1>2, <2>1, <3>4
      <4>2. sent'[i] = sent[i] /\ sent'[j] = sent[j]
        BY <2>1, <3>2, <4>1
      <4>3. QED
        BY <3>1, <3>2, <4>1, <4>2 DEF RetryInv, RetriesGetMoreGas
    <3>5. QED
      BY <3>3, <3>4
  <2>5. QED
    BY <2>2, <2>4 DEF RetryInv, BuiltEarlier, EstimatedAt
<1>5. CASE sent' = <<>>
  BY <1>5 DEF RetryInv, RetriesGetMoreGas
<1>6. QED
  BY <1>1, <1>3, <1>4, <1>5 DEF Sends

(* For every estimate and price: within a delivery a later transaction of  *)
(* the message gets more gas for the same estimate than one whose retry    *)
(* was saved, and never less than any; see RetriesGetMoreGas.              *)
THEOREM RetriesGetMore == Spec => []RetriesGetMoreGas
<1>1. Init => RetryInv
  BY DEF Init, RetryInv, RetriesGetMoreGas
<1>2. TypeOK /\ RetryInv /\ [Next]_vars => RetryInv'
  BY RetryStep
<1>3. RetryInv => RetriesGetMoreGas
  BY DEF RetryInv
<1>4. QED
  BY <1>1, <1>2, <1>3, TypeCorrect, PTL DEF Spec
================================================================================
