-------------------------------- MODULE GasFunds --------------------------------
(***************************************************************************)
(* The money of the gas service contract: fees are paid in, the gas        *)
(* checker collects them into the wallet every hour and unwraps WREWA      *)
(* there (GasCheckerService), and refunds of tasks are paid out of it      *)
(* (processRefundTask).                                                    *)
(*                                                                         *)
(* The gas checker and the refunds run in different processes and sign     *)
(* for the same wallet. Each reads a balance, then the nonce, then sends:  *)
(* all that is in flight at a time has the nonce the wallet has on chain,  *)
(* and is dropped when another transaction with it is executed.            *)
(***************************************************************************)
EXTENDS Integers, Sequences

CONSTANTS
  CollectThreshold, \* REWA_COLLECT_THRESHOLD, 0.3 in the code
  RefundReserve,    \* REWA_REFUND_RESERVE, 0.1
  ConvertThreshold, \* WREWA_CONVERT_THRESHOLD, 0.2
  RefundTasks,      \* the refunds GMP asks for, in this order: token and amount
  MaxPaid,          \* bound: of the fees paid in, per token
  MaxFaults         \* bound: of calls that fail, and of the transactions of others

Tokens == {"REWA", "WREWA"}

ASSUME ThresholdsType ==
  /\ CollectThreshold \in Nat /\ RefundReserve \in Nat /\ ConvertThreshold \in Nat \ {0}
  /\ RefundReserve < CollectThreshold
ASSUME RefundsType == RefundTasks \in Seq([token : Tokens, amount : Nat])
ASSUME BoundsType == MaxPaid \in Nat /\ MaxFaults \in Nat

VARIABLES
  gasService, \* balances of the contract
  wallet,     \* balances of the wallet, of what it is paid here
  paid,       \* fees paid in so far
  collector,  \* whether the contract lets this wallet collect
  pool,       \* transactions in flight
  hold,       \* per sender, the transaction it is about to send
  pc,         \* where checkGasServiceAndWalletRaw is
  sent,       \* the transaction the gas checker waits for
  done,       \* refund tasks saved so far
  faults      \* faults so far

money   == <<gasService, wallet>>
checker == <<pc, sent>>
vars    == <<money, paid, collector, pool, hold, checker, done, faults>>

Senders == {"gasChecker", "newTasks"}

(* since: what was executed between the reading of the balance and of the  *)
(* nonce. nonce: not yet read, still that of the chain, or used.           *)
Tx   == [kind : {"collect", "unwrap", "refund"}, amounts : [Tokens -> Nat],
         since : SUBSET {"collect", "late collect", "unwrap", "refund"}]
Held == [tx : Tx, nonce : {"unread", "current", "used"}]

Nothing == [t \in Tokens |-> 0]

Init ==
  /\ gasService = Nothing /\ paid = Nothing
  /\ wallet \in {Nothing, [Nothing EXCEPT !["WREWA"] = ConvertThreshold]}
  /\ collector \in BOOLEAN
  /\ pool = {} /\ hold = [s \in Senders |-> {}]
  /\ pc = "idle" /\ sent = {}
  /\ done = 0 /\ faults = 0

Fault == faults < MaxFaults /\ faults' = faults + 1

------------------------------------------------------------------------------
(* What both senders do with a transaction.                                *)

Builds(s, kind, amounts) ==
  hold' = [hold EXCEPT ![s] =
             {[tx |-> [kind |-> kind, amounts |-> amounts, since |-> {}], nonce |-> "unread"]}]

(* getAccountNonce of signAndSendTransactionAndGetNonce.                   *)
ReadsNonce(s) ==
  /\ \E h \in hold[s] : /\ h.nonce = "unread"
                        /\ hold' = [hold EXCEPT ![s] = {[h EXCEPT !.nonce = "current"]}]
  /\ UNCHANGED <<money, paid, collector, pool, checker, done, faults>>

Sends(s, tx) ==
  /\ [tx |-> tx, nonce |-> "current"] \in hold[s]
  /\ pool' = pool \cup {tx}
  /\ hold' = [hold EXCEPT ![s] = {}]

(* The nonce cannot be read, is used by now, or the answer is lost.        *)
Throws(s) ==
  /\ \E h \in hold[s] : \/ h.nonce = "used" /\ UNCHANGED <<pool, faults>>
                        \/ h.nonce # "used" /\ Fault /\ UNCHANGED pool
                        \/ h.nonce = "current" /\ Fault /\ pool' = pool \cup {h.tx}
  /\ hold' = [hold EXCEPT ![s] = {}]

------------------------------------------------------------------------------
(* GasCheckerService                                                       *)

(* Variant: a balance at the threshold is not collected.                   *)
ToCollectAbove(balances) ==
  [t \in Tokens |-> IF balances[t] > CollectThreshold THEN balances[t] - RefundReserve ELSE 0]

(* Variant: nothing is left for refunds.                                   *)
ToCollectAll(balances) ==
  [t \in Tokens |-> IF balances[t] >= CollectThreshold THEN balances[t] ELSE 0]

(* Variant: the two constants are confused.                                *)
ToCollectSwapped(balances) ==
  [t \in Tokens |-> IF balances[t] >= RefundReserve THEN balances[t] - CollectThreshold ELSE 0]

(* "Leave some tokens in the contract in case of refunds"                  *)
ToCollect(balances) ==
  [t \in Tokens |-> IF balances[t] >= CollectThreshold THEN balances[t] - RefundReserve ELSE 0]

(* getAccountRewaAndWrewa: a WREWA balance that cannot be read is taken to *)
(* be 0. The two are read in one step, each of them is used on its own.    *)
Balances(account) == {account, [account EXCEPT !["WREWA"] = 0]}

(* The balances are read, and collectFees is built for those to collect.   *)
CheckGasServiceFees ==
  /\ pc = "idle"
  /\ \E balances \in Balances(gasService) :
       /\ IF balances = gasService THEN UNCHANGED faults ELSE Fault
       /\ IF ToCollect(balances) = Nothing
          THEN pc' = "wallet" /\ UNCHANGED hold
          ELSE pc' = "collect" /\ Builds("gasChecker", "collect", ToCollect(balances))
  /\ UNCHANGED <<money, paid, collector, pool, sent, done>>

CollectSends ==
  /\ pc = "collect" /\ pc' = "awaitCollect"
  /\ \E h \in hold["gasChecker"] : Sends("gasChecker", h.tx) /\ sent' = {h.tx}
  /\ UNCHANGED <<money, paid, collector, done, faults>>

(* Variant: an error of the first half leaves the function.                *)
AfterFeesErrorOut == "idle"

(* An error while the fees are collected is caught: the wallet is next.    *)
AfterFeesError == "wallet"

CollectThrows ==
  /\ pc = "collect" /\ pc' = AfterFeesError
  /\ Throws("gasChecker")
  /\ UNCHANGED <<money, paid, collector, sent, done>>

(* The network is asked for the balances of the contract, without success. *)
FeesUnread ==
  /\ pc = "idle" /\ pc' = AfterFeesError
  /\ Fault
  /\ UNCHANGED <<money, paid, collector, pool, hold, sent, done>>

(* awaitSuccess: the transaction was executed, or replaced by another one  *)
(* with its nonce; the watcher gives up on one in flight only by a fault.  *)
Awaited ==
  /\ IF sent \subseteq pool THEN Fault ELSE UNCHANGED faults
  /\ sent' = {}
  /\ UNCHANGED <<money, paid, collector, pool, hold, done>>

AwaitCollect == pc = "awaitCollect" /\ pc' \in {"wallet", AfterFeesError} /\ Awaited

(* The balances of the wallet are read.                                    *)
CheckWalletTokens ==
  /\ pc = "wallet"
  /\ \E balances \in Balances(wallet) :
       /\ IF balances = wallet THEN UNCHANGED faults ELSE Fault
       /\ IF balances["WREWA"] >= ConvertThreshold
          THEN /\ pc' = "unwrap"
               /\ Builds("gasChecker", "unwrap", [wallet EXCEPT !["REWA"] = 0])
          ELSE pc' = "idle" /\ UNCHANGED hold
  /\ UNCHANGED <<money, paid, collector, pool, sent, done>>

WalletUnread ==
  /\ pc = "wallet" /\ pc' = "idle"
  /\ Fault
  /\ UNCHANGED <<money, paid, collector, pool, hold, sent, done>>

UnwrapSends ==
  /\ pc = "unwrap" /\ pc' = "awaitUnwrap"
  /\ \E h \in hold["gasChecker"] : Sends("gasChecker", h.tx) /\ sent' = {h.tx}
  /\ UNCHANGED <<money, paid, collector, done, faults>>

UnwrapThrows ==
  /\ pc = "unwrap" /\ pc' = "idle"
  /\ Throws("gasChecker")
  /\ UNCHANGED <<money, paid, collector, sent, done>>

AwaitUnwrap == pc = "awaitUnwrap" /\ pc' = "idle" /\ Awaited

(* The process stops and starts again; what it sent stays in flight.       *)
Restart ==
  /\ pc # "idle" /\ pc' = "idle"
  /\ Fault
  /\ hold' = [hold EXCEPT !["gasChecker"] = {}] /\ sent' = {}
  /\ UNCHANGED <<money, paid, collector, pool, done>>

------------------------------------------------------------------------------
(* processRefundTask                                                       *)

Refund == RefundTasks[done + 1]

(* Variant: the balance is not compared.                                   *)
SufficientUnchecked(balance, amount) == balance > 0

Sufficient(balance, amount) == balance >= amount

RefundBuilds ==
  /\ done < Len(RefundTasks) /\ hold["newTasks"] = {}
  /\ Sufficient(gasService[Refund.token], Refund.amount)
  /\ Builds("newTasks", "refund", [Nothing EXCEPT ![Refund.token] = Refund.amount])
  /\ UNCHANGED <<money, paid, collector, pool, checker, done, faults>>

(* The balance is too low or cannot be read: the task counts as done.      *)
RefundReturns ==
  /\ done < Len(RefundTasks) /\ hold["newTasks"] = {}
  /\ IF Sufficient(gasService[Refund.token], Refund.amount) THEN Fault ELSE UNCHANGED faults
  /\ done' = done + 1
  /\ UNCHANGED <<money, paid, collector, pool, hold, checker>>

(* Nobody follows the transaction from here on.                            *)
RefundSends ==
  /\ \E h \in hold["newTasks"] : Sends("newTasks", h.tx)
  /\ done' = done + 1
  /\ UNCHANGED <<money, paid, collector, checker, faults>>

(* The task comes again.                                                   *)
RefundThrows ==
  /\ Throws("newTasks")
  /\ UNCHANGED <<money, paid, collector, checker, done>>

------------------------------------------------------------------------------
(* The network, the contracts and the other senders of the wallet.         *)

PayGas ==
  /\ \E t \in Tokens : /\ paid[t] < MaxPaid
                       /\ paid' = [paid EXCEPT ![t] = @ + 1]
                       /\ gasService' = [gasService EXCEPT ![t] = @ + 1]
  /\ UNCHANGED <<wallet, collector, pool, hold, checker, done, faults>>

(* The nonce is used: what else is in flight with it is dropped.           *)
NonceUsed(kinds) ==
  /\ pool' = {}
  /\ hold' = [s \in Senders |->
       {IF h.nonce = "unread" THEN [h EXCEPT !.tx.since = @ \cup kinds]
        ELSE [h EXCEPT !.nonce = "used"] : h \in hold[s]}]

Minus(balances, amounts) == [t \in Tokens |-> balances[t] - amounts[t]]
Plus(balances, amounts)  == [t \in Tokens |-> balances[t] + amounts[t]]

Covers(balances, tx) == \A t \in Tokens : tx.amounts[t] <= balances[t]

(* What collectFees pays: all it is asked for, nothing, or, when that is   *)
(* too much of one token, perhaps the other.                               *)
Collected(tx) ==
  IF ~collector THEN {Nothing}
  ELSE IF Covers(gasService, tx) THEN {tx.amounts}
  ELSE {Nothing, [t \in Tokens |-> IF tx.amounts[t] <= gasService[t] THEN tx.amounts[t] ELSE 0]}

CollectExecuted(tx) ==
  /\ tx.kind = "collect"
  /\ \E amounts \in Collected(tx) : /\ gasService' = Minus(gasService, amounts)
                                    /\ wallet' = Plus(wallet, amounts)
  /\ NonceUsed(IF tx.since = {} THEN {"collect"} ELSE {"late collect"})

UnwrapExecuted(tx) ==
  /\ tx.kind = "unwrap"
  /\ wallet' = IF Covers(wallet, tx)
               THEN [wallet EXCEPT !["WREWA"] = @ - tx.amounts["WREWA"],
                                   !["REWA"] = @ + tx.amounts["WREWA"]]
               ELSE wallet
  /\ NonceUsed({"unwrap"})
  /\ UNCHANGED gasService

RefundExecuted(tx) ==
  /\ tx.kind = "refund"
  /\ gasService' = IF Covers(gasService, tx) THEN Minus(gasService, tx.amounts) ELSE gasService
  /\ NonceUsed({"refund"})
  /\ UNCHANGED wallet

Execute ==
  /\ \E tx \in pool : CollectExecuted(tx) \/ UnwrapExecuted(tx) \/ RefundExecuted(tx)
  /\ UNCHANGED <<paid, collector, checker, done, faults>>

(* A gateway transaction, or an execution, with the same nonce comes first.*)
OtherExecuted ==
  /\ Fault /\ NonceUsed({})
  /\ UNCHANGED <<money, paid, collector, checker, done>>

------------------------------------------------------------------------------
CheckGasServiceAndWallet ==
  \/ CheckGasServiceFees \/ FeesUnread \/ CollectSends \/ CollectThrows \/ AwaitCollect
  \/ CheckWalletTokens \/ WalletUnread \/ UnwrapSends \/ UnwrapThrows \/ AwaitUnwrap
  \/ ReadsNonce("gasChecker")

ProcessRefundTask ==
  RefundBuilds \/ RefundReturns \/ RefundSends \/ RefundThrows \/ ReadsNonce("newTasks")

Next == CheckGasServiceAndWallet \/ Restart \/ ProcessRefundTask \/ PayGas \/ Execute \/ OtherExecuted

(* The cron comes every hour, and what is in flight is executed. Nothing   *)
(* makes users pay or faults happen.                                       *)
Spec     == Init /\ [][Next]_vars
FairSpec == Spec /\ WF_vars(CheckGasServiceAndWallet) /\ WF_vars(Execute)

------------------------------------------------------------------------------
TypeOK ==
  /\ gasService \in [Tokens -> Nat] /\ wallet \in [Tokens -> Nat] /\ paid \in [Tokens -> Nat]
  /\ collector \in BOOLEAN
  /\ pool \cup sent \subseteq Tx
  /\ hold \in [Senders -> SUBSET Held]
  /\ pc \in {"idle", "collect", "awaitCollect", "wallet", "unwrap", "awaitUnwrap"}
  /\ done \in 0 .. Len(RefundTasks) /\ faults \in Nat

Payer(tx) == IF tx.kind = "unwrap" THEN wallet ELSE gasService

(* A balance that was read covers the transaction built from it until it   *)
(* is executed, although others pay from the same balance: only those that *)
(* were executed before its nonce was read can have used it up.            *)
CoveredUnlessLate == \A tx \in pool : tx.since = {} => Covers(Payer(tx), tx)

(* "Leave some tokens in the contract in case of refunds": collecting the  *)
(* fees between the check of a refund and its transaction does not take    *)
(* what the reserve can pay. (A collection that was itself late can, and   *)
(* so can another refund.)                                                 *)
ReserveServesRefunds ==
  \A tx \in pool : /\ tx.kind = "refund" /\ tx.since \subseteq {"collect", "unwrap"}
                   /\ \A t \in Tokens : tx.amounts[t] <= RefundReserve
                   => Covers(gasService, tx)

(* Fees at the threshold are collected, in whatever token, when the wallet *)
(* may do so at all.                                                       *)
FeesAreCollected ==
  \A t \in Tokens : collector /\ gasService[t] >= CollectThreshold
                      ~> gasService[t] < CollectThreshold

(* WREWA of the wallet is unwrapped, whether or not collecting succeeds.   *)
WrewaIsUnwrapped == wallet["WREWA"] >= ConvertThreshold ~> wallet["WREWA"] < ConvertThreshold
================================================================================
