----------------------------- MODULE GasFunds_proofs -----------------------------
(***************************************************************************)
(* What the gas service can pay, for any thresholds, any refunds and any   *)
(* fees.                                                                   *)
(***************************************************************************)
EXTENDS GasFunds, SequenceTheorems, TLAPS

USE DEF money, checker

(* What is true of a transaction from the reading of the balance it is     *)
(* built from until its nonce is used.                                     *)
OnTime(tx) ==
  /\ tx.since = {} => Covers(Payer(tx), tx)
  /\ tx.kind = "collect" /\ tx.since = {} =>
       \A t \in Tokens : tx.amounts[t] = 0 \/ tx.amounts[t] + RefundReserve <= gasService[t]
  /\ /\ tx.kind = "refund" /\ tx.since \subseteq {"collect", "unwrap"}
     /\ \A t \in Tokens : tx.amounts[t] <= RefundReserve
     => Covers(gasService, tx)

FundsInv ==
  /\ \A tx \in pool : OnTime(tx)
  /\ \A s \in Senders : \A h \in hold[s] : h.nonce # "used" => OnTime(h.tx)

IInv == /\ TypeOK /\ FundsInv
        /\ hold["newTasks"] # {} => done < Len(RefundTasks)

------------------------------------------------------------------------------
(* Balances that grow keep what was true.                                  *)
LEMMA Richer ==
  ASSUME NEW tx \in Tx, OnTime(tx), TypeOK, TypeOK',
         \A t \in Tokens : gasService[t] <= gasService'[t],
         tx.kind = "unwrap" => \A t \in Tokens : wallet[t] <= wallet'[t]
  PROVE  OnTime(tx)'
<1>1. /\ gasService \in [Tokens -> Nat] /\ gasService' \in [Tokens -> Nat]
      /\ wallet \in [Tokens -> Nat] /\ wallet' \in [Tokens -> Nat]
      /\ tx.amounts \in [Tokens -> Nat]
  BY DEF TypeOK, Tx
<1>2. Covers(gasService, tx) => Covers(gasService', tx)
  BY <1>1, ThresholdsType DEF Covers
<1>3. tx.kind = "unwrap" /\ Covers(wallet, tx) => Covers(wallet', tx)
  BY <1>1 DEF Covers
<1>4. \A t \in Tokens : tx.amounts[t] + RefundReserve <= gasService[t]
                          => tx.amounts[t] + RefundReserve <= gasService'[t]
  BY <1>1, ThresholdsType
<1>5. QED
  BY <1>2, <1>3, <1>4 DEF OnTime, Payer

(* No money moves: what a sender holds may be sent.                        *)
LEMMA Moves ==
  ASSUME IInv, UNCHANGED money,
         \A tx \in pool' : \/ tx \in pool
                           \/ \E s \in Senders : \E h \in hold[s] : h.nonce # "used" /\ h.tx = tx,
         \A s \in Senders : \A h \in hold'[s] : h.nonce # "used" => OnTime(h.tx)
  PROVE  FundsInv'
<1>1. \A tx : OnTime(tx)' <=> OnTime(tx)
  BY DEF OnTime, Payer, Covers
<1>2. QED
  BY <1>1 DEF IInv, FundsInv

(* A transaction is built from balances that were just read.               *)
LEMMA BuildsOnTime ==
  ASSUME IInv, NEW s \in Senders, NEW kind \in {"collect", "unwrap", "refund"},
         NEW amounts \in [Tokens -> Nat], Builds(s, kind, amounts),
         OnTime([kind |-> kind, amounts |-> amounts, since |-> {}])
  PROVE  /\ hold' \in [Senders -> SUBSET Held]
         /\ \A r \in Senders : \A h \in hold'[r] : h.nonce # "used" => OnTime(h.tx)
         /\ s = "gasChecker" => hold'["newTasks"] = hold["newTasks"]
<1> DEFINE tx == [kind |-> kind, amounts |-> amounts, since |-> {}]
           held == [tx |-> tx, nonce |-> "unread"]
<1>1. tx \in Tx
  BY DEF Tx
<1>2. held \in Held
  BY <1>1 DEF Held
<1>3. hold' = [hold EXCEPT ![s] = {held}] /\ hold \in [Senders -> SUBSET Held]
  BY DEF Builds, IInv, TypeOK
<1>4. hold' \in [Senders -> SUBSET Held]
  BY <1>2, <1>3
<1>5. ASSUME NEW r \in Senders, NEW h \in hold'[r], h.nonce # "used" PROVE OnTime(h.tx)
  <2>1. CASE r = s
    <3>1. h = held
      BY <1>3, <2>1
    <3>2. QED
      BY <3>1
  <2>2. CASE r # s
    BY <1>3, <1>5, <2>2 DEF IInv, FundsInv
  <2>3. QED
    BY <2>1, <2>2
<1>6. QED
  BY <1>3, <1>4, <1>5 DEF Senders

(* Reading a nonce, sending and throwing.                                  *)
LEMMA ReadsNonceStep == ASSUME NEW s \in Senders PROVE IInv /\ ReadsNonce(s) => IInv'
<1> SUFFICES ASSUME IInv, NEW g \in hold[s], g.nonce = "unread",
                    hold' = [hold EXCEPT ![s] = {[g EXCEPT !.nonce = "current"]}],
                    UNCHANGED <<money, paid, collector, pool, checker, done, faults>>
             PROVE  IInv'
  BY DEF ReadsNonce
<1> DEFINE read == [g EXCEPT !.nonce = "current"]
<1>1. hold \in [Senders -> SUBSET Held] /\ g \in Held
  BY DEF IInv, TypeOK
<1>2. read \in Held /\ read.tx = g.tx /\ OnTime(g.tx)
  BY <1>1 DEF Held, IInv, FundsInv
<1> HIDE DEF read
<1>3. /\ hold' \in [Senders -> SUBSET Held]
      /\ \A r \in Senders : \A h \in hold'[r] : h = read \/ h \in hold[r]
      /\ hold'["newTasks"] # {} => hold["newTasks"] # {}
  BY <1>1, <1>2 DEF read, Senders
<1>4. TypeOK'
  BY <1>3 DEF IInv, TypeOK
<1>5. FundsInv'
  BY <1>2, <1>3, Moves DEF IInv, FundsInv
<1>6. QED
  BY <1>3, <1>4, <1>5 DEF IInv

LEMMA SendsOnTime ==
  ASSUME IInv, NEW s \in Senders, NEW tx, Sends(s, tx), UNCHANGED money
  PROVE  /\ tx \in Tx /\ pool' \subseteq Tx
         /\ hold[s] # {} /\ hold'[s] = {}
         /\ hold' \in [Senders -> SUBSET Held]
         /\ s = "gasChecker" => hold'["newTasks"] = hold["newTasks"]
         /\ FundsInv'
<1> DEFINE held == [tx |-> tx, nonce |-> "current"]
<1>1. /\ hold \in [Senders -> SUBSET Held] /\ held \in hold[s]
      /\ held.tx = tx /\ held.nonce # "used"
  BY DEF IInv, TypeOK, Sends
<1> HIDE DEF held
<1>2. tx \in Tx /\ pool' \subseteq Tx
  BY <1>1 DEF Sends, Held, IInv, TypeOK
<1>3. /\ hold' \in [Senders -> SUBSET Held] /\ hold'[s] = {}
      /\ \A r \in Senders : hold'[r] \subseteq hold[r]
      /\ s = "gasChecker" => hold'["newTasks"] = hold["newTasks"]
  BY <1>1 DEF Sends, Senders
<1>4. FundsInv'
  <2>1. \A t \in pool' : t \in pool \/ t = held.tx
    BY <1>1 DEF Sends
  <2>2. QED
    BY <1>1, <1>3, <2>1, Moves DEF IInv, FundsInv
<1>5. QED
  BY <1>1, <1>2, <1>3, <1>4

LEMMA ThrowsOnTime ==
  ASSUME IInv, NEW s \in Senders, Throws(s), UNCHANGED money
  PROVE  /\ pool' \subseteq Tx /\ faults' \in Nat
         /\ hold[s] # {} /\ hold'[s] = {}
         /\ hold' \in [Senders -> SUBSET Held]
         /\ s = "gasChecker" => hold'["newTasks"] = hold["newTasks"]
         /\ FundsInv'
<1>1. PICK g \in hold[s] : \/ g.nonce = "used" /\ UNCHANGED <<pool, faults>>
                           \/ g.nonce # "used" /\ Fault /\ UNCHANGED pool
                           \/ g.nonce = "current" /\ Fault /\ pool' = pool \cup {g.tx}
  BY DEF Throws
<1>2. hold \in [Senders -> SUBSET Held] /\ g.tx \in Tx
  BY DEF IInv, TypeOK, Held
<1>3. /\ pool' \subseteq Tx /\ faults' \in Nat
      /\ pool' = pool \/ (g.nonce # "used" /\ pool' = pool \cup {g.tx})
  BY <1>1, <1>2 DEF IInv, TypeOK, Fault
<1>4. /\ hold' \in [Senders -> SUBSET Held] /\ hold'[s] = {}
      /\ \A r \in Senders : hold'[r] \subseteq hold[r]
      /\ s = "gasChecker" => hold'["newTasks"] = hold["newTasks"]
  BY <1>2 DEF Throws, Senders
<1>5. FundsInv'
  BY <1>3, <1>4, Moves DEF IInv, FundsInv
<1>6. QED
  BY <1>3, <1>4, <1>5

------------------------------------------------------------------------------
(* The gas checker.                                                        *)

LEMMA CollectOnTime ==
  ASSUME TypeOK, NEW balances \in Balances(gasService)
  PROVE  /\ ToCollect(balances) \in [Tokens -> Nat]
         /\ OnTime([kind |-> "collect", amounts |-> ToCollect(balances), since |-> {}])
<1> DEFINE amounts == ToCollect(balances)
           tx == [kind |-> "collect", amounts |-> amounts, since |-> {}]
<1>1. balances \in [Tokens -> Nat] /\ \A t \in Tokens : balances[t] <= gasService[t]
  BY DEF TypeOK, Balances, Tokens
<1>2. ASSUME NEW t \in Tokens
      PROVE  /\ amounts[t] \in Nat /\ amounts[t] <= gasService[t]
             /\ amounts[t] = 0 \/ amounts[t] + RefundReserve <= gasService[t]
  BY <1>1, ThresholdsType DEF ToCollect, TypeOK
<1>3. amounts \in [Tokens -> Nat]
  BY <1>2 DEF ToCollect
<1>4. /\ tx.kind = "collect" /\ tx.amounts = amounts /\ tx.since = {}
  OBVIOUS
<1> HIDE DEF amounts, tx
<1>5. OnTime(tx)
  BY <1>2, <1>4 DEF OnTime, Payer, Covers
<1>6. QED
  BY <1>3, <1>5 DEF amounts, tx

LEMMA CheckFeesStep == IInv /\ CheckGasServiceFees => IInv'
<1> SUFFICES ASSUME IInv, pc = "idle", NEW balances \in Balances(gasService),
                    IF balances = gasService THEN UNCHANGED faults ELSE Fault,
                    \/ pc' = "wallet" /\ UNCHANGED hold
                    \/ pc' = "collect" /\ Builds("gasChecker", "collect", ToCollect(balances)),
                    UNCHANGED <<money, paid, collector, pool, sent, done>>
             PROVE  IInv'
  BY DEF CheckGasServiceFees
<1>1. faults' \in Nat
  BY DEF IInv, TypeOK, Fault
<1>2. /\ hold' \in [Senders -> SUBSET Held]
      /\ \A r \in Senders : \A h \in hold'[r] : h.nonce # "used" => OnTime(h.tx)
      /\ hold'["newTasks"] = hold["newTasks"]
  <2>1. CASE UNCHANGED hold
    BY <2>1 DEF IInv, FundsInv, TypeOK
  <2>2. CASE Builds("gasChecker", "collect", ToCollect(balances))
    BY <2>2, CollectOnTime, BuildsOnTime DEF IInv, Senders
  <2>3. QED
    BY <2>1, <2>2
<1>3. TypeOK'
  BY <1>1, <1>2 DEF IInv, TypeOK
<1>4. QED
  BY <1>2, <1>3, Moves DEF IInv

LEMMA CheckWalletStep == IInv /\ CheckWalletTokens => IInv'
<1> DEFINE amounts == [wallet EXCEPT !["REWA"] = 0]
           tx == [kind |-> "unwrap", amounts |-> amounts, since |-> {}]
<1> SUFFICES ASSUME IInv, faults' \in Nat,
                    \/ pc' = "idle" /\ UNCHANGED hold
                    \/ pc' = "unwrap" /\ Builds("gasChecker", "unwrap", amounts),
                    UNCHANGED <<money, paid, collector, pool, sent, done>>
             PROVE  IInv'
  BY DEF CheckWalletTokens, IInv, TypeOK, Fault
<1>1. wallet \in [Tokens -> Nat] /\ amounts \in [Tokens -> Nat]
      /\ \A t \in Tokens : amounts[t] <= wallet[t]
  BY DEF IInv, TypeOK, Tokens
<1>2. tx.kind = "unwrap" /\ tx.amounts = amounts /\ tx.since = {}
  OBVIOUS
<1>3. OnTime(tx)
  BY <1>1, <1>2 DEF OnTime, Payer, Covers
<1>4. /\ hold' \in [Senders -> SUBSET Held]
      /\ \A r \in Senders : \A h \in hold'[r] : h.nonce # "used" => OnTime(h.tx)
      /\ hold'["newTasks"] = hold["newTasks"]
  <2>1. CASE UNCHANGED hold
    BY <2>1 DEF IInv, FundsInv, TypeOK
  <2>2. CASE Builds("gasChecker", "unwrap", amounts)
    BY <1>1, <1>3, <2>2, BuildsOnTime DEF Senders
  <2>3. QED
    BY <2>1, <2>2
<1>5. TypeOK'
  BY <1>4 DEF IInv, TypeOK
<1>6. QED
  BY <1>4, <1>5, Moves DEF IInv

(* Neither a balance nor a transaction changes.                            *)
LEMMA Waits ==
  ASSUME IInv, UNCHANGED <<money, paid, collector, pool, done>>, faults' \in Nat,
         pc' \in {"idle", "wallet"}, sent' = {} \/ UNCHANGED sent,
         UNCHANGED hold \/ hold' = [hold EXCEPT !["gasChecker"] = {}]
  PROVE  IInv'
<1>1. /\ hold' \in [Senders -> SUBSET Held] /\ hold'["newTasks"] = hold["newTasks"]
      /\ \A r \in Senders : hold'[r] \subseteq hold[r]
  BY DEF IInv, TypeOK, Senders
<1>2. TypeOK'
  BY <1>1 DEF IInv, TypeOK
<1>3. FundsInv'
  BY <1>1, Moves DEF IInv, FundsInv
<1>4. QED
  BY <1>1, <1>2, <1>3 DEF IInv

LEMMA CheckerStep == IInv /\ CheckGasServiceAndWallet => IInv'
<1> SUFFICES ASSUME IInv, CheckGasServiceAndWallet PROVE IInv'
  OBVIOUS
<1>1. "gasChecker" \in Senders
  BY DEF Senders
<1>2. CASE CheckGasServiceFees
  BY <1>2, CheckFeesStep
<1>3. CASE CheckWalletTokens
  BY <1>3, CheckWalletStep
<1>4. CASE FeesUnread \/ WalletUnread \/ AwaitCollect \/ AwaitUnwrap
  <2>1. faults' \in Nat
    BY <1>4 DEF FeesUnread, WalletUnread, AwaitCollect, AwaitUnwrap, Awaited, Fault, IInv, TypeOK
  <2>2. QED
    BY <1>4, <2>1, Waits
    DEF FeesUnread, WalletUnread, AwaitCollect, AwaitUnwrap, Awaited, AfterFeesError
<1>5. CASE CollectSends \/ UnwrapSends
  <2>1. PICK h \in hold["gasChecker"] : Sends("gasChecker", h.tx) /\ sent' = {h.tx}
    BY <1>5 DEF CollectSends, UnwrapSends
  <2>2. /\ UNCHANGED <<money, paid, collector, done, faults>>
        /\ pc' \in {"awaitCollect", "awaitUnwrap"}
    BY <1>5 DEF CollectSends, UnwrapSends
  <2>3. /\ h.tx \in Tx /\ pool' \subseteq Tx
        /\ hold' \in [Senders -> SUBSET Held]
        /\ hold'["newTasks"] = hold["newTasks"] /\ FundsInv'
    BY <1>1, <2>1, <2>2, SendsOnTime
  <2>4. TypeOK'
    BY <2>1, <2>2, <2>3 DEF IInv, TypeOK
  <2>5. QED
    BY <2>2, <2>3, <2>4 DEF IInv
<1>6. CASE CollectThrows \/ UnwrapThrows
  <2>1. /\ Throws("gasChecker") /\ UNCHANGED <<money, paid, collector, sent, done>>
        /\ pc' \in {"wallet", "idle"}
    BY <1>6 DEF CollectThrows, UnwrapThrows, AfterFeesError
  <2>2. /\ pool' \subseteq Tx /\ faults' \in Nat
        /\ hold' \in [Senders -> SUBSET Held]
        /\ hold'["newTasks"] = hold["newTasks"] /\ FundsInv'
    BY <1>1, <2>1, ThrowsOnTime
  <2>3. TypeOK'
    BY <2>1, <2>2 DEF IInv, TypeOK
  <2>4. QED
    BY <2>1, <2>2, <2>3 DEF IInv
<1>7. CASE ReadsNonce("gasChecker")
  BY <1>1, <1>7, ReadsNonceStep
<1>8. QED
  BY <1>2, <1>3, <1>4, <1>5, <1>6, <1>7 DEF CheckGasServiceAndWallet

LEMMA RestartStep == IInv /\ Restart => IInv'
<1> SUFFICES ASSUME IInv, Restart PROVE IInv'
  OBVIOUS
<1>1. faults' \in Nat
  BY DEF Restart, Fault, IInv, TypeOK
<1>2. QED
  BY <1>1, Waits DEF Restart
------------------------------------------------------------------------------
(* The refunds.                                                            *)

LEMMA RefundStep == IInv /\ ProcessRefundTask => IInv'
<1> SUFFICES ASSUME IInv, ProcessRefundTask PROVE IInv'
  OBVIOUS
<1>1. "newTasks" \in Senders /\ Len(RefundTasks) \in Nat /\ done \in Nat
  BY RefundsType DEF Senders, IInv, TypeOK
<1>2. CASE RefundBuilds
  <2> DEFINE amounts == [Nothing EXCEPT ![Refund.token] = Refund.amount]
             tx == [kind |-> "refund", amounts |-> amounts, since |-> {}]
  <2>1. /\ done < Len(RefundTasks)
        /\ gasService[Refund.token] >= Refund.amount
        /\ Builds("newTasks", "refund", amounts)
        /\ UNCHANGED <<money, paid, collector, pool, checker, done, faults>>
    BY <1>2 DEF RefundBuilds, Sufficient
  <2>2. Refund.token \in Tokens /\ Refund.amount \in Nat
    <3>1. done + 1 \in 1 .. Len(RefundTasks)
      BY <1>1, <2>1
    <3>2. RefundTasks[done + 1] \in [token : Tokens, amount : Nat]
      BY <3>1, RefundsType, ElementOfSeq
    <3>3. QED
      BY <3>2 DEF Refund
  <2>3. amounts \in [Tokens -> Nat] /\ \A t \in Tokens : amounts[t] <= gasService[t]
    BY <2>1, <2>2 DEF Nothing, IInv, TypeOK
  <2>4. tx.kind = "refund" /\ tx.amounts = amounts /\ tx.since = {}
    OBVIOUS
  <2> HIDE DEF amounts, tx
  <2>5. OnTime(tx)
    BY <2>3, <2>4 DEF OnTime, Payer, Covers
  <2>6. /\ hold' \in [Senders -> SUBSET Held]
        /\ \A r \in Senders : \A h \in hold'[r] : h.nonce # "used" => OnTime(h.tx)
    BY <1>1, <2>1, <2>3, <2>5, BuildsOnTime DEF tx
  <2>7. TypeOK'
    BY <2>1, <2>6 DEF IInv, TypeOK
  <2>8. FundsInv'
    BY <2>1, <2>6, Moves
  <2>9. QED
    BY <2>1, <2>7, <2>8 DEF IInv
<1>3. CASE RefundReturns
  <2>1. /\ done < Len(RefundTasks) /\ hold["newTasks"] = {} /\ done' = done + 1
        /\ UNCHANGED <<money, paid, collector, pool, hold, checker>>
    BY <1>3 DEF RefundReturns
  <2>2. faults' \in Nat
    BY <1>3 DEF RefundReturns, Fault, IInv, TypeOK
  <2>3. TypeOK'
    BY <1>1, <2>1, <2>2 DEF IInv, TypeOK
  <2>4. FundsInv'
    BY <2>1, Moves DEF IInv, FundsInv
  <2>5. QED
    BY <2>1, <2>3, <2>4 DEF IInv
<1>4. CASE RefundSends
  <2>1. PICK h \in hold["newTasks"] : Sends("newTasks", h.tx)
    BY <1>4 DEF RefundSends
  <2>2. done' = done + 1 /\ UNCHANGED <<money, paid, collector, checker, faults>>
    BY <1>4 DEF RefundSends
  <2>3. /\ pool' \subseteq Tx
        /\ hold' \in [Senders -> SUBSET Held] /\ hold'["newTasks"] = {} /\ FundsInv'
    BY <1>1, <2>1, <2>2, SendsOnTime
  <2>4. done < Len(RefundTasks)
    BY <2>1 DEF IInv
  <2>5. TypeOK'
    BY <1>1, <2>2, <2>3, <2>4 DEF IInv, TypeOK
  <2>6. QED
    BY <2>3, <2>5 DEF IInv
<1>5. CASE RefundThrows
  <2>1. Throws("newTasks") /\ UNCHANGED <<money, paid, collector, checker, done>>
    BY <1>5 DEF RefundThrows
  <2>2. /\ pool' \subseteq Tx /\ faults' \in Nat
        /\ hold' \in [Senders -> SUBSET Held] /\ hold'["newTasks"] = {} /\ FundsInv'
    BY <1>1, <2>1, ThrowsOnTime
  <2>3. TypeOK'
    BY <2>1, <2>2 DEF IInv, TypeOK
  <2>4. QED
    BY <2>2, <2>3 DEF IInv
<1>6. CASE ReadsNonce("newTasks")
  BY <1>1, <1>6, ReadsNonceStep
<1>7. QED
  BY <1>2, <1>3, <1>4, <1>5, <1>6 DEF ProcessRefundTask

------------------------------------------------------------------------------
(* The network.                                                            *)

LEMMA PayGasStep == IInv /\ PayGas => IInv'
<1> SUFFICES ASSUME IInv, NEW u \in Tokens,
                    paid' = [paid EXCEPT ![u] = @ + 1],
                    gasService' = [gasService EXCEPT ![u] = @ + 1],
                    UNCHANGED <<wallet, collector, pool, hold, checker, done, faults>>
             PROVE  IInv'
  BY DEF PayGas
<1>1. /\ gasService' \in [Tokens -> Nat] /\ paid' \in [Tokens -> Nat]
      /\ \A t \in Tokens : gasService[t] <= gasService'[t] /\ wallet[t] <= wallet'[t]
  BY DEF IInv, TypeOK
<1>2. TypeOK'
  BY <1>1 DEF IInv, TypeOK
<1>3. pool \subseteq Tx /\ \A s \in Senders : \A h \in hold[s] : h.tx \in Tx
  BY DEF IInv, TypeOK, Held
<1>4. FundsInv'
  BY <1>1, <1>2, <1>3, Richer DEF IInv, FundsInv
<1>5. QED
  BY <1>2, <1>4 DEF IInv

(* What is executed leaves to those that have not read their nonce what    *)
(* they count on, given what they now know was executed.                   *)
LEMMA NonceUsedStep ==
  ASSUME IInv, NEW kinds \in SUBSET {"collect", "late collect", "unwrap", "refund"},
         NonceUsed(kinds), UNCHANGED <<paid, collector, checker, done>>, faults' \in Nat,
         gasService' \in [Tokens -> Nat], wallet' \in [Tokens -> Nat],
         \A tx \in Tx : OnTime(tx) => OnTime([tx EXCEPT !.since = @ \cup kinds])'
  PROVE  IInv'
<1> DEFINE next(h) == IF h.nonce = "unread" THEN [h EXCEPT !.tx.since = @ \cup kinds]
                      ELSE [h EXCEPT !.nonce = "used"]
<1>1. hold \in [Senders -> SUBSET Held]
  BY DEF IInv, TypeOK
<1>2. pool' = {} /\ hold' = [s \in Senders |-> {next(h) : h \in hold[s]}]
  BY DEF NonceUsed
<1>3. ASSUME NEW s \in Senders, NEW h \in hold[s]
      PROVE  /\ next(h) \in Held
             /\ next(h).nonce # "used" => OnTime(next(h).tx)'
  <2> h \in Held
    BY <1>1
  <2>1. h \in Held /\ h.tx \in Tx
    BY DEF Held
  <2>2. CASE h.nonce = "unread"
    <3> DEFINE tx == [h.tx EXCEPT !.since = @ \cup kinds]
    <3>1. tx \in Tx
      BY <2>1 DEF Tx
    <3>2. next(h) = [h EXCEPT !.tx = tx]
      BY <2>1, <2>2 DEF Held, Tx
    <3> HIDE DEF tx, next
    <3>3. next(h) \in Held /\ next(h).tx = tx
      BY <2>1, <3>1, <3>2 DEF Held
    <3>4. OnTime(h.tx)
      BY <2>2 DEF IInv, FundsInv
    <3>5. OnTime(tx)'
      BY <2>1, <3>4 DEF tx
    <3>6. QED
      BY <3>3, <3>5
  <2>3. CASE h.nonce # "unread"
    BY <2>1, <2>3 DEF Held
  <2>4. QED
    BY <2>2, <2>3
<1> HIDE DEF next
<1>4. hold' \in [Senders -> SUBSET Held]
  BY <1>2, <1>3
<1>5. TypeOK'
  BY <1>2, <1>4 DEF IInv, TypeOK
<1>6. FundsInv'
  BY <1>2, <1>3 DEF FundsInv
<1>7. hold'["newTasks"] # {} => hold["newTasks"] # {}
  BY <1>2 DEF Senders
<1>8. QED
  BY <1>5, <1>6, <1>7 DEF IInv

LEMMA CollectExecutedStep ==
  ASSUME IInv, NEW tx \in pool, CollectExecuted(tx),
         UNCHANGED <<paid, collector, checker, done, faults>>
  PROVE  IInv'
<1>1. PICK amounts \in Collected(tx) : /\ gasService' = Minus(gasService, amounts)
                                       /\ wallet' = Plus(wallet, amounts)
  BY DEF CollectExecuted
<1>2. tx \in Tx /\ tx.amounts \in [Tokens -> Nat] /\ OnTime(tx) /\ tx.kind = "collect"
      /\ gasService \in [Tokens -> Nat] /\ wallet \in [Tokens -> Nat]
  BY DEF IInv, TypeOK, FundsInv, Tx, CollectExecuted
<1>3. /\ amounts \in [Tokens -> Nat]
      /\ \A t \in Tokens : amounts[t] <= gasService[t] /\ amounts[t] \in {0, tx.amounts[t]}
  BY <1>2 DEF Collected, Nothing, Covers
<1>4. /\ gasService' \in [Tokens -> Nat] /\ wallet' \in [Tokens -> Nat]
      /\ \A t \in Tokens : /\ gasService'[t] = gasService[t] - amounts[t]
                           /\ wallet[t] <= wallet'[t]
  BY <1>1, <1>2, <1>3 DEF Minus, Plus
<1> DEFINE kinds == IF tx.since = {} THEN {"collect"} ELSE {"late collect"}
<1>5. kinds \in SUBSET {"collect", "late collect", "unwrap", "refund"} /\ kinds # {}
  OBVIOUS
<1>6. NonceUsed(kinds)
  BY DEF CollectExecuted
<1>7. ASSUME NEW u \in Tx, OnTime(u) PROVE OnTime([u EXCEPT !.since = @ \cup kinds])'
  <2> DEFINE v == [u EXCEPT !.since = @ \cup kinds]
  <2>1. v.kind = u.kind /\ v.amounts = u.amounts /\ v.since = u.since \cup kinds
        /\ v.amounts \in [Tokens -> Nat]
    BY DEF Tx
  <2>2. v.since # {}
    BY <1>5, <2>1
  <2> HIDE DEF v
  <2>3. ASSUME v.kind = "refund", v.since \subseteq {"collect", "unwrap"},
               \A t \in Tokens : v.amounts[t] <= RefundReserve
        PROVE  Covers(gasService', v)
    <3>1. tx.since = {} /\ u.since \subseteq {"collect", "unwrap"}
      <4>1. tx.since # {} => "late collect" \in v.since
        BY <2>1
      <4>2. QED
        BY <2>1, <2>3, <4>1
    <3>2. Covers(gasService, u)
      BY <1>7, <2>1, <2>3, <3>1 DEF OnTime
    <3>3. ASSUME NEW t \in Tokens PROVE v.amounts[t] <= gasService'[t]
      <4>1. tx.amounts[t] = 0 \/ tx.amounts[t] + RefundReserve <= gasService[t]
        BY <1>2, <3>1 DEF OnTime
      <4>2. u.amounts[t] <= gasService[t]
        BY <3>2 DEF Covers
      <4>3. /\ amounts[t] = 0 \/ amounts[t] = tx.amounts[t]
            /\ gasService'[t] = gasService[t] - amounts[t]
            /\ amounts[t] \in Nat /\ gasService[t] \in Nat /\ v.amounts[t] \in Nat
        BY <1>2, <1>3, <1>4, <2>1
      <4>4. v.amounts[t] <= gasService[t] /\ v.amounts[t] <= RefundReserve
        BY <2>1, <2>3, <4>2
      <4>5. QED
        BY <4>1, <4>3, <4>4, ThresholdsType
    <3>4. QED
      BY <3>3 DEF Covers
  <2>4. OnTime(v)'
    BY <2>2, <2>3 DEF OnTime, Covers
  <2>5. QED
    BY <2>4 DEF v
<1> HIDE DEF kinds
<1>8. faults' \in Nat
  BY DEF IInv, TypeOK
<1>9. QED
  BY <1>4, <1>5, <1>6, <1>7, <1>8, NonceUsedStep

LEMMA UnwrapExecutedStep ==
  ASSUME IInv, NEW tx \in pool, UnwrapExecuted(tx),
         UNCHANGED <<paid, collector, checker, done, faults>>
  PROVE  IInv'
<1>1. tx \in Tx /\ tx.amounts \in [Tokens -> Nat] /\ wallet \in [Tokens -> Nat]
      /\ gasService \in [Tokens -> Nat] /\ faults \in Nat
  BY DEF IInv, TypeOK, Tx
<1>2. wallet' \in [Tokens -> Nat]
  BY <1>1 DEF UnwrapExecuted, Covers, Tokens
<1>3. ASSUME NEW u \in Tx, OnTime(u) PROVE OnTime([u EXCEPT !.since = @ \cup {"unwrap"}])'
  <2> DEFINE v == [u EXCEPT !.since = @ \cup {"unwrap"}]
  <2>1. v.kind = u.kind /\ v.amounts = u.amounts /\ v.since = u.since \cup {"unwrap"}
    BY DEF Tx
  <2> HIDE DEF v
  <2>2. OnTime(v)'
    BY <1>3, <2>1 DEF OnTime, Covers, UnwrapExecuted
  <2>3. QED
    BY <2>2 DEF v
<1>4. QED
  BY <1>1, <1>2, <1>3, NonceUsedStep DEF UnwrapExecuted

LEMMA RefundExecutedStep ==
  ASSUME IInv, NEW tx \in pool, RefundExecuted(tx),
         UNCHANGED <<paid, collector, checker, done, faults>>
  PROVE  IInv'
<1>1. tx \in Tx /\ tx.amounts \in [Tokens -> Nat] /\ wallet \in [Tokens -> Nat]
      /\ gasService \in [Tokens -> Nat] /\ faults \in Nat
  BY DEF IInv, TypeOK, Tx
<1>2. gasService' \in [Tokens -> Nat] /\ wallet' \in [Tokens -> Nat]
  BY <1>1 DEF RefundExecuted, Covers, Minus
<1>3. ASSUME NEW u \in Tx, OnTime(u) PROVE OnTime([u EXCEPT !.since = @ \cup {"refund"}])'
  <2> DEFINE v == [u EXCEPT !.since = @ \cup {"refund"}]
  <2>1. v.kind = u.kind /\ v.amounts = u.amounts /\ v.since = u.since \cup {"refund"}
    BY DEF Tx
  <2> HIDE DEF v
  <2>2. OnTime(v)'
    BY <2>1 DEF OnTime
  <2>3. QED
    BY <2>2 DEF v
<1>4. QED
  BY <1>1, <1>2, <1>3, NonceUsedStep DEF RefundExecuted

LEMMA OtherExecutedStep == IInv /\ OtherExecuted => IInv'
<1> SUFFICES ASSUME IInv, OtherExecuted PROVE IInv'
  OBVIOUS
<1>1. /\ NonceUsed({}) /\ UNCHANGED <<money, paid, collector, checker, done>>
      /\ faults' \in Nat
  BY DEF OtherExecuted, Fault, IInv, TypeOK
<1>2. ASSUME NEW u \in Tx, OnTime(u) PROVE OnTime([u EXCEPT !.since = @ \cup {}])'
  <2>1. [u EXCEPT !.since = @ \cup {}] = u
    BY DEF Tx
  <2>2. OnTime(u)'
    BY <1>1, <1>2 DEF OnTime, Payer, Covers
  <2>3. QED
    BY <2>1, <2>2
<1>3. gasService' \in [Tokens -> Nat] /\ wallet' \in [Tokens -> Nat]
  BY <1>1 DEF IInv, TypeOK
<1>4. QED
  BY <1>1, <1>2, <1>3, NonceUsedStep

------------------------------------------------------------------------------
LEMMA InitIInv == Init => IInv
<1> SUFFICES ASSUME Init PROVE IInv
  OBVIOUS
<1>1. TypeOK
  <2>1. wallet \in [Tokens -> Nat]
    BY ThresholdsType DEF Init, Nothing
  <2>2. QED
    BY <2>1, RefundsType DEF Init, TypeOK, Nothing
<1>2. FundsInv /\ hold["newTasks"] = {}
  BY DEF Init, FundsInv, Senders
<1>3. QED
  BY <1>1, <1>2 DEF IInv

LEMMA NextIInv == IInv /\ [Next]_vars => IInv'
<1> SUFFICES ASSUME IInv, [Next]_vars PROVE IInv'
  OBVIOUS
<1>1. CASE Execute
  BY <1>1, CollectExecutedStep, UnwrapExecutedStep, RefundExecutedStep DEF Execute
<1>2. CASE UNCHANGED vars
  <2>1. TypeOK'
    BY <1>2 DEF vars, IInv, TypeOK
  <2>2. FundsInv'
    BY <1>2, Moves DEF vars, IInv, FundsInv
  <2>3. QED
    BY <1>2, <2>1, <2>2 DEF vars, IInv
<1>3. QED
  BY <1>1, <1>2, CheckerStep, RestartStep, RefundStep, PayGasStep, OtherExecutedStep DEF Next

(* The invariant holds: what a transaction counts on is there unless one   *)
(* executed since explains why not.                                        *)
THEOREM Inductive == Spec => []IInv
  BY InitIInv, NextIInv, PTL DEF Spec

(* Balances never go below zero, and every variable keeps its type.        *)
THEOREM TypeCorrect == Spec => []TypeOK
<1>1. IInv => TypeOK
  BY DEF IInv
<1>2. QED
  BY <1>1, Inductive, PTL

(* A transaction lacks the money it counts on only when another one was    *)
(* executed between the reading of its balance and of its nonce.           *)
THEOREM CoveredUnlessLateHolds == Spec => []CoveredUnlessLate
<1>1. IInv => CoveredUnlessLate
  BY DEF IInv, FundsInv, OnTime, CoveredUnlessLate
<1>2. QED
  BY <1>1, Inductive, PTL

(* The reserve the gas checker leaves serves the refunds that were checked *)
(* before it collected.                                                    *)
THEOREM ReserveServes == Spec => []ReserveServesRefunds
<1>1. IInv => ReserveServesRefunds
  BY DEF IInv, FundsInv, OnTime, ReserveServesRefunds
<1>2. QED
  BY <1>1, Inductive, PTL
================================================================================
