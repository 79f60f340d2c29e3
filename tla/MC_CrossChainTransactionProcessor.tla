------------------ MODULE MC_CrossChainTransactionProcessor ------------------
(* Small instances of CrossChainTransactionProcessor for TLC.              *)
EXTENDS CrossChainTransactionProcessor

CONSTANTS
  a, b, c,   \* the transactions
  k,         \* the contract call
  msg        \* the message from another chain

Of(kind) == [kind |-> kind, call |-> k, message |-> msg]

(* The same call paid and made twice; an execution and an ITS transfer     *)
(* among other entries; a payment followed by a call that does not decode, *)
(* after another execution of the message.                                 *)
LogMixed ==
  [t \in Txs |-> CASE t = a -> <<Of("GAS_PAID"), Of("CALL"), Of("GAS_PAID"), Of("CALL")>>
                   [] t = b -> <<Of("REFUNDED"), Of("other"), Of("MESSAGE_EXECUTED"), Of("ITS")>>
                   [] OTHER -> <<Of("MESSAGE_EXECUTED"), Of("GAS_PAID"), Of("garbledCall"), Of("CALL")>>]

Watched(t) == [txHash |-> t, kind |-> "watched"]

(* The second block reports a transaction of the first again; the third is *)
(* one that handleEvent throws on.                                         *)
BlockMixed ==
  [n \in Blocks |-> CASE n = 1 -> {Watched(a), Watched(b)}
                      [] n = 2 -> {Watched(a), Watched(c), [txHash |-> b, kind |-> "other"]}
                      [] OTHER -> {Watched(b), [txHash |-> c, kind |-> "bare"]}]
==============================================================================
