----------------------------- MODULE MC_WalletNonce -----------------------------
(* Small instances of WalletNonce for TLC.                                 *)
EXTENDS WalletNonce, TLC

CONSTANTS a, b   \* the messages

RefundSecond == {2}

Interchangeable == Permutations(Messages)

(* Nonces are compared only with each other and with the one on chain: two *)
(* states whose nonces differ by as much as their chains do are one. What  *)
(* is left of an executed transaction is its task, whether an entry waits  *)
(* for it, and the property it may have broken.                            *)
Rel(tx) == [tx EXCEPT !.nonce = IF @ < nonce THEN -1 ELSE @ - nonce]

Entries(es) == {<<Rel(e.tx), e.retry, e.tx \in succeeded>> : e \in es}

View ==
  <<{tx.job : tx \in succeeded}, OnlyLateOnesSucceedTwice,
    {Rel(tx) : tx \in pool}, {[tx EXCEPT !.nonce = @ - nonce] : tx \in built},
    [s \in Senders |-> {Rel(tx) : tx \in hold[s]}],
    Entries(tracked), Entries(toResend),
    {n - nonce : n \in unbroken}, IF accountNonce = -1 THEN {} ELSE {accountNonce - nonce},
    bpc, toFail, row, recent, saved, collects, faults>>
================================================================================
