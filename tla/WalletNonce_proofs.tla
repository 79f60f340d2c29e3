--------------------------- MODULE WalletNonce_proofs ---------------------------
(***************************************************************************)
(* The invariants of WalletNonce, for any number of messages and tasks,    *)
(* any page size, and any number of retries and faults.                    *)
(***************************************************************************)
EXTENDS WalletNonce, FiniteSetTheorems, TLAPS

USE DEF ledger, network, rows, batch, singles

(* What the batch cron has counted so far: the nonces it used are below    *)
(* accountNonce, and those of the page being built follow those it sent.   *)
BatchInv ==
  /\ bpc # "send" => built = {}
  /\ accountNonce = -1 => unbroken = {}
  /\ \A n \in unbroken : n < accountNonce
  /\ \A tx \in built : tx.nonce < accountNonce /\ tx.job \in Messages
  /\ \A tx \in built : row[tx.job].retry < MaxRetries
  /\ NoncesOfARunDiffer

(* A transaction of a single sender has a nonce that the chain had reached *)
(* when it was read, and is late if one of its job with a smaller nonce    *)
(* succeeded.                                                              *)
Informed(u) ==
  /\ u.nonce <= nonce
  /\ \A t \in succeeded : t.job = u.job /\ t.nonce < u.nonce => u.late

SinglesInv ==
  /\ \A s \in Senders : \A u \in hold[s] : Informed(u)
  /\ \A u \in pool : u.job \notin Messages => Informed(u)
  /\ \A u \in succeeded : Informed(u)
  /\ \A t, u \in succeeded : t # u => t.nonce # u.nonce

(* Tasks and retries left.                                                 *)
WorkInv ==
  /\ hold["newTasks"] # {} => saved < NumTasks
  /\ \A e \in toResend : e.retry < MaxRetries

IInv == TypeOK /\ BatchInv /\ NoNonceSkipped /\ SinglesInv /\ WorkInv

------------------------------------------------------------------------------
(* The parts that several actions share.                                   *)

(* What is sent is added to the pool, unless its nonce is used.            *)
LEMMA PooledType ==
  ASSUME NEW txs \in SUBSET Tx, TypeOK, Pooled(txs), UNCHANGED nonce
  PROVE  /\ pool \subseteq pool' /\ pool' \subseteq pool \cup txs
         /\ pool' \subseteq Tx /\ \A tx \in pool' : ~Stale(tx)'
         /\ \A tx \in txs : tx.nonce >= nonce => tx \in pool'
  BY DEF TypeOK, Pooled, Stale, Tx

LEMMA ReadsType ==
  ASSUME TypeOK, NEW s \in Senders, NEW job \in Jobs, NEW try \in Nat, Reads(s, job, try)
  PROVE  /\ hold' \in [Senders -> SUBSET Tx]
         /\ \A r \in Senders : r # s => hold'[r] = hold[r]
         /\ hold[s] = {}
         /\ SinglesInv => \A r \in Senders : \A u \in hold'[r] : Informed(u)
<1> DEFINE tx == [job |-> job, nonce |-> nonce, try |-> try,
                  late |-> \E t \in succeeded : t.job = job]
<1>1. tx \in Tx
  BY DEF TypeOK, Tx
<1>2. hold' = [hold EXCEPT ![s] = {tx}] /\ hold[s] = {}
  BY DEF Reads, AccountNonce
<1>3. Informed(tx)
  BY DEF Informed, TypeOK
<1>4. hold'[s] = {tx} /\ \A r \in Senders : r # s => hold'[r] = hold[r]
  BY <1>2 DEF TypeOK
<1>5. hold' \in [Senders -> SUBSET Tx]
  BY <1>1, <1>2 DEF TypeOK
<1>6. QED
  BY <1>2, <1>3, <1>4, <1>5 DEF SinglesInv

LEMMA ReleasesType ==
  ASSUME TypeOK, NEW s \in Senders, Releases(s)
  PROVE  /\ hold' \in [Senders -> SUBSET Tx]
         /\ hold'[s] = {}
         /\ \A r \in Senders : hold'[r] \subseteq hold[r]
  BY DEF TypeOK, Releases

(* The batch cron is not disturbed by what the others send.                *)
LEMMA BatchKept ==
  ASSUME IInv, UNCHANGED <<accountNonce, bpc, built, row, unbroken, nonce>>, pool \subseteq pool'
  PROVE  BatchInv' /\ NoNonceSkipped'
  BY DEF IInv, BatchInv, NoNonceSkipped, NoncesOfARunDiffer

(* Nothing is executed: the single senders only move what they hold.       *)
LEMMA SinglesKept ==
  ASSUME IInv, UNCHANGED ledger,
         \A s \in Senders : \A u \in hold'[s] : Informed(u),
         \A u \in pool' : u \in pool \/ u.job \in Messages \/ \E s \in Senders : u \in hold[s]
  PROVE  SinglesInv'
<1>1. \A u : Informed(u)' <=> Informed(u)
  BY DEF Informed
<1>2. QED
  BY <1>1 DEF IInv, SinglesInv
------------------------------------------------------------------------------
(* The single senders.                                                     *)

LEMMA TaskReadsStep == IInv /\ TaskReads => IInv'
<1> SUFFICES ASSUME IInv, TaskReads PROVE IInv'
  OBVIOUS
<1>1. saved + 1 \in Tasks /\ saved + 1 \in Jobs /\ "newTasks" \in Senders
  BY TasksType DEF IInv, TypeOK, TaskReads, Tasks, Jobs, Senders
<1>2. /\ hold' \in [Senders -> SUBSET Tx]
      /\ \A r \in Senders : \A u \in hold'[r] : Informed(u)
  BY <1>1, ReadsType DEF IInv, TaskReads
<1>3. TypeOK'
  BY <1>2 DEF IInv, TypeOK, TaskReads, Stale
<1>4. SinglesInv'
  BY <1>2, SinglesKept DEF TaskReads
<1>5. WorkInv'
  BY DEF IInv, WorkInv, TypeOK, TaskReads
<1>6. QED
  BY <1>3, <1>4, <1>5, BatchKept DEF IInv, TaskReads

LEMMA TaskSendsStep == IInv /\ TaskSends => IInv'
<1> SUFFICES ASSUME IInv, NEW tx \in hold["newTasks"], Releases("newTasks"), Pooled({tx}),
                    saved' = saved + 1,
                    tracked' = IF tx.job \in Refunds THEN tracked
                               ELSE tracked \cup {[tx |-> tx, retry |-> 1]},
                    UNCHANGED <<ledger, batch, toResend, collects, faults>>
             PROVE  IInv'
  BY DEF TaskSends
<1>1. "newTasks" \in Senders /\ tx \in Tx
  BY DEF IInv, TypeOK, Senders
<1>2. /\ hold' \in [Senders -> SUBSET Tx] /\ hold'["newTasks"] = {}
      /\ \A r \in Senders : hold'[r] \subseteq hold[r]
  BY <1>1, ReleasesType DEF IInv
<1>3. /\ pool \subseteq pool' /\ pool' \subseteq pool \cup {tx}
      /\ pool' \subseteq Tx /\ \A t \in pool' : ~Stale(t)'
  BY <1>1, PooledType DEF IInv
<1>4. tracked' \subseteq [tx : Tx, retry : 1 .. MaxRetries]
  BY <1>1, BoundsType DEF IInv, TypeOK
<1>5. saved' \in 0 .. NumTasks
  BY TasksType DEF IInv, WorkInv, TypeOK
<1>6. TypeOK'
  BY <1>2, <1>3, <1>4, <1>5 DEF IInv, TypeOK, Stale
<1>7. SinglesInv'
  BY <1>1, <1>2, <1>3, SinglesKept DEF IInv, SinglesInv
<1>8. WorkInv'
  BY <1>2 DEF IInv, WorkInv
<1>9. QED
  BY <1>3, <1>6, <1>7, <1>8, BatchKept DEF IInv

(* A transaction that is not sent, or whose answer is lost.                *)
LEMMA ThrowsKept ==
  ASSUME IInv, NEW s \in Senders, NEW tx \in hold[s], Releases(s), UNCHANGED ledger,
         (Stale(tx) /\ UNCHANGED <<pool, faults>>) \/ (Fault /\ (Pooled({tx}) \/ UNCHANGED pool))
  PROVE  /\ hold' \in [Senders -> SUBSET Tx] /\ hold'[s] = {}
         /\ \A r \in Senders : hold'[r] \subseteq hold[r]
         /\ pool \subseteq pool'
         /\ pool' \subseteq Tx /\ \A t \in pool' : ~Stale(t)'
         /\ faults' \in Nat
         /\ SinglesInv'
<1>1. tx \in Tx
  BY DEF IInv, TypeOK
<1>2. /\ hold' \in [Senders -> SUBSET Tx] /\ hold'[s] = {}
      /\ \A r \in Senders : hold'[r] \subseteq hold[r]
  BY ReleasesType DEF IInv
<1>3. /\ pool \subseteq pool' /\ pool' \subseteq pool \cup {tx}
      /\ pool' \subseteq Tx /\ \A t \in pool' : ~Stale(t)'
  <2>1. CASE Pooled({tx})
    BY <1>1, <2>1, PooledType DEF IInv
  <2>2. CASE UNCHANGED pool
    BY <2>2 DEF IInv, TypeOK, Stale
  <2>3. QED
    BY <2>1, <2>2
<1>4. faults' \in Nat
  BY DEF IInv, TypeOK, Fault
<1>5. SinglesInv'
  BY <1>2, <1>3, SinglesKept DEF IInv, SinglesInv
<1>6. QED
  BY <1>2, <1>3, <1>4, <1>5

LEMMA TaskThrowsStep == IInv /\ TaskThrows => IInv'
<1> SUFFICES ASSUME IInv, NEW tx \in hold["newTasks"], Releases("newTasks"),
                    \/ Stale(tx) /\ UNCHANGED <<pool, faults>>
                    \/ Fault /\ (Pooled({tx}) \/ UNCHANGED pool),
                    UNCHANGED <<ledger, batch, saved, tracked, toResend, collects>>
             PROVE  IInv'
  BY DEF TaskThrows
<1>1. "newTasks" \in Senders
  BY DEF Senders
<1>2. /\ hold' \in [Senders -> SUBSET Tx] /\ hold'["newTasks"] = {}
      /\ pool \subseteq pool'
      /\ pool' \subseteq Tx /\ \A t \in pool' : ~Stale(t)'
      /\ faults' \in Nat
      /\ SinglesInv'
  BY <1>1, ThrowsKept
<1>3. TypeOK'
  BY <1>2 DEF IInv, TypeOK, Stale
<1>4. WorkInv'
  BY <1>2 DEF IInv, WorkInv
<1>5. QED
  BY <1>2, <1>3, <1>4, BatchKept DEF IInv

LEMMA AwaitStep == ASSUME NEW e PROVE IInv /\ Await(e) => IInv'
<1> SUFFICES ASSUME IInv, Await(e) PROVE IInv'
  OBVIOUS
<1>1. /\ e \in [tx : Tx, retry : 1 .. MaxRetries]
      /\ tracked' \subseteq tracked
      /\ toResend' \subseteq {e} /\ (toResend' # {} => e.retry # MaxRetries)
      /\ faults' \in Nat
  BY DEF IInv, TypeOK, Await, Fault
<1>2. TypeOK'
  BY <1>1 DEF IInv, TypeOK, Await, Stale
<1>3. WorkInv'
  BY <1>1, BoundsType DEF IInv, WorkInv, Await
<1>4. SinglesInv'
  BY SinglesKept DEF IInv, SinglesInv, Await
<1>5. QED
  BY <1>2, <1>3, <1>4, BatchKept DEF IInv, Await

LEMMA ResendReadsStep == IInv /\ ResendReads => IInv'
<1> SUFFICES ASSUME IInv, NEW e \in toResend, Reads("pending", e.tx.job, e.retry + 1),
                    UNCHANGED <<network, batch, saved, tracked, toResend, collects, faults>>
             PROVE  IInv'
  BY DEF ResendReads
<1>1. "pending" \in Senders /\ e.tx.job \in Jobs /\ e.retry + 1 \in Nat /\ "newTasks" \in Senders
  BY DEF IInv, TypeOK, Tx, Senders
<1>2. /\ hold' \in [Senders -> SUBSET Tx] /\ hold'["newTasks"] = hold["newTasks"]
      /\ \A r \in Senders : \A u \in hold'[r] : Informed(u)
  BY <1>1, ReadsType DEF IInv
<1>3. TypeOK'
  BY <1>2 DEF IInv, TypeOK, Stale
<1>4. SinglesInv'
  BY <1>2, SinglesKept
<1>5. WorkInv'
  BY <1>2 DEF IInv, WorkInv
<1>6. QED
  BY <1>3, <1>4, <1>5, BatchKept DEF IInv

LEMMA ResendSendsStep == IInv /\ ResendSends => IInv'
<1> SUFFICES ASSUME IInv, NEW tx \in hold["pending"], NEW e \in toResend,
                    Releases("pending"), Pooled({tx}),
                    tracked' = tracked \cup {[tx |-> tx, retry |-> e.retry + 1]}, toResend' = {},
                    UNCHANGED <<ledger, batch, saved, collects, faults>>
             PROVE  IInv'
  BY DEF ResendSends
<1>1. "pending" \in Senders /\ "newTasks" \in Senders /\ tx \in Tx
  BY DEF IInv, TypeOK, Senders
<1>2. /\ hold' \in [Senders -> SUBSET Tx]
      /\ \A r \in Senders : hold'[r] \subseteq hold[r]
  BY <1>1, ReleasesType DEF IInv
<1>3. /\ pool \subseteq pool' /\ pool' \subseteq pool \cup {tx}
      /\ pool' \subseteq Tx /\ \A t \in pool' : ~Stale(t)'
  BY <1>1, PooledType DEF IInv
<1>4. e.retry \in 1 .. MaxRetries /\ e.retry < MaxRetries
  BY DEF IInv, TypeOK, WorkInv
<1>5. tracked' \cup toResend' \subseteq [tx : Tx, retry : 1 .. MaxRetries]
  BY <1>1, <1>4, BoundsType DEF IInv, TypeOK
<1>6. TypeOK'
  BY <1>2, <1>3, <1>5 DEF IInv, TypeOK, Stale
<1>7. SinglesInv'
  BY <1>1, <1>2, <1>3, SinglesKept DEF IInv, SinglesInv
<1>8. WorkInv'
  BY <1>1, <1>2 DEF IInv, WorkInv
<1>9. QED
  BY <1>3, <1>6, <1>7, <1>8, BatchKept DEF IInv

LEMMA ResendThrowsStep == IInv /\ ResendThrows => IInv'
<1> SUFFICES ASSUME IInv, NEW tx \in hold["pending"], Releases("pending"),
                    \/ Stale(tx) /\ UNCHANGED <<pool, faults>>
                    \/ Fault /\ (Pooled({tx}) \/ UNCHANGED pool),
                    tracked' = tracked \cup toResend, toResend' = {},
                    UNCHANGED <<ledger, batch, saved, collects>>
             PROVE  IInv'
  BY DEF ResendThrows
<1>1. "pending" \in Senders /\ "newTasks" \in Senders
  BY DEF Senders
<1>2. /\ hold' \in [Senders -> SUBSET Tx]
      /\ \A r \in Senders : hold'[r] \subseteq hold[r]
      /\ pool \subseteq pool'
      /\ pool' \subseteq Tx /\ \A t \in pool' : ~Stale(t)'
      /\ faults' \in Nat
      /\ SinglesInv'
  BY <1>1, ThrowsKept
<1>3. TypeOK'
  BY <1>2 DEF IInv, TypeOK, Stale
<1>4. WorkInv'
  BY <1>1, <1>2 DEF IInv, WorkInv
<1>5. QED
  BY <1>2, <1>3, <1>4, BatchKept DEF IInv

LEMMA CollectReadsStep == IInv /\ CollectReads => IInv'
<1> SUFFICES ASSUME IInv, CollectReads PROVE IInv'
  OBVIOUS
<1>1. "gasChecker" \in Senders /\ "newTasks" \in Senders /\ Collect \in Jobs
  BY DEF Senders, Jobs
<1>2. /\ hold' \in [Senders -> SUBSET Tx] /\ hold'["newTasks"] = hold["newTasks"]
      /\ \A r \in Senders : \A u \in hold'[r] : Informed(u)
  BY <1>1, ReadsType DEF IInv, CollectReads
<1>3. TypeOK'
  BY <1>2 DEF IInv, TypeOK, CollectReads, Stale
<1>4. SinglesInv'
  BY <1>2, SinglesKept DEF CollectReads
<1>5. WorkInv'
  BY <1>2 DEF IInv, WorkInv, CollectReads
<1>6. QED
  BY <1>3, <1>4, <1>5, BatchKept DEF IInv, CollectReads

LEMMA CollectSendsStep == IInv /\ CollectSends => IInv'
<1> SUFFICES ASSUME IInv, NEW tx \in hold["gasChecker"], Releases("gasChecker"), Pooled({tx}),
                    collects' = collects + 1,
                    UNCHANGED <<ledger, batch, saved, tracked, toResend, faults>>
             PROVE  IInv'
  BY DEF CollectSends
<1>1. "gasChecker" \in Senders /\ "newTasks" \in Senders /\ tx \in Tx
  BY DEF IInv, TypeOK, Senders
<1>2. /\ hold' \in [Senders -> SUBSET Tx]
      /\ \A r \in Senders : hold'[r] \subseteq hold[r]
  BY <1>1, ReleasesType DEF IInv
<1>3. /\ pool \subseteq pool' /\ pool' \subseteq pool \cup {tx}
      /\ pool' \subseteq Tx /\ \A t \in pool' : ~Stale(t)'
  BY <1>1, PooledType DEF IInv
<1>4. TypeOK'
  BY <1>2, <1>3 DEF IInv, TypeOK, Stale
<1>5. SinglesInv'
  BY <1>1, <1>2, <1>3, SinglesKept DEF IInv, SinglesInv
<1>6. WorkInv'
  BY <1>1, <1>2 DEF IInv, WorkInv
<1>7. QED
  BY <1>3, <1>4, <1>5, <1>6, BatchKept DEF IInv
------------------------------------------------------------------------------
(* The batch cron.                                                         *)

(* Its transactions are for messages: the single senders are not concerned.*)
LEMMA BatchSinglesKept ==
  ASSUME IInv, UNCHANGED <<ledger, singles>>, pool' \subseteq pool \cup built
  PROVE  SinglesInv' /\ WorkInv'
  BY SinglesKept DEF IInv, SinglesInv, BatchInv, WorkInv

LEMMA ExecuteTaskStep == ASSUME NEW m \in Messages PROVE IInv /\ ExecuteTask(m) => IInv'
<1> SUFFICES ASSUME IInv, ExecuteTask(m) PROVE IInv'
  OBVIOUS
<1>1. /\ row' \in [Messages -> Row]
      /\ \A n \in Messages : row'[n].retry = row[n].retry
  BY DEF IInv, TypeOK, ExecuteTask, Row
<1>2. TypeOK'
  BY <1>1 DEF IInv, TypeOK, ExecuteTask, Stale
<1>3. BatchInv' /\ NoNonceSkipped'
  BY <1>1 DEF IInv, BatchInv, NoNonceSkipped, NoncesOfARunDiffer, ExecuteTask
<1>4. SinglesInv' /\ WorkInv'
  BY BatchSinglesKept DEF ExecuteTask
<1>5. QED
  BY <1>2, <1>3, <1>4 DEF IInv

LEMMA FetchStep == IInv /\ Fetch => IInv'
<1> SUFFICES ASSUME IInv, Fetch, NEW page \in Pages, NEW failing \in SUBSET page,
                    \A m \in page : row[m].retry >= MaxRetries => m \in failing,
                    toFail' = failing,
                    accountNonce' = FirstNonce + Cardinality(page \ failing),
                    \E f \in Bijection(page \ failing, FirstNonce .. accountNonce' - 1) :
                      built' = Transactions(f)
             PROVE  IInv'
  BY DEF Fetch
<1> DEFINE entries == page \ failing
<1>2. PICK f \in Bijection(entries, FirstNonce .. accountNonce' - 1) : built' = Transactions(f)
  OBVIOUS
<1>3. /\ entries \subseteq Messages /\ failing \subseteq Messages
      /\ Cardinality(entries) \in Nat
      /\ \A m \in entries : row[m] \in Row /\ row[m].retry < MaxRetries
  <2>1. page \subseteq Messages
    BY DEF Pages, Eligible
  <2>2. IsFiniteSet(entries)
    BY <2>1, MessagesFinite, FS_Subset
  <2>3. QED
    BY <2>1, <2>2, FS_CardinalityType, BoundsType DEF IInv, TypeOK, Row
<1>4. /\ FirstNonce \in Nat
      /\ accountNonce = -1 => FirstNonce = nonce
      /\ accountNonce # -1 => FirstNonce = accountNonce
      /\ accountNonce' \in Nat /\ FirstNonce <= accountNonce'
  BY <1>3 DEF FirstNonce, AccountNonce, IInv, TypeOK
<1> HIDE DEF entries
<1>5. /\ DOMAIN f = entries
      /\ \A m \in entries : f[m] \in Nat /\ FirstNonce <= f[m] /\ f[m] < accountNonce'
      /\ \A m, n \in entries : f[m] = f[n] => m = n
      /\ \A k \in FirstNonce .. accountNonce' - 1 : \E m \in entries : f[m] = k
  <2>1. f \in [entries -> FirstNonce .. accountNonce' - 1] /\ DOMAIN f = entries
    BY <1>2 DEF Bijection, Injection
  <2>2. \A m, n \in entries : f[m] = f[n] => m = n
    BY <1>2, <2>1 DEF Bijection, Injection, IsInjective
  <2>3. \A k \in FirstNonce .. accountNonce' - 1 : \E m \in entries : f[m] = k
    BY <1>2 DEF Bijection, Surjection
  <2>4. \A m \in entries : f[m] \in FirstNonce .. accountNonce' - 1
    BY <2>1
  <2>5. ASSUME NEW m \in entries PROVE f[m] \in Nat /\ FirstNonce <= f[m] /\ f[m] < accountNonce'
    <3>1. f[m] \in FirstNonce .. accountNonce' - 1
      BY <2>4
    <3>2. QED
      BY <1>4, <3>1
  <2>6. QED
    BY <2>1, <2>2, <2>3, <2>5
<1> DEFINE ofMessage(m) == [job |-> m, nonce |-> f[m], try |-> row[m].retry + 1, late |-> FALSE]
<1>6. built' = {ofMessage(m) : m \in entries}
  BY <1>2, <1>5 DEF Transactions
<1>7. built' \subseteq Tx
  <2> SUFFICES ASSUME NEW tx \in built' PROVE tx \in Tx
    OBVIOUS
  <2>1. PICK m \in entries : tx = ofMessage(m)
    BY <1>6
  <2>2. m \in Jobs /\ f[m] \in Nat /\ row[m].retry + 1 \in Nat
    BY <1>3, <1>5, <2>1, BoundsType DEF Jobs, Row
  <2>3. QED
    BY <2>1, <2>2 DEF Tx
<1>8. TypeOK'
  BY <1>3, <1>4, <1>7 DEF IInv, TypeOK, Fetch, Stale
<1>9. BatchInv'
  <2>1. \A n \in unbroken : n < FirstNonce
    BY <1>4 DEF IInv, BatchInv
  <2>2. ASSUME NEW tx \in built'
        PROVE  /\ tx.nonce \in Nat /\ FirstNonce <= tx.nonce /\ tx.nonce < accountNonce'
               /\ tx.job \in Messages /\ row[tx.job].retry < MaxRetries
    <3>1. PICK m \in entries : tx = ofMessage(m)
      BY <1>6
    <3>2. QED
      BY <1>3, <1>5, <3>1
  <2>3. ASSUME NEW t \in built', NEW u \in built', t.nonce = u.nonce PROVE t = u
    <3>1. PICK m \in entries, n \in entries : t = ofMessage(m) /\ u = ofMessage(n)
      BY <1>6
    <3>2. m = n
      BY <1>5, <2>3, <3>1
    <3>3. QED
      BY <3>1, <3>2
  <2>4. NoncesOfARunDiffer'
    BY <1>4, <2>1, <2>2, <2>3 DEF NoncesOfARunDiffer, Fetch, IInv, TypeOK
  <2>5. \A n \in unbroken' : n < accountNonce'
    BY <1>4, <2>1 DEF Fetch, IInv, TypeOK
  <2>6. accountNonce' # -1 /\ bpc' = "send"
    BY <1>4 DEF Fetch
  <2>7. row' = row
    BY DEF Fetch
  <2>8. QED
    BY <2>2, <2>4, <2>5, <2>6, <2>7 DEF BatchInv
<1>10. NoNonceSkipped'
  <2> SUFFICES ASSUME NEW n \in nonce .. accountNonce' - 1
               PROVE  \E tx \in pool \cup built' : tx.nonce = n
    BY DEF NoNonceSkipped, Fetch
  <2>1. CASE n < FirstNonce
    BY <1>4, <2>1 DEF IInv, NoNonceSkipped, BatchInv, Fetch, TypeOK
  <2>2. CASE n >= FirstNonce
    <3>1. n \in FirstNonce .. accountNonce' - 1
      BY <1>4, <2>2 DEF IInv, TypeOK
    <3>2. PICK m \in entries : f[m] = n
      BY <1>5, <3>1
    <3>3. ofMessage(m) \in built'
      BY <1>6
    <3>4. QED
      BY <3>2, <3>3
  <2>3. QED
    BY <1>4, <2>1, <2>2 DEF IInv, TypeOK
<1>11. SinglesInv' /\ WorkInv'
  BY BatchSinglesKept DEF Fetch
<1>12. QED
  BY <1>8, <1>9, <1>10, <1>11 DEF IInv

(* The nonce is to be read again.                                          *)
LEMMA NullKept ==
  ASSUME IInv, accountNonce' = -1, unbroken' = {}, built' = {}
  PROVE  BatchInv' /\ NoNonceSkipped'
  BY DEF IInv, BatchInv, NoNonceSkipped, NoncesOfARunDiffer

LEMMA FetchEndsStep == IInv /\ FetchEnds => IInv'
<1> SUFFICES ASSUME IInv, FetchEnds PROVE IInv'
  OBVIOUS
<1>1. TypeOK'
  BY DEF IInv, TypeOK, FetchEnds, RunEnds, Stale
<1>2. SinglesInv' /\ WorkInv'
  BY BatchSinglesKept DEF FetchEnds
<1>3. QED
  BY <1>1, <1>2, NullKept DEF IInv, FetchEnds, RunEnds

LEMMA AbortStep == IInv /\ Abort => IInv'
<1> SUFFICES ASSUME IInv, Abort PROVE IInv'
  OBVIOUS
<1>1. TypeOK'
  BY DEF IInv, TypeOK, Abort, RunEnds, Fault, Stale
<1>2. SinglesInv' /\ WorkInv'
  BY BatchSinglesKept DEF Abort
<1>3. QED
  BY <1>1, <1>2, NullKept DEF IInv, Abort, RunEnds

LEMMA SendStep == IInv /\ Send => IInv'
<1> SUFFICES ASSUME IInv, bpc = "send", NEW sent \in SUBSET built,
                    IF \A tx \in built \ sent : Stale(tx) THEN UNCHANGED faults ELSE Fault,
                    Pooled(sent), Saved(sent), NullUnlessSent(sent), PageDone,
                    UNCHANGED <<ledger, singles>>
             PROVE  IInv'
  BY DEF Send
<1>1. sent \in SUBSET Tx
  BY DEF IInv, TypeOK
<1>2. /\ pool \subseteq pool' /\ pool' \subseteq pool \cup sent
      /\ pool' \subseteq Tx /\ \A t \in pool' : ~Stale(t)'
      /\ \A t \in sent : t.nonce >= nonce => t \in pool'
  BY <1>1, PooledType DEF IInv
<1>3. row' \in [Messages -> Row] /\ recent' \subseteq Messages
  <2> SUFFICES ASSUME NEW m \in Messages
               PROVE  row'[m] \in Row
    <3>1. JobsOf(built) \subseteq Messages
      BY DEF IInv, BatchInv, JobsOf
    <3>2. \A n \in Messages : row'[n] \in Row
      OBVIOUS
    <3>3. QED
      BY <3>1, <3>2 DEF Saved, IInv, TypeOK
  <2>1. m \in JobsOf(built) => row[m].retry < MaxRetries
    BY DEF IInv, BatchInv, JobsOf
  <2>2. JobsOf(sent) \subseteq JobsOf(built) /\ JobsOf(built) \subseteq Messages
    BY DEF IInv, BatchInv, JobsOf
  <2>3. row[m] \in Row
    BY DEF IInv, TypeOK
  <2>4. row[m].retry \in 0 .. MaxRetries /\ row[m].status \in {"absent", "PENDING", "SUCCESS", "FAILED"}
    BY <2>3 DEF Row
  <2>5. row'[m].retry \in 0 .. MaxRetries
    BY <2>1, <2>2, <2>4, BoundsType DEF Saved, Unsent
  <2>6. QED
    BY <2>2, <2>4, <2>5 DEF Saved, Row
<1>4. /\ accountNonce' \in Nat \cup {-1} /\ unbroken' \subseteq Nat /\ faults' \in Nat
      /\ built' = {} /\ toFail' = {} /\ bpc' = "fetch"
  <2>1. {tx.nonce : tx \in sent} \subseteq Nat
    BY <1>1 DEF Tx
  <2>2. accountNonce' \in Nat \cup {-1} /\ unbroken' \subseteq Nat
    BY <2>1 DEF IInv, TypeOK, NullUnlessSent
  <2>3. faults' \in Nat
    BY DEF IInv, TypeOK, Fault
  <2>4. QED
    BY <2>2, <2>3 DEF PageDone
<1>5. TypeOK'
  BY <1>2, <1>3, <1>4 DEF IInv, TypeOK, Stale
<1>6. BatchInv' /\ NoNonceSkipped'
  <2>1. CASE sent = built
    <3>1. UNCHANGED accountNonce /\ unbroken' = unbroken \cup {t.nonce : t \in built}
      BY <2>1 DEF NullUnlessSent
    <3>2. BatchInv'
      BY <1>4, <3>1 DEF IInv, BatchInv, NoncesOfARunDiffer, TypeOK
    <3>3. NoNonceSkipped'
      <4> SUFFICES ASSUME accountNonce # -1, NEW n \in nonce .. accountNonce - 1
                   PROVE  \E t \in pool' : t.nonce = n
        BY <1>4, <3>1 DEF NoNonceSkipped
      <4>1. PICK t \in pool \cup built : t.nonce = n
        BY DEF IInv, NoNonceSkipped
      <4>2. t \in pool'
        BY <1>2, <2>1, <4>1 DEF IInv, TypeOK
      <4>3. QED
        BY <4>1, <4>2
    <3>4. QED
      BY <3>2, <3>3
  <2>2. CASE sent # built
    BY <1>4, <2>2, NullKept DEF NullUnlessSent
  <2>3. QED
    BY <2>1, <2>2
<1>7. SinglesInv' /\ WorkInv'
  BY <1>2, BatchSinglesKept
<1>8. QED
  BY <1>5, <1>6, <1>7 DEF IInv

LEMMA SendNullStep == IInv /\ SendNull => IInv'
<1> SUFFICES ASSUME IInv, SendNull PROVE IInv'
  OBVIOUS
<1>1. PICK sent \in SUBSET built : Pooled(sent)
  BY DEF SendNull
<1>2. /\ pool' \subseteq pool \cup sent
      /\ pool' \subseteq Tx /\ \A t \in pool' : ~Stale(t)'
  BY <1>1, PooledType DEF IInv, TypeOK, SendNull
<1>3. row' \in [Messages -> Row]
  BY DEF SendNull, IInv, TypeOK, Row
<1>4. TypeOK'
  BY <1>2, <1>3 DEF IInv, TypeOK, SendNull, PageDone, Fault, Stale
<1>5. SinglesInv' /\ WorkInv'
  BY <1>2, BatchSinglesKept DEF SendNull
<1>6. QED
  BY <1>4, <1>5, NullKept DEF IInv, SendNull, PageDone
------------------------------------------------------------------------------
(* The network.                                                            *)

LEMMA ExecuteStep == IInv /\ Execute => IInv'
<1> SUFFICES ASSUME IInv, NEW tx \in pool, tx.nonce = nonce, nonce' = nonce + 1,
                    \/ UNCHANGED <<row, succeeded>>
                    \/ /\ tx.job \in Messages /\ row' = [row EXCEPT ![tx.job].status = "SUCCESS"]
                       /\ UNCHANGED succeeded
                    \/ /\ tx.job \in Tasks /\ succeeded' = succeeded \cup {tx}
                       /\ UNCHANGED row,
                    pool' = {t \in pool : t.nonce > tx.nonce},
                    UNCHANGED <<accountNonce, bpc, built, toFail, recent, unbroken, singles, faults>>
             PROVE  IInv'
  BY DEF Execute
<1>1. /\ tx \in Tx /\ nonce \in Nat /\ pool \subseteq Tx /\ succeeded \subseteq Tx
      /\ \A t \in succeeded : t.nonce < nonce
  BY DEF IInv, TypeOK, Stale
<1>2. /\ row' \in [Messages -> Row]
      /\ \A m \in Messages : row'[m].retry = row[m].retry
  BY DEF IInv, TypeOK, Row
<1>3. /\ succeeded' \subseteq succeeded \cup {tx}
      /\ tx \in succeeded' => tx.job \notin Messages \/ tx \in succeeded
  <2>1. tx.job \in Tasks => tx.job \notin Messages
    BY JobsDistinct
  <2>2. QED
    BY <2>1
<1>4. TypeOK'
  <2>1. /\ pool' \subseteq Tx /\ \A t \in pool' : ~Stale(t)'
        /\ succeeded' \subseteq Tx /\ \A t \in succeeded' : Stale(t)'
        /\ nonce' \in Nat
    BY <1>1, <1>3 DEF Stale, Tx
  <2>2. QED
    BY <1>2, <2>1 DEF IInv, TypeOK
<1>5. BatchInv'
  BY <1>2 DEF IInv, BatchInv, NoncesOfARunDiffer
<1>6. NoNonceSkipped'
  <2> SUFFICES ASSUME accountNonce # -1, NEW n \in nonce' .. accountNonce - 1
               PROVE  \E t \in pool' \cup built : t.nonce = n
    BY DEF NoNonceSkipped
  <2>1. n \in nonce .. accountNonce - 1 /\ n > nonce
    BY <1>1 DEF IInv, TypeOK
  <2>2. QED
    BY <2>1 DEF IInv, NoNonceSkipped
<1>7. SinglesInv'
  <2>1. ASSUME NEW u \in Tx, Informed(u) PROVE Informed(u)'
    BY <1>1, <1>3, <2>1 DEF Informed, Tx
  <2>2. \A u \in succeeded' : Informed(u)
    BY <1>3 DEF IInv, SinglesInv
  <2>3. \A t, u \in succeeded' : t # u => t.nonce # u.nonce
    BY <1>1, <1>3 DEF IInv, SinglesInv, Tx
  <2>4. succeeded' \subseteq Tx /\ \A s \in Senders : hold'[s] \subseteq Tx
    BY <1>4 DEF IInv, TypeOK
  <2>5. \A s \in Senders : \A u \in hold'[s] : Informed(u)
    BY DEF IInv, SinglesInv
  <2>6. \A u \in pool' : u \in Tx /\ (u.job \notin Messages => Informed(u))
    BY <1>1 DEF IInv, SinglesInv
  <2>7. QED
    BY <2>1, <2>2, <2>3, <2>4, <2>5, <2>6 DEF SinglesInv
<1>8. WorkInv'
  BY DEF IInv, WorkInv
<1>9. QED
  BY <1>4, <1>5, <1>6, <1>7, <1>8 DEF IInv

LEMMA InitIInv == Init => IInv
<1> SUFFICES ASSUME Init PROVE IInv
  OBVIOUS
<1>1. TypeOK
  BY TasksType, BoundsType DEF Init, TypeOK, Row, Stale
<1>2. BatchInv /\ NoNonceSkipped
  BY DEF Init, BatchInv, NoNonceSkipped, NoncesOfARunDiffer
<1>3. SinglesInv /\ WorkInv
  BY DEF Init, SinglesInv, WorkInv, Senders
<1>4. QED
  BY <1>1, <1>2, <1>3 DEF IInv

LEMMA NextIInv == IInv /\ [Next]_vars => IInv'
<1> SUFFICES ASSUME IInv, [Next]_vars PROVE IInv'
  OBVIOUS
<1>1. CASE HandleNewTasks
  BY <1>1, TaskReadsStep, TaskSendsStep, TaskThrowsStep, ExecuteTaskStep DEF HandleNewTasks
<1>2. CASE HandlePending
  BY <1>2, ResendReadsStep, ResendSendsStep, ResendThrowsStep, AwaitStep DEF HandlePending
<1>3. CASE GasChecker
  BY <1>3, CollectReadsStep, CollectSendsStep DEF GasChecker
<1>4. CASE ExecuteMessages
  BY <1>4, FetchStep, FetchEndsStep, SendStep, SendNullStep, AbortStep DEF ExecuteMessages
<1>5. CASE Execute
  BY <1>5, ExecuteStep
<1>6. CASE UNCHANGED vars
  <2>1. TypeOK'
    BY <1>6 DEF vars, IInv, TypeOK, Stale
  <2>2. BatchInv' /\ NoNonceSkipped'
    BY <1>6, BatchKept DEF vars
  <2>3. SinglesInv' /\ WorkInv'
    BY <1>6, BatchSinglesKept DEF vars
  <2>4. QED
    BY <2>1, <2>2, <2>3 DEF IInv
<1>7. QED
  BY <1>1, <1>2, <1>3, <1>4, <1>5, <1>6 DEF Next

(* Every reachable state satisfies the inductive invariant.                *)
THEOREM Inductive == Spec => []IInv
  BY InitIInv, NextIInv, PTL DEF Spec

(* Every variable keeps its type, retries stay below their limit, and only *)
(* transactions whose nonce is not used wait in the network.               *)
THEOREM TypeCorrect == Spec => []TypeOK
<1>1. IInv => TypeOK
  BY DEF IInv
<1>2. QED
  BY <1>1, Inductive, PTL

(* Counting nonces over pages, over entries that are not built and over    *)
(* failed sends, the batch cron leaves no nonce out, whatever the other    *)
(* senders of the wallet do meanwhile.                                     *)
THEOREM NoneSkipped == Spec => []NoNonceSkipped
<1>1. IInv => NoNonceSkipped
  BY DEF IInv
<1>2. QED
  BY <1>1, Inductive, PTL

(* From one reading of the wallet's nonce to the next, over the pages in   *)
(* between, the batch cron gives no nonce twice. It says nothing of what   *)
(* was sent before that reading and still waits: accountNonce is null      *)
(* after anything that was not sent, and in every new run, and the nonce   *)
(* read then may be that of a transaction that waits.                      *)
THEOREM NoncesDiffer == Spec => []NoncesOfARunDiffer
<1>1. IInv => NoncesOfARunDiffer
  BY DEF IInv, BatchInv
<1>2. QED
  BY <1>1, Inductive, PTL

(* However often the transaction of a task is sent again, two of them      *)
(* succeed only when the nonce of the second was read after the first had  *)
(* succeeded.                                                              *)
THEOREM OnlyLateSucceedTwice == Spec => []OnlyLateOnesSucceedTwice
<1>1. IInv => OnlyLateOnesSucceedTwice
  <2> SUFFICES ASSUME IInv, NEW t \in succeeded, NEW u \in succeeded,
                      t # u, t.job = u.job, t.nonce <= u.nonce
               PROVE  u.late
    BY DEF OnlyLateOnesSucceedTwice
  <2>1. t.nonce \in Nat /\ u.nonce \in Nat /\ t.nonce # u.nonce
    BY DEF IInv, TypeOK, SinglesInv, Tx
  <2>2. QED
    BY <2>1 DEF IInv, SinglesInv, Informed
<1>2. QED
  BY <1>1, Inductive, PTL
================================================================================
