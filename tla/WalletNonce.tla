------------------------------ MODULE WalletNonce ------------------------------
(***************************************************************************)
(* One wallet, four senders in two processes: the cron over new tasks and  *)
(* the one over pending transactions (ApprovalsProcessorService), the cron *)
(* over approved messages (MessageApprovedProcessorService) and the gas    *)
(* checker (GasCheckerService). Nothing is shared between them but the     *)
(* nonce of the wallet on chain, which each reads before it signs.         *)
(*                                                                         *)
(* The other modules have each sender's own errors and restarts; here are  *)
(* the nonces, the transactions waiting for their turn, and the faults     *)
(* that leave a hole between them.                                         *)
(***************************************************************************)
EXTENDS Integers, FiniteSets, Functions

CONSTANTS
  Messages,   \* rows of message_approved
  NumTasks,   \* tasks that send a transaction, in the order GMP serves them
  Refunds,    \* those that are refunds; the others are gateway transactions
  Collect,    \* what the gas checker sends
  Take,       \* page size of findPending, 10 in the code
  MaxRetries, \* MAX_NUMBER_OF_RETRIES, 3 in the code
  MaxFaults   \* bound: transactions refused, answers lost, batches cut off

Tasks == 1 .. NumTasks
Jobs  == Messages \cup Tasks \cup {Collect}

ASSUME MessagesFinite == IsFiniteSet(Messages)
ASSUME TasksType == NumTasks \in Nat /\ Refunds \subseteq Tasks
ASSUME JobsDistinct == Messages \cap (Tasks \cup {Collect}) = {} /\ Collect \notin Tasks
ASSUME BoundsType == Take \in Nat \ {0} /\ MaxRetries \in Nat \ {0} /\ MaxFaults \in Nat

VARIABLES
  nonce,        \* of the wallet on chain: its transactions executed so far
  succeeded,    \* transactions of tasks that succeeded
  pool,         \* those the network holds until their nonce is next
  accountNonce, \* of the batch cron, -1 for null
  bpc,          \* the batch cron: "idle", "fetch" the next page, or "send"
  built,        \* transactionsToSend
  toFail,       \* entries of the page to be saved as FAILED
  row,          \* per message, its status and retry
  recent,       \* messages whose row was updated in this run of the cron
  unbroken,     \* the nonces the batch cron sent since it last read one
  saved,        \* tasks processed
  tracked,      \* gateway transactions followed in Redis
  toResend,     \* the entry whose transaction is sent again
  collects,     \* transactions of the gas checker so far
  hold,         \* per single sender, the job and the nonce it has read
  faults        \* faults so far

ledger  == <<nonce, succeeded>>
network == <<ledger, pool>>
rows    == <<row, recent>>
batch   == <<accountNonce, bpc, built, toFail, rows, unbroken>>
singles == <<saved, tracked, toResend, collects, hold>>
vars    == <<network, batch, singles, faults>>

Senders == {"newTasks", "pending", "gasChecker"}

(* try: which one of the job, as its gas differs with each. late: a        *)
(* transaction of the job had succeeded when the nonce was read.           *)
Tx == [job : Jobs, nonce : Nat, try : Nat, late : BOOLEAN]

Init ==
  /\ nonce = 0 /\ succeeded = {} /\ pool = {}
  /\ accountNonce = -1 /\ bpc = "idle" /\ built = {} /\ toFail = {}
  /\ row = [m \in Messages |-> [status |-> "absent", retry |-> 0]]
  /\ recent = {} /\ unbroken = {}
  /\ saved = 0 /\ tracked = {} /\ toResend = {} /\ collects = 0
  /\ hold = [s \in Senders |-> {}]
  /\ faults = 0

Fault == faults < MaxFaults /\ faults' = faults + 1

(* Variant: the nonce counts the transactions that wait.                   *)
AccountNonceWithPool == nonce + Cardinality(pool)

(* The nonce of the account, which transactions that wait do not change.   *)
AccountNonce == nonce

(* A transaction whose nonce was used is refused, or dropped unexecuted.   *)
Stale(tx) == tx.nonce < nonce

Pooled(txs) == pool' = pool \cup {tx \in txs : ~Stale(tx)}

------------------------------------------------------------------------------
(* Single senders: the nonce is read, then the transaction is sent.        *)

Reads(s, job, try) ==
  /\ hold[s] = {}
  /\ hold' = [hold EXCEPT ![s] = {[job |-> job, nonce |-> AccountNonce, try |-> try,
                                  late |-> \E tx \in succeeded : tx.job = job]}]

Releases(s) == hold' = [hold EXCEPT ![s] = {}]

(* processTask, up to the nonce.                                           *)
TaskReads ==
  /\ saved < NumTasks /\ Reads("newTasks", saved + 1, 1)
  /\ UNCHANGED <<network, batch, saved, tracked, toResend, collects, faults>>

(* The transaction is sent, stored in Redis unless it is a refund, and the *)
(* task saved.                                                             *)
TaskSends ==
  \E tx \in hold["newTasks"] :
    /\ Releases("newTasks")
    /\ Pooled({tx})
    /\ saved' = saved + 1
    /\ tracked' = IF tx.job \in Refunds THEN tracked
                  ELSE tracked \cup {[tx |-> tx, retry |-> 1]}
    /\ UNCHANGED <<ledger, batch, toResend, collects, faults>>

(* Sending throws, because the nonce is used or the answer was lost: the   *)
(* same task comes again.                                                  *)
TaskThrows ==
  \E tx \in hold["newTasks"] :
    /\ Releases("newTasks")
    /\ \/ Stale(tx) /\ UNCHANGED <<pool, faults>>
       \/ Fault /\ (Pooled({tx}) \/ UNCHANGED pool)
    /\ UNCHANGED <<ledger, batch, saved, tracked, toResend, collects>>

(* Variant: a transaction is sent again however often it was before.       *)
AwaitWithoutLimit(e) ==
  /\ e \in tracked /\ toResend = {}
  /\ tracked' = tracked \ {e}
  /\ \/ e.tx \in succeeded /\ UNCHANGED <<toResend, faults>>
     \/ /\ IF e.tx \in succeeded THEN Fault ELSE UNCHANGED faults
        /\ toResend' = {e}
  /\ UNCHANGED <<network, batch, saved, collects, hold>>

(* getDel and awaitSuccess of one entry. A transaction that waits makes    *)
(* the watcher time out; one that succeeded is denied only by a fault.     *)
Await(e) ==
  /\ e \in tracked /\ toResend = {}
  /\ tracked' = tracked \ {e}
  /\ \/ e.tx \in succeeded /\ UNCHANGED <<toResend, faults>>
     \/ /\ IF e.tx \in succeeded THEN Fault ELSE UNCHANGED faults
        /\ toResend' = IF e.retry = MaxRetries THEN {} ELSE {e}
  /\ UNCHANGED <<network, batch, saved, collects, hold>>

ResendReads ==
  /\ \E e \in toResend : Reads("pending", e.tx.job, e.retry + 1)
  /\ UNCHANGED <<network, batch, saved, tracked, toResend, collects, faults>>

ResendSends ==
  \E tx \in hold["pending"], e \in toResend :
    /\ Releases("pending")
    /\ Pooled({tx})
    /\ tracked' = tracked \cup {[tx |-> tx, retry |-> e.retry + 1]} /\ toResend' = {}
    /\ UNCHANGED <<ledger, batch, saved, collects, faults>>

(* The old entry is set back.                                              *)
ResendThrows ==
  \E tx \in hold["pending"] :
    /\ Releases("pending")
    /\ \/ Stale(tx) /\ UNCHANGED <<pool, faults>>
       \/ Fault /\ (Pooled({tx}) \/ UNCHANGED pool)
    /\ tracked' = tracked \cup toResend /\ toResend' = {}
    /\ UNCHANGED <<ledger, batch, saved, collects>>

(* collectFees or unwrapRewa.                                              *)
CollectReads ==
  /\ collects = 0 /\ Reads("gasChecker", Collect, 1)
  /\ UNCHANGED <<network, batch, saved, tracked, toResend, collects, faults>>

CollectSends ==
  \E tx \in hold["gasChecker"] :
    /\ Releases("gasChecker")
    /\ Pooled({tx})
    /\ collects' = collects + 1
    /\ UNCHANGED <<ledger, batch, saved, tracked, toResend, faults>>

------------------------------------------------------------------------------
(* processPendingMessageApproved                                           *)

(* The EXECUTE task of a message is processed.                             *)
ExecuteTask(m) ==
  /\ row[m].status = "absent"
  /\ row' = [row EXCEPT ![m].status = "PENDING"]
  /\ UNCHANGED <<network, accountNonce, bpc, built, toFail, recent, unbroken, singles, faults>>

Eligible == {m \in Messages : /\ row[m].status = "PENDING"
                              /\ row[m].retry = 0 \/ m \notin recent}

Pages == {p \in SUBSET Eligible :
            /\ p # {}
            /\ Cardinality(p) = Take \/ (p = Eligible /\ Cardinality(p) < Take)}

(* The transactions of a page, given the nonce of each.                    *)
Transactions(f) ==
  {[job |-> m, nonce |-> f[m], try |-> row[m].retry + 1, late |-> FALSE] : m \in DOMAIN f}

(* Variant: the nonce is read again for every page.                        *)
FirstNonceReadAgain == AccountNonce

(* The nonce is read for the first page, and when it was set to null.      *)
FirstNonce == IF accountNonce = -1 THEN AccountNonce ELSE accountNonce

(* findPending, and the loop over its entries: those without a retry left  *)
(* and those whose gas is not paid for (NotEnoughGasError) are to become   *)
(* FAILED, and accountNonce++ follows the build of each of the others.     *)
Fetch ==
  /\ bpc \in {"idle", "fetch"}
  /\ \E page \in Pages : \E failing \in SUBSET page :
       /\ \A m \in page : row[m].retry >= MaxRetries => m \in failing
       /\ toFail' = failing
       /\ accountNonce' = FirstNonce + Cardinality(page \ failing)
       /\ \E f \in Bijection(page \ failing, FirstNonce .. accountNonce' - 1) : built' = Transactions(f)
  /\ bpc' = "send"
  /\ UNCHANGED <<network, rows, unbroken, singles, faults>>

(* The variables of the run are gone, and a minute passes over its rows.   *)
RunEnds ==
  /\ bpc' = "idle" /\ built' = {} /\ toFail' = {}
  /\ recent' = {} /\ unbroken' = {} /\ accountNonce' = -1

(* No entries are left.                                                    *)
FetchEnds ==
  /\ bpc = "fetch" /\ Eligible = {}
  /\ RunEnds
  /\ UNCHANGED <<network, row, singles, faults>>

Unsent(n) == IF n = 0 THEN 1 ELSE n

JobsOf(txs) == {tx.job : tx \in txs}

(* What updateManyPartial saves when sendTransactions answers hashes. The  *)
(* status is the one that findPending read, whatever became of the row.    *)
Saved(sent) ==
  /\ row' = [m \in Messages |->
       [status |-> IF m \in toFail THEN "FAILED"
                   ELSE IF m \in JobsOf(built) THEN "PENDING" ELSE row[m].status,
        retry  |-> IF m \in JobsOf(sent) THEN row[m].retry + 1
                   ELSE IF m \in JobsOf(built) THEN Unsent(row[m].retry)
                   ELSE row[m].retry]]
  /\ recent' = recent \cup JobsOf(built)

PageDone == bpc' = "fetch" /\ built' = {} /\ toFail' = {}

(* Variant: the nonce is not read again after an unsent transaction.       *)
NullUnlessSentNever(sent) ==
  unbroken' = unbroken \cup {tx.nonce : tx \in sent} /\ UNCHANGED accountNonce

(* "re-retrieve account nonce in case not all transactions were sent"      *)
NullUnlessSent(sent) ==
  IF sent = built
  THEN unbroken' = unbroken \cup {tx.nonce : tx \in sent} /\ UNCHANGED accountNonce
  ELSE unbroken' = {} /\ accountNonce' = -1

(* sendTransactions answers the hashes of those it took. Without a fault   *)
(* it takes all whose nonce is not used.                                   *)
Send ==
  /\ bpc = "send"
  /\ \E sent \in SUBSET built :
       /\ IF \A tx \in built \ sent : Stale(tx) THEN UNCHANGED faults ELSE Fault
       /\ Pooled(sent) /\ Saved(sent) /\ NullUnlessSent(sent)
  /\ PageDone
  /\ UNCHANGED <<ledger, singles>>

(* sendTransactions answers null: nothing was sent, or some of it and the  *)
(* answer was lost. Entries with a transaction are not saved.              *)
SendNull ==
  /\ bpc = "send" /\ built # {} /\ Fault
  /\ \E sent \in SUBSET built : Pooled(sent)
  /\ row' = [m \in Messages |-> [row[m] EXCEPT !.status = IF m \in toFail THEN "FAILED" ELSE @]]
  /\ accountNonce' = -1 /\ unbroken' = {}
  /\ PageDone
  /\ UNCHANGED <<ledger, recent, singles>>

(* An entry throws, or the process stops: the run ends with nothing sent.  *)
Abort ==
  /\ bpc = "send" /\ Fault
  /\ RunEnds
  /\ UNCHANGED <<network, row, singles>>

------------------------------------------------------------------------------
(* The network executes a transaction whose nonce is next, and drops the   *)
(* others that have it. The row of an executed message becomes SUCCESS;    *)
(* nobody looks at the outcome of a refund, which is paid all the same.    *)
Execute ==
  \E tx \in pool :
    /\ tx.nonce = nonce
    /\ nonce' = nonce + 1
    /\ \/ UNCHANGED <<row, succeeded>>
       \/ tx.job \in Messages /\ row' = [row EXCEPT ![tx.job].status = "SUCCESS"]
          /\ UNCHANGED succeeded
       \/ tx.job \in Tasks /\ succeeded' = succeeded \cup {tx} /\ UNCHANGED row
    /\ pool' = {t \in pool : t.nonce > tx.nonce}
    /\ UNCHANGED <<accountNonce, bpc, built, toFail, recent, unbroken, singles, faults>>

------------------------------------------------------------------------------
HandleNewTasks == TaskReads \/ TaskSends \/ TaskThrows \/ \E m \in Messages : ExecuteTask(m)
HandlePending  == ResendReads \/ ResendSends \/ ResendThrows \/ \E e \in tracked : Await(e)
GasChecker     == CollectReads \/ CollectSends
ExecuteMessages == Fetch \/ FetchEnds \/ Send \/ SendNull \/ Abort

Next == HandleNewTasks \/ HandlePending \/ GasChecker \/ ExecuteMessages \/ Execute

Spec == Init /\ [][Next]_vars

------------------------------------------------------------------------------
Row == [status : {"absent", "PENDING", "SUCCESS", "FAILED"}, retry : 0 .. MaxRetries]

(* The type of every variable; what waits in the network has a nonce that  *)
(* is not used, what was executed has one that is.                         *)
TypeOK ==
  /\ nonce \in Nat /\ succeeded \subseteq Tx /\ \A tx \in succeeded : Stale(tx)
  /\ pool \subseteq Tx /\ \A tx \in pool : ~Stale(tx)
  /\ accountNonce \in Nat \cup {-1}
  /\ bpc \in {"idle", "fetch", "send"} /\ (bpc = "send" => accountNonce # -1)
  /\ recent \cup toFail \subseteq Messages
  /\ built \subseteq Tx /\ unbroken \subseteq Nat
  /\ row \in [Messages -> Row]
  /\ saved \in 0 .. NumTasks /\ collects \in Nat
  /\ tracked \cup toResend \subseteq [tx : Tx, retry : 1 .. MaxRetries]
  /\ hold \in [Senders -> SUBSET Tx]
  /\ faults \in Nat

(* The nonces the batch cron counts up by itself, over entries that are    *)
(* not built, over pages and over what the others send meanwhile, skip     *)
(* none that is free: what it builds next either closes the first hole in  *)
(* the nonces that wait, or follows them ("re-retrieve account nonce in    *)
(* case not all transactions were successfully sent").                     *)
NoNonceSkipped ==
  accountNonce # -1 => \A n \in nonce .. accountNonce - 1 :
                         \E tx \in pool \cup built : tx.nonce = n

(* Between two readings of the nonce the batch cron does not compete with  *)
(* itself: what it builds has a nonce of its own, also with respect to     *)
(* what it sent on earlier pages since it last read one. With the next     *)
(* reading, after anything unsent or in a new run, it may come upon a      *)
(* nonce it has used, when that transaction still waits.                   *)
NoncesOfARunDiffer ==
  /\ \A tx \in built : tx.nonce \notin unbroken
  /\ \A t, u \in built : t # u => t.nonce # u.nonce

(* A transaction that is sent again after the watcher timed out shares its *)
(* nonce with the one that still waits, so that only one of them can be    *)
(* executed: two of a task succeed only when the first had succeeded       *)
(* before the nonce of the second was read. So it is, too, for a task that *)
(* comes again because its transaction was sent but the answer lost; a     *)
(* refund is not paid twice while the first one waits.                     *)
OnlyLateOnesSucceedTwice ==
  \A t, u \in succeeded : t # u /\ t.job = u.job /\ t.nonce <= u.nonce => u.late
================================================================================
