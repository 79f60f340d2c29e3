--------------------------- MODULE ApprovalsProcessor ---------------------------
(***************************************************************************)
(* The axelar-event-processor: the cron that takes tasks from the Axelar   *)
(* GMP API in order and remembers how far it got (handleNewTasks), and the *)
(* cron that follows the gateway transactions it sent and sends them again *)
(* (handlePendingTransactions). They run in one process, under different   *)
(* locks, and share Redis: every await is a point where the other may step. *)
(*                                                                         *)
(* Tasks are numbered in the order GMP serves them. An EXECUTE task only   *)
(* counts here; what becomes of its row is in MessageApprovedProcessor.    *)
(***************************************************************************)
EXTENDS Integers, Sequences, FiniteSets

CONSTANTS
  NumTasks,   \* tasks GMP will ever serve
  Type,       \* the type of each task
  PageSize,   \* tasks in one answer of GMP, 10 in the code
  MaxRetries, \* MAX_NUMBER_OF_RETRIES, 3 in the code
  MaxFaults   \* bound: crashes, failed requests and expired keys explored

Tasks == 1 .. NumTasks

ASSUME NumTasksType == NumTasks \in Nat
ASSUME TypeType == Type \in [Tasks -> {"GATEWAY_TX", "EXECUTE", "REFUND", "OTHER"}]
ASSUME PageSizeType == PageSize \in Nat \ {0}
ASSUME MaxRetriesType == MaxRetries \in Nat \ {0}
ASSUME MaxFaultsType == MaxFaults \in Nat

VARIABLES
  available,  \* tasks GMP serves so far
  saved,      \* LAST_TASK_ID in the database, 0 when there is none
  pc,         \* handleNewTasks: "idle", "ask", "task", "track" or "save"
  last,       \* its lastTaskUUID
  upTo,       \* the last task of the page it holds
  newTx,      \* the transaction it sent and has not stored in Redis yet
  redis,      \* the PendingTransaction entries
  hpc,        \* handlePendingTransactions: "idle", "scan", "await", "resend",
              \* "retrack" or "putback"
  keys,       \* the keys it scanned and has not visited
  cur,        \* the entry it took out of Redis
  retryTx,    \* the transaction it sent and has not stored in Redis yet
  txs,        \* per task, the state of each gateway transaction sent for it
  done,       \* per task, how often its row was stored or its refund sent
  skipped,    \* refunds dropped because the balance did not allow them
  givenUp,    \* gateway tasks dropped after MaxRetries
  forgotten,  \* gateway tasks whose entry a fault lost
  tries,      \* per task, how often handleNewTasks began it
  faults      \* faults so far

newTasks == <<saved, pc, last, upTo, newTx, tries>>
pendings == <<hpc, keys, cur, retryTx>>
outcomes == <<done, skipped, givenUp, forgotten>>
vars     == <<available, newTasks, redis, pendings, txs, outcomes, faults>>

(* A PendingTransaction under the key of its hash: the n-th transaction of *)
(* the task.                                                               *)
PendingTransaction == [task : Tasks, n : Nat \ {0}, retry : 1 .. MaxRetries]

Key(e) == <<e.task, e.n>>

TxStates == {"pending", "success", "failed"}

Init ==
  /\ available = 0 /\ saved = 0
  /\ pc = "idle" /\ last = 0 /\ upTo = 0 /\ newTx = {}
  /\ redis = {}
  /\ hpc = "idle" /\ keys = {} /\ cur = {} /\ retryTx = {}
  /\ txs = [t \in Tasks |-> <<>>]
  /\ done = [t \in Tasks |-> 0]
  /\ skipped = {} /\ givenUp = {} /\ forgotten = {}
  /\ tries = [t \in Tasks |-> 0]
  /\ faults = 0

Fault == faults < MaxFaults /\ faults' = faults + 1

Publish ==
  /\ available < NumTasks
  /\ available' = available + 1
  /\ UNCHANGED <<newTasks, redis, pendings, txs, outcomes, faults>>

------------------------------------------------------------------------------
(* handleNewTasksRaw                                                       *)

Start ==
  /\ pc = "idle" /\ saved < available
  /\ pc' = "ask" /\ last' = saved
  /\ UNCHANGED <<available, saved, upTo, newTx, tries, redis, pendings, txs, outcomes, faults>>

(* Variant: a page that is not full is not processed.                      *)
AskFullPages ==
  /\ pc = "ask"
  /\ IF last + PageSize <= available
     THEN pc' = "task" /\ upTo' = last + PageSize
     ELSE pc' = "idle" /\ UNCHANGED upTo
  /\ UNCHANGED <<available, saved, last, newTx, tries, redis, pendings, txs, outcomes, faults>>

(* getTasks answers the tasks after last, in pages.                        *)
Ask ==
  /\ pc = "ask"
  /\ IF last < available
     THEN /\ pc' = "task"
          /\ upTo' = IF last + PageSize < available THEN last + PageSize ELSE available
     ELSE pc' = "idle" /\ UNCHANGED upTo
  /\ UNCHANGED <<available, saved, last, newTx, tries, redis, pendings, txs, outcomes, faults>>

(* getTasks fails, which ends the cron.                                    *)
AskFails ==
  /\ pc = "ask" /\ Fault
  /\ pc' = "idle"
  /\ UNCHANGED <<available, saved, last, upTo, newTx, tries, redis, pendings, txs, outcomes>>

Current == last + 1

Began == tries' = [tries EXCEPT ![Current] = @ + 1]

SendTx(t) == txs' = [txs EXCEPT ![t] = Append(@, "pending")]

Entry(t, retry) == [task |-> t, n |-> Len(txs[t]) + 1, retry |-> retry]

(* processGatewayTxTask up to the answer of signAndSendTransaction; when   *)
(* the gas cannot be estimated it is sent all the same.                    *)
GatewayTask ==
  /\ pc = "task" /\ Type[Current] = "GATEWAY_TX"
  /\ Began
  /\ SendTx(Current) /\ newTx' = {Entry(Current, 1)}
  /\ pc' = "track"
  /\ UNCHANGED <<available, saved, last, upTo, redis, pendings, outcomes, faults>>

Track ==
  /\ pc = "track"
  /\ redis' = redis \cup newTx /\ newTx' = {}
  /\ pc' = "save"
  /\ UNCHANGED <<available, saved, last, upTo, tries, pendings, txs, outcomes, faults>>

(* redis.set fails: the entry does not reach Redis, which the client says, *)
(* ending the cron before the task is saved, or only logs; or the entry is *)
(* stored, and only the answer is lost.                                    *)
TrackLost ==
  /\ pc = "track" /\ Fault
  /\ newTx' = {}
  /\ \/ UNCHANGED redis /\ forgotten' = forgotten \cup {Current} /\ pc' \in {"idle", "save"}
     \/ redis' = redis \cup newTx /\ UNCHANGED forgotten /\ pc' = "idle"
  /\ UNCHANGED <<available, saved, last, upTo, tries, pendings, txs, done, skipped, givenUp>>

Count == done' = [done EXCEPT ![Current] = @ + 1]

(* processExecuteTask stores the row, processRefundTask sends the refund.  *)
ExecuteOrRefundTask ==
  /\ pc = "task" /\ Type[Current] \in {"EXECUTE", "REFUND"}
  /\ Began /\ Count
  /\ pc' = "save"
  /\ UNCHANGED <<available, saved, last, upTo, newTx, redis, pendings, txs, skipped, givenUp, forgotten, faults>>

(* The gas service cannot pay, or its balance cannot be read: no refund.   *)
RefundSkipped ==
  /\ pc = "task" /\ Type[Current] = "REFUND"
  /\ Began /\ skipped' = skipped \cup {Current}
  /\ pc' = "save"
  /\ UNCHANGED <<available, saved, last, upTo, newTx, redis, pendings, txs, done, givenUp, forgotten, faults>>

UnknownTask ==
  /\ pc = "task" /\ Type[Current] = "OTHER"
  /\ Began
  /\ pc' = "save"
  /\ UNCHANGED <<available, saved, last, upTo, newTx, redis, pendings, txs, outcomes, faults>>

(* processTask throws, and the cron ends. What it had requested may have   *)
(* happened all the same when only the answer was lost.                    *)
TaskFails ==
  /\ pc = "task" /\ Type[Current] # "OTHER" /\ Fault
  /\ Began
  /\ IF Type[Current] = "GATEWAY_TX"
     THEN /\ UNCHANGED done
          /\ \/ UNCHANGED <<txs, forgotten>>
             \/ SendTx(Current) /\ forgotten' = forgotten \cup {Current}
     ELSE /\ UNCHANGED <<txs, forgotten>>
          /\ Count \/ UNCHANGED done
  /\ pc' = "idle"
  /\ UNCHANGED <<available, saved, last, upTo, newTx, redis, pendings, skipped, givenUp>>

(* Variant: the whole page is saved as processed after its first task.     *)
SaveWholePage ==
  /\ pc = "save"
  /\ saved' = upTo /\ last' = upTo
  /\ pc' = "ask"
  /\ UNCHANGED <<available, upTo, newTx, tries, redis, pendings, txs, outcomes, faults>>

(* lastProcessedDataRepository.update, then the next task or page.         *)
Save ==
  /\ pc = "save"
  /\ saved' = Current /\ last' = Current
  /\ pc' = IF Current < upTo THEN "task" ELSE "ask"
  /\ UNCHANGED <<available, upTo, newTx, tries, redis, pendings, txs, outcomes, faults>>

SaveFails ==
  /\ pc = "save" /\ Fault
  /\ saved' \in {saved, Current}
  /\ pc' = "idle"
  /\ UNCHANGED <<available, last, upTo, newTx, tries, redis, pendings, txs, outcomes>>

------------------------------------------------------------------------------
(* handlePendingTransactionsRaw                                            *)

Scan ==
  /\ hpc = "idle" /\ redis # {}
  /\ hpc' = "scan" /\ keys' = {Key(e) : e \in redis}
  /\ UNCHANGED <<available, newTasks, redis, cur, retryTx, txs, outcomes, faults>>

ScanEnds ==
  /\ hpc = "scan" /\ keys = {}
  /\ hpc' = "idle"
  /\ UNCHANGED <<available, newTasks, redis, keys, cur, retryTx, txs, outcomes, faults>>

(* getDel takes the entry out of Redis.                                    *)
GetDel(e) ==
  /\ hpc = "scan" /\ e \in redis /\ Key(e) \in keys
  /\ keys' = keys \ {Key(e)} /\ redis' = redis \ {e} /\ cur' = {e}
  /\ hpc' = "await"
  /\ UNCHANGED <<available, newTasks, retryTx, txs, outcomes, faults>>

(* The key has expired since the scan.                                     *)
GetDelGone(k) ==
  /\ hpc = "scan" /\ k \in keys /\ \A e \in redis : Key(e) # k
  /\ keys' = keys \ {k}
  /\ UNCHANGED <<available, newTasks, redis, hpc, cur, retryTx, txs, outcomes, faults>>

(* getDel swallows its errors: the entry stays, or is deleted unread.      *)
GetDelFails(e) ==
  /\ hpc = "scan" /\ e \in redis /\ Key(e) \in keys /\ Fault
  /\ keys' = keys \ {Key(e)}
  /\ \/ UNCHANGED <<redis, forgotten>>
     \/ redis' = redis \ {e} /\ forgotten' = forgotten \cup {e.task}
  /\ UNCHANGED <<available, newTasks, hpc, cur, retryTx, txs, done, skipped, givenUp>>

AwaitSuccess(e) ==
  /\ hpc = "await" /\ e \in cur /\ txs[e.task][e.n] = "success"
  /\ hpc' = "scan" /\ cur' = {}
  /\ UNCHANGED <<available, newTasks, redis, keys, retryTx, txs, outcomes, faults>>

(* Variant: the retries are not limited.                                   *)
AwaitFalseNoLimit(e) ==
  /\ hpc = "await" /\ e \in cur
  /\ IF txs[e.task][e.n] = "success" THEN Fault ELSE UNCHANGED faults
  /\ hpc' = "resend"
  /\ UNCHANGED <<available, newTasks, redis, keys, cur, retryTx, txs, outcomes>>

(* awaitSuccess answers false: the transaction failed, the watcher timed   *)
(* out, or the request for a successful one failed.                        *)
AwaitFalse(e) ==
  /\ hpc = "await" /\ e \in cur
  /\ IF txs[e.task][e.n] = "success" THEN Fault ELSE UNCHANGED faults
  /\ IF e.retry = MaxRetries
     THEN hpc' = "scan" /\ cur' = {} /\ givenUp' = givenUp \cup {e.task}
     ELSE hpc' = "resend" /\ UNCHANGED <<cur, givenUp>>
  /\ UNCHANGED <<available, newTasks, redis, keys, retryTx, txs, done, skipped, forgotten>>

Resend(e) ==
  /\ hpc = "resend" /\ e \in cur
  /\ SendTx(e.task) /\ retryTx' = {Entry(e.task, e.retry + 1)}
  /\ hpc' = "retrack"
  /\ UNCHANGED <<available, newTasks, redis, keys, cur, outcomes, faults>>

(* processGatewayTxTask throws; only its answer may have been lost.        *)
ResendFails(e) ==
  /\ hpc = "resend" /\ e \in cur /\ Fault
  /\ SendTx(e.task) \/ UNCHANGED txs
  /\ hpc' = "putback"
  /\ UNCHANGED <<available, newTasks, redis, keys, cur, retryTx, outcomes>>

(* Variant: the retry number is not incremented.                           *)
RetrackSameRetry ==
  /\ hpc = "retrack"
  /\ redis' = redis \cup {[r EXCEPT !.retry = IF @ > 1 THEN @ - 1 ELSE 1] : r \in retryTx}
  /\ retryTx' = {} /\ cur' = {}
  /\ hpc' = "scan"
  /\ UNCHANGED <<available, newTasks, keys, txs, outcomes, faults>>

(* Variant: every pending transaction is stored under one key.             *)
RetrackOverwrites ==
  /\ hpc = "retrack"
  /\ redis' = retryTx /\ retryTx' = {} /\ cur' = {}
  /\ hpc' = "scan"
  /\ UNCHANGED <<available, newTasks, keys, txs, outcomes, faults>>

(* Variant: the transaction that was sent again is not stored.             *)
RetrackDropped ==
  /\ hpc = "retrack"
  /\ retryTx' = {} /\ cur' = {}
  /\ hpc' = "scan"
  /\ UNCHANGED <<available, newTasks, redis, keys, txs, outcomes, faults>>

(* redis.set of the new transaction, with the incremented retry.           *)
Retrack ==
  /\ hpc = "retrack"
  /\ redis' = redis \cup retryTx /\ retryTx' = {} /\ cur' = {}
  /\ hpc' = "scan"
  /\ UNCHANGED <<available, newTasks, keys, txs, outcomes, faults>>

(* The set fails. When it throws, the old entry will be put back, though   *)
(* the new one may be in Redis all the same; when the client only logs the *)
(* failure, neither is.                                                    *)
RetrackLost(e) ==
  /\ hpc = "retrack" /\ e \in cur /\ Fault
  /\ retryTx' = {}
  /\ \/ /\ hpc' = "putback" /\ redis' \in {redis, redis \cup retryTx}
        /\ UNCHANGED <<cur, forgotten>>
     \/ /\ hpc' = "scan" /\ cur' = {} /\ forgotten' = forgotten \cup {e.task}
        /\ UNCHANGED redis
  /\ UNCHANGED <<available, newTasks, keys, txs, done, skipped, givenUp>>

(* Variant: putting an entry back uses up a retry.                         *)
PutBackCounted ==
  /\ hpc = "putback"
  /\ redis' = redis \cup {[e EXCEPT !.retry = @ + 1] : e \in cur} /\ cur' = {}
  /\ hpc' = "scan"
  /\ UNCHANGED <<available, newTasks, keys, retryTx, txs, outcomes, faults>>

(* The old entry goes back into Redis with the same retry number.          *)
PutBack ==
  /\ hpc = "putback"
  /\ redis' = redis \cup cur /\ cur' = {}
  /\ hpc' = "scan"
  /\ UNCHANGED <<available, newTasks, keys, retryTx, txs, outcomes, faults>>

(* ... unless this also fails: it is only logged, or it throws, with the   *)
(* entry in Redis or not, and the cron ends.                               *)
PutBackLost(e) ==
  /\ hpc = "putback" /\ e \in cur /\ Fault
  /\ cur' = {}
  /\ \/ UNCHANGED redis /\ forgotten' = forgotten \cup {e.task}
     \/ hpc' = "idle" /\ redis' = redis \cup cur /\ UNCHANGED forgotten
  /\ \/ hpc' = "idle" /\ keys' = {}
     \/ hpc' = "scan" /\ UNCHANGED keys
  /\ UNCHANGED <<available, newTasks, retryTx, txs, done, skipped, givenUp>>

------------------------------------------------------------------------------
(* The network, the clock of Redis, and the process.                       *)

Settle(t) ==
  /\ \E i \in 1 .. Len(txs[t]) :
       /\ txs[t][i] = "pending"
       /\ \E s \in {"success", "failed"} : txs' = [txs EXCEPT ![t][i] = s]
  /\ UNCHANGED <<available, newTasks, redis, pendings, outcomes, faults>>

(* An entry lives ten minutes.                                             *)
Expire(e) ==
  /\ e \in redis /\ Fault
  /\ redis' = redis \ {e} /\ forgotten' = forgotten \cup {e.task}
  /\ UNCHANGED <<available, newTasks, pendings, txs, done, skipped, givenUp>>

(* The process stops and starts again; what was only in memory is gone.    *)
Crash ==
  /\ pc # "idle" \/ hpc # "idle"
  /\ Fault
  /\ pc' = "idle" /\ newTx' = {}
  /\ hpc' = "idle" /\ keys' = {} /\ cur' = {} /\ retryTx' = {}
  /\ forgotten' = forgotten \cup {e.task : e \in newTx \cup cur}
  /\ UNCHANGED <<available, saved, last, upTo, tries, redis, txs, done, skipped, givenUp>>

------------------------------------------------------------------------------
HandleNewTasks ==
  \/ Start \/ Ask \/ GatewayTask \/ Track \/ ExecuteOrRefundTask \/ RefundSkipped
  \/ UnknownTask \/ Save

HandlePending ==
  \/ Scan \/ ScanEnds \/ Retrack \/ PutBack
  \/ \E e \in redis : GetDel(e)
  \/ \E k \in keys : GetDelGone(k)
  \/ \E e \in cur : AwaitSuccess(e) \/ AwaitFalse(e) \/ Resend(e)

Faulty ==
  \/ AskFails \/ TrackLost \/ TaskFails \/ SaveFails \/ Crash
  \/ \E e \in redis : GetDelFails(e) \/ Expire(e)
  \/ \E e \in cur : ResendFails(e) \/ RetrackLost(e) \/ PutBackLost(e)

Next == Publish \/ HandleNewTasks \/ HandlePending \/ Faulty \/ \E t \in Tasks : Settle(t)

Spec == Init /\ [][Next]_vars

(* Both crons are fired for ever, every 15 and every 6 seconds.            *)
FairSpec == Spec /\ WF_vars(HandleNewTasks) /\ WF_vars(HandlePending)

------------------------------------------------------------------------------
TxKnown(e) == e.n \in 1 .. Len(txs[e.task])

(* The type of every variable; an entry always names a transaction that    *)
(* was sent, and a retry number never passes MAX_NUMBER_OF_RETRIES.        *)
TypeOK ==
  /\ available \in 0 .. NumTasks
  /\ saved \in 0 .. NumTasks /\ last \in 0 .. NumTasks /\ upTo \in 0 .. NumTasks
  /\ pc \in {"idle", "ask", "task", "track", "save"}
  /\ hpc \in {"idle", "scan", "await", "resend", "retrack", "putback"}
  /\ redis \cup newTx \cup cur \cup retryTx \subseteq PendingTransaction
  /\ keys \subseteq Tasks \X (Nat \ {0})
  /\ txs \in [Tasks -> Seq(TxStates)]
  /\ \A e \in redis \cup newTx \cup cur \cup retryTx : TxKnown(e)
  /\ done \in [Tasks -> Nat] /\ tries \in [Tasks -> Nat]
  /\ skipped \cup givenUp \cup forgotten \subseteq Tasks
  /\ faults \in Nat

(* What a task asks for was done at least once.                            *)
Effected(t) ==
  CASE Type[t] = "GATEWAY_TX" -> txs[t] # <<>>
    [] Type[t] = "REFUND" -> done[t] > 0 \/ t \in skipped
    [] Type[t] = "EXECUTE" -> done[t] > 0
    [] OTHER -> TRUE

(* No task is skipped: the saved LAST_TASK_ID covers only tasks that were  *)
(* carried out, at whatever point the cron, a request or the process fails. *)
NoTaskSkipped == \A t \in 1 .. saved : Effected(t)

InHand == redis \cup newTx \cup cur \cup retryTx

(* A gateway transaction is followed until one of its task succeeds or its *)
(* retries are used up; it is lost only by the faults that set forgotten,  *)
(* whatever order the two crons run in.                                    *)
NeverForgotten ==
  \A t \in 1 .. saved : Type[t] = "GATEWAY_TX" =>
    \/ \E i \in 1 .. Len(txs[t]) : txs[t][i] = "success"
    \/ t \in givenUp \cup forgotten
    \/ \E e \in InHand : e.task = t

(* A gateway task is given up only after MaxRetries transactions: a retry  *)
(* that could not be sent does not use one up.                             *)
GivenUpAfterRetries == \A t \in givenUp : Len(txs[t]) >= MaxRetries

(* Duplicates need faults: a task is begun once more per fault, a refund   *)
(* sent at most once per beginning, and a gateway transaction MaxRetries   *)
(* times per beginning and MaxRetries - 1 times more per fault: what is    *)
(* left to an entry that is put back beside the one that replaced it.      *)
DuplicatesNeedFaults ==
  \A t \in Tasks :
    /\ tries[t] <= 1 + faults
    /\ done[t] <= tries[t]
    /\ Len(txs[t]) <= MaxRetries * tries[t] + (MaxRetries - 1) * faults

(* What the comment above the second redis.set of handlePendingTransactions *)
(* says: the value set back with the same retry number is one that failed  *)
(* to even be sent, so the number counts the transactions sent.            *)
RetryCountsSends ==
  \A e \in redis : tries[e.task] = 1 => Len(txs[e.task]) <= e.retry

(* Every task GMP serves is eventually saved as processed.                 *)
EveryTaskIsSaved == \A t \in Tasks : t <= available ~> t <= saved

(* The follow-up of every gateway transaction ends: with a success, after  *)
(* the last retry, or by a fault.                                          *)
EveryGatewayTaskEnds ==
  \A t \in Tasks : Type[t] = "GATEWAY_TX" /\ t <= saved ~>
    (\/ \E i \in 1 .. Len(txs[t]) : txs[t][i] = "success"
     \/ t \in givenUp \cup forgotten)
==============================================================================
