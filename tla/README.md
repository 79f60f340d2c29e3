# A TLA+ model of the Axelar relayer

The repository (`multiversx_js/axelar-mvx-relayer`, paths below are relative to
it) is a relayer between the Dharitri chain and Axelar's Amplifier. It has
no consensus of its own: what makes it hard is that five crons and a queue
consumer, in two processes, share a database, Redis, one wallet and one HTTP
API, that each of them awaits something between any two of its steps, and that
each of these awaits can fail, be answered late, or be cut off by a restart.
The models here take every such await as a point where the others may step.

## 1. The system

| Part | Source | State | Operations |
| --- | --- | --- | --- |
| Approvals processor (process `axelar-event-processor`) | `apps/axelar-event-processor/.../approvals.processor.service.ts` | `LAST_TASK_ID` in the database; `pendingTransaction:<hash>` entries in Redis (10 min) | cron every 15 s: get tasks from GMP after the cursor, carry each out (`GATEWAY_TX`: sign, send, store in Redis; `EXECUTE`: upsert a row; `REFUND`: send a refund), save the cursor. Cron every 6 s: take each entry out of Redis, await its transaction, send again up to 3 times |
| Message approved processor (process `mvx-event-processor`) | `.../message-approved.processor.service.ts`, `message-approved.repository.ts` | table `message_approved` | cron every 15 s: pages of 10 PENDING rows, build and sign, send all, update all; report `CANNOT_EXECUTE_MESSAGE` |
| Event processor (same) | `.../event.processor.service.ts` | none; the notifier's queue | per block: filter the events, `sadd` the hashes of their transactions |
| Cross-chain transaction processor (same) | `.../cross-chain-transaction.processor.service.ts` | the Redis set `crossChainTransactions` | cron every 10 s: for each hash wait for completion, turn the log into events, post them to GMP, `srem` |
| Gateway processor (same) | `processors/gateway.processor.ts` | table `message_approved` | one log entry to one event; marks a row SUCCESS for an executed message |
| Gas service and ITS processors (same) | `processors/gas-service.processor.ts`, `its.processor.ts` | none | one log entry to one event |
| Gas checker (same) | `gas-checker.service.ts` | none; balances on chain | hourly cron: collect fees from the gas service, unwrap tokens, warn when low |
| Common library | `libs/common/src` | none | GMP client, Redis helper, transactions helper, fee helper, contract wrappers, Slack |

How they meet:

* the approvals processor writes the rows (`createOrUpdate`) that the message
  processor reads and updates, from another process and without a lock;
* the message processor and the gateway processor write the same row, one from a
  copy it read some time before, the other by a read and a later write;
* the event processor adds to the Redis set the cross-chain cron removes from;
* the two crons of the approvals processor add to and take from the same Redis
  entries under different locks (`Locker` only keeps a cron from overlapping
  with itself);
* the message processor, the approvals processor and the gas checker sign with
  the same wallet.

What makes each part correct:

* approvals processor: no task is skipped; whatever is done twice has a fault
  behind it; a gateway transaction is followed to its end; every task is
  eventually done;
* message processor: a bounded number of transactions per message; a failure is
  reported before it is saved and not twice without a fault; the issue cost of a
  token is only paid in the second transaction of a deployment; an executed
  message is not reported as failed, and its SUCCESS is not undone, but for the
  one window in which the code does undo it (section 3); every row eventually
  leaves PENDING;
* event and cross-chain processors: every event of a successful transaction
  reaches Axelar; nothing that is not final does; no poison block or transaction
  stops the others;
* fee helper: what the wallet pays on chain, fee and value, was paid for on the
  source chain, except for the issue cost of a transaction whose gas could not be
  estimated; and all of that is used, down to the rounding, when it could not;
* the wallet: what one sender counts up by itself, from one reading of the nonce
  to the next, leaves no hole in the nonces and does not collide with itself;
  what is sent twice is not executed twice while the first one waits;
* gas checker and refunds: what was read of a balance is there when it is paid
  out, the reserve serves refunds, fees do not stay in the contract nor WREWA in
  the wallet.

The hazards, each with its line and the property that covers it, are in
`PROJECT.json`.

## 2. The modules

| Module | What it is |
| --- | --- |
| `MessageApprovedProcessor` | the life of an approved message: row, cron, transactions, executed event |
| `MessageApprovedProcessor_proofs` | `TypeCorrect` |
| `MessageApprovedProcessor_safety` | `ReportsAreBounded`, `FailuresAreReported`, `AttemptsAreBounded`, `ReportedAreNotExecuted`, `SuccessesAreKept` |
| `MessageApprovedProcessor_cost` | `IssueCostIsEarned` |
| `ApprovalsProcessor` | the two crons of the approvals processor, the cursor and the entries in Redis |
| `ApprovalsProcessor_proofs` | `TypeCorrect`, `TasksAreNotSkipped`, `GatewayTasksAreFollowed`, `RetriesAreUsed`, `DuplicatesArePaid` |
| `EventDelivery` | abstract: what the relayer promises about the transactions it has noticed |
| `CrossChainTransactionProcessor` | the consumer and the cron that implement `EventDelivery` |
| `CrossChainTransactionProcessor_proofs` | `TypeCorrect`, `FinalIsPosted`, `PostsAreBounded`, `MarkedFirst`, `CreditedOnce`, and `Delivers`, the refinement |
| `FeeHelper`, `FeeHelper_proofs` | the gas and the cost of the transactions of one message, in numbers |
| `WalletNonce`, `WalletNonce_proofs` | the four senders of the wallet and the nonces they use |
| `GasFunds`, `GasFunds_proofs` | the balances of the gas service and of the wallet: fees, collection, refunds |
| `MC_*` | the small instances TLC checks |

The last three cut across the first ones. `MessageApprovedProcessor` and
`ApprovalsProcessor` have every error path and no numbers; `FeeHelper`,
`WalletNonce` and `GasFunds` have one kind of number each, and of the control
only what that number depends on. The names of actions are kept across them
(`NotEnoughGas`, `GasError`, `Send`, `SendNull`, `Await`), and each comment says
which part of the code the action stands for.

A definition whose comment begins with "Variant:" is the plausible bug next to
the definition it precedes. No specification uses one; `PROJECT.json` lists which
property each breaks.

### MessageApprovedProcessor

`db` is the table. `pc`, `todo`, `local`, `built` and `toUpdate` are the local
variables of one batch of `processPendingMessageApproved`: `local` holds the
cron's copies of the rows (`entries`), `built` is `entriesWithTransactions`,
`toUpdate` is `entriesToUpdate`; nothing keeps the gateway processor from
writing a row while `local` holds a copy of it, and the ghost `raced` records the
messages for which it did. `chain[m]` is the sequence of transactions the
network accepted for a message, and a row's `hash` is an index into it (0 for
null), since only the identity of a hash matters. `events`, `handling` and
`seen` are the executed event on its way through `handleMessageExecutedEvent`,
which reads the row in one step and writes it in another.

| Code | Action |
| --- | --- |
| `processExecuteTask`, `createOrUpdate` | `ExecuteTask` |
| `findPending` | `Fetch` with `Eligible`, `Before`, `Page` |
| one turn of the loop over `entries` | `GiveUp`, `EmptyPayload`, `BuildTx`, `NotEnoughGas`, `Garbled` when the payload does not decode, `Abort` when another call throws |
| `sendTransactions` | `Send` (any subset sent), `SendNull` (null, any subset sent) |
| `updateManyPartial` | `Update`, `UpdateThrows` |
| `handleMessageExecutedEvent` | `ExecutedEventRead`, `ExecutedEventWrite` |
| the clock against `updatedAt` | `Age` |
| the network and the contracts | `TxFails`, `TxSucceeds` |
| a restart | `Crash` |

Abstractions: payloads are the five kinds the code distinguishes (`Kinds`);
amounts are left to `FeeHelper`, so `NotEnoughGas` and `GasError` may happen to
any row that is built; nonces are left to `WalletNonce`, so a transaction that
the network drops is one that stays "pending" for ever; two sends of a transaction that is
the same in every byte count as two. That a deployment needs one transaction
without and one with value, and that a message is executed once, is what the
contracts do, taken from how `its.contract.ts` uses them.

### ApprovalsProcessor

Tasks are the numbers in which GMP serves them; `saved` is `LAST_TASK_ID`.
`pc`, `last`, `upTo`, `newTx` are the cron over new tasks, `hpc`, `keys`, `cur`,
`retryTx` the one over pending transactions. `redis` holds the
`PendingTransaction` entries, one per transaction, as their key is the hash. The
errors the code swallows (`getDel`, and a Redis client that only logs) are
outcomes of their own, apart from those it rethrows, and each `redis.set` may
also take effect and throw all the same (`TrackLost`, `RetrackLost`,
`PutBackLost`): after that of a retry, the old entry is put back beside the new
one and both live. What was lost in such a way
is recorded in `forgotten`, what was given up in `givenUp`, what was not refunded
for want of balance in `skipped`.

### CrossChainTransactionProcessor

`queue` holds the blocks the notifier has no acknowledgement for, `redis` the
set, `pc`, `members`, `cur`, `index`, `toSend` the cron. `Log` is the log of each
transaction and `Block` the events of each block; both are constants, since
nothing the relayer does changes them. What becomes of an entry is computed by
`EventOf` (`GatewayEvent`, `GasServiceEvent`, `ItsEvent`), which keeps of an event
its type, the entry it is made from and the message it names; `CorrespondingCall`
is the search for the call a payment was made for, and `HandlerThrows` says when
a handler, or that search, meets an entry it cannot decode. A contract call is a
model value that stands for its sender, destination and payload hash.
`answered` and `posts` are GMP's side. The handling of a log is one step per
entry, except for an executed message, where the database is awaited twice:
`FindRow` is the lookup, `MarkRow` the update when there was a row, and `Gather`
makes the event, with a row or without one, as the code does after its warning.
`rows` is the table, reduced to whether a message has a row and whether that is
SUCCESS; any other process may write a row at any time (`RowWritten`), and the
ghost `rewritten` records for which message one did so since this cron looked for
the row or marked it.

A log entry of kind `garbledCall` and a block with a `bare` event are the two
inputs that make the code throw at every run; they stay in the set and in the
queue for ever.

`EventDelivery` has three steps: notice transactions, tell about them, and
discharge one there is nothing left to tell about. `DeliversEvents` is the
refinement: `owed` is the Redis set, `told` the transactions that failed or
whose every event GMP has answered for good.

### FeeHelper

`balance` is `availableGasBalance` of one row, negative when overspent; `length`
is what `data.length()` answers, and `sent` the transactions the network accepted
since the task was last delivered. `GetRewaFeeFromGasLimit`,
`GetGasLimitFromRewaFee` and `GetTransactionGas` are the functions of the code
with their integer divisions; the prices of the network and `MAX_GAS_LIMIT` are
constants. `ExecuteEstimated`, `NotEnoughGas` and `GasError` are the three
outcomes of `buildAndSignExecuteTransaction`. A transaction that is built goes one
of three ways: `Submit` is `sendTransactions` and the update for one entry, where
the network refuses a limit below what carrying the data takes (`Accepted`,
external), and the entry then gets its retry back (`Unsent`); `SubmitRefused` is a
refusal for another reason; `SubmitLost` is everything after which the row keeps
its old retry, whether the network has the transaction or not: a null answer, an
update that fails, a restart. `ExecuteTask` is the redelivery, which begins again
at retry 0. The first transaction and the one with the issue cost may have
different estimates at every try. Only what the JavaScript number `gas` and the
`BigInt` amounts have in common is used: neither comes near its limits.

### WalletNonce

`nonce` is the wallet's on chain, `pool` what the network holds until its turn;
a transaction whose nonce is used is refused or dropped, and of several with the
same nonce one is executed. `hold` has, per single sender, the transaction whose
nonce was read and which is not sent yet: between `Reads` and `Sends` everything
else may step. `accountNonce` (-1 for null), `built` and `toFail` are the batch
cron's variables of a page; `Fetch` takes all the code between `findPending` and
`sendTransactions` as one step, because nothing in it but the reading of the
nonce depends on what others do: which entries fail and which order the others
are built in is chosen freely. `tracked` and `toResend` are the entries in Redis,
without their expiry.

A single sender always reads the nonce of the chain, so that all that is in
flight from single senders has the same one: that is why `Await` may find a
transaction that was replaced by another sender's, and why executing one of two
transactions of a task drops the other.

### GasFunds

`gasService` and `wallet` are balances per token, and `Tx.amounts` what a
transaction was built to move. `checkGasServiceAndWalletRaw` is followed through
`pc`, the refund task through `hold["newTasks"]`. As in `WalletNonce`, each sender
reads a balance, then the nonce, then sends, and `NonceUsed` drops what else is
in flight when a transaction is executed. The ghost field `since` of a
transaction records what was executed between the reading of its balance and the
reading of its nonce: the window in which a later transaction can take the money
it counts on. The two balances of an account are read in one step, as each of
them is used on its own; a WREWA balance that cannot be read is 0, as in the
code. What the contracts do is external: `collectFees` pays what it is asked for
or fails, or leaves out a token that is short, and fails always when this wallet
is not the collector; users pay gas at any time.

## 3. The runs

Every configuration but that of `funds` sets `CHECK_DEADLOCK FALSE`: once there
are no rows, tasks or hashes left, the relayer waits for more, and the instances
have no more. The gas checker's cron never stops.

| Run | Instance | Properties |
| --- | --- | --- |
| `map_deploy` | one deployment, two deliveries, two faults, no assumption on time | `TypeOK`, `AttemptsBounded`, `IssueCostAfterSuccess`, `SuccessKeptUnlessRaced` |
| `map_batch` | a deployment, a payload that does not decode and a plain message over pages of two, one fault, one garbled turn, `Timely` | `ReportsBounded`, `FailedIsReported`, `ReportedIsNotExecuted` |
| `map_live` | a row without payload and a plain one, pages of one row, one fault | `EveryMessageSettles` |
| `map_garbled` | a deployment and a payload that does not decode, no fault | `FailedAtOnce`, violated |
| `map_unsent` | one deployment, one fault | `UnsentKeepsRetry`, violated |
| `ap_tasks` | a row to store, a task of another type, a refund between two gateway transactions; pages of two; two retries; one fault | `TypeOK`, `NoTaskSkipped`, `NeverForgotten`, `GivenUpAfterRetries` |
| `ap_live` | a refund, a row to store and a gateway transaction; pages of two; three retries; one fault | `DuplicatesNeedFaults`, `EveryTaskIsSaved`, `EveryGatewayTaskEnds` |
| `ap_putback` | one gateway transaction, one fault | `RetryCountsSends`, violated |
| `ccp_deliver` | three transactions in three blocks: one pays and makes the same call twice and is reported twice, one mixes all kinds of entries, one always throws; a block that always throws; rows written by others at any time; one fault | `TypeOK`, `OnlyFinalIsPosted`, `PostsBounded`, `MarkedBeforePosted`, `NoCallCreditedTwice`, `DeliversEvents`, `EveryEventIsAnswered` |
| `fee` | balances from -2 to 78, two lengths, two estimates, the check on or off, two deliveries, one fault | `TypeOK`, `FeesAreCovered`, `FullGasIsUsed`, `RetriesGetMoreGas`, `EveryMessageEnds` |
| `nonce` | two messages on a page, a gateway transaction, a refund, the gas checker; two retries; one fault | `TypeOK`, `NoNonceSkipped`, `NoncesOfARunDiffer`, `OnlyLateOnesSucceedTwice` |
| `funds` | up to 0.4 of each token paid in, a refund the reserve covers and one it does not, one fault | `TypeOK`, `CoveredUnlessLate`, `ReserveServesRefunds`, `FeesAreCollected`, `WrewaIsUnwrapped` |

What the less obvious ones show:

* `SuccessKeptUnlessRaced`: `updateManyPartial` writes the status of the copy the
  cron read, and a SUCCESS that `handleMessageExecutedEvent` wrote between that
  reading and the update is lost: the row is PENDING again, is tried again, and
  may end FAILED, with `CANNOT_EXECUTE_MESSAGE` posted for an executed message.
  The code does this and the model has it; the property says that there is no
  other way. A row that is not in a batch keeps its SUCCESS through every fault,
  delay and order of the two processes' steps. `map_deploy` checks it without
  `Timely`, with two faults. It speaks of a first delivery, for a second one
  resets the row.
* `DuplicatesNeedFaults`: with `MaxRetries` 3, one fault can make five sends of a
  task that is begun once, not four: the retry's `redis.set` takes effect and
  throws, the old entry is put back, and each of the two has its retries left. The
  bound, `MaxRetries - 1` per fault, is reached in `ap_live`.
* `MarkedBeforePosted`: when `postEvents` is called with a MESSAGE_EXECUTED event,
  the row is SUCCESS or absent, unless another process wrote it after the mark or
  after the lookup that found none. Both exceptions happen: a task that arrives
  after its message was executed makes a PENDING row, and so does one delivered
  again.
* `FeesAreCovered`: fee and value of a transaction are within the balance when its
  gas was estimated. When the estimate fails, the limit is worth at most the
  balance, if the balance carries the data at all; the value is not checked
  there, so the issue cost may come on top.
* `FullGasIsUsed`: both functions round down, so the limit taken from a balance
  may be one unit below the largest it pays for (price 5, modifier 3, least limit
  4, balance 28: the limit is 4, and 5 units cost 28). Two units more cost more
  than the balance. For that the price must not be below the modifier, or the
  fee of several units rounds down to the same number.
* `RetriesGetMoreGas`: the gas grows with `retry`, so with the tries the row
  counts. One whose update was lost is not counted, and the next transaction has
  the same gas as the one that is out; the property compares with counted ones
  strictly, with the others not, and only within one delivery.
* `NoNonceSkipped` and `NoncesOfARunDiffer`: the batch cron reads the nonce once
  and counts by itself, over entries that fail, are skipped or are not sent, and
  over pages, until it reads the nonce again. That this leaves no hole rests on `accountNonce = null` after
  anything that was not sent; without it the first property fails. Neither says
  that a nonce is unused: the nonce read from the network, after a `null` and in
  every new run, may be that of a transaction of an earlier batch that still
  waits, and nothing keeps another sender from it either, as the code has no lock
  for that. The model has both collisions.
* `OnlyLateOnesSucceedTwice`: `awaitSuccess` answers false for a transaction that
  merely waits, and a lost answer brings a task back. In both cases a second
  transaction is sent. It has the nonce of the first while that one waits, so
  both can be executed only when the first was executed before the second's nonce
  was read: the code's window is between its last look at the first one and
  `getAccountNonce`, and no wider.
* `CoveredUnlessLate`: likewise for balances. A refund or a collection that fails
  on chain for lack of money was overtaken between two reads of its own.
* `ReserveServesRefunds`: a collection may overtake a refund; the 0.1 left in the
  contract is there for it. A second refund, or a collection that was itself
  overtaken, can use the reserve up.
* `EveryMessageEnds` excepts `RefusedBand`, see section 4.

### Bounds

* `MaxFaults` bounds crashes, failed requests, lost answers and expired keys.
  The counting properties (`AttemptsBounded`, `ReportsBounded`,
  `DuplicatesNeedFaults`, `PostsBounded`, and `TypeOK` of `FeeHelper`) name `faults`, so they say how much each
  fault may cost. One fault reaches each error path, two (`map_deploy`) reach a
  fault in the recovery from another. In the liveness runs the bound also says
  that the faults end.
* `MaxThrows` bounds the turns that end in a payload that does not decode, which
  in the code has no bound: each costs one report at most, as `ReportsBounded`
  says, so one is enough in the passing run and two in the violated one.
* `MaxIntake` bounds the deliveries of one task; two is the least number that
  shows the redelivery of a task whose row has gone on meanwhile.
* `MaxRetries` is 3 in the code, and so it is in `MessageApprovedProcessor`,
  `FeeHelper`, `ap_live` and `ap_putback`. It is 2 in `ap_tasks` and `nonce`,
  where what is compared is the last retry with the one before; the counting of
  sends, which depends on the number, is in `ap_live`. The theorems about
  `ApprovalsProcessor` and `WalletNonce` hold for every number.
* `Take` and `PageSize` are 10 in the code; 1 and 2 make the page boundary
  matter with few rows and tasks. `map_live` has more rows than fit a page.
* The number of messages, tasks and transactions: rows share only the batch, so
  two show what one entry of a batch does to another. Tasks share only the cursor
  and Redis; five over pages of two cross two pages and have two follow-ups at once.
* `fee`: price 5, modifier 3, a least limit of 4 and 2 per byte, so that no
  division is exact; `MaxGasLimit` 22 is reached by the larger balances. The
  real prices differ in size only, and the proofs are for all of them. Two
  deliveries and one fault reach every branch after a transaction is built, in
  each delivery.
* `nonce`: nonces only matter relative to the one on chain, so `VIEW` identifies
  states that differ by a shift, and the messages are interchangeable
  (`SYMMETRY`; only invariants are checked). `collects` is 1: the gas checker's
  second transaction would do what its first does.
* `funds`: in units of 0.1, with the thresholds of the code (3, 1, 2). `MaxPaid`
  4 exceeds the threshold after a collection left the reserve.

### Timely

Nothing in the code keeps a transaction from being settled, or its event from
being handled, more than a minute after the row was updated. The model leaves
that open unless `Timely` is TRUE, in which case a row does not age while a
transaction or an event of its message is on its way. It does not keep the cron
from holding a copy of a row whose event is read and written meanwhile. Only
`ReportedIsNotExecuted` rests on `Timely`; every other invariant holds, and is
proved, without. It also asks for no fault, a single delivery, and a SUCCESS that
was not written over such a copy. Each condition is needed: with a fault, a report
can reach GMP while its answer is lost, the row then stays PENDING, and the
message is executed after all.

### Fairness

`MessageApprovedProcessor`: weak fairness of the cron and of the clock. The
scheduler fires the cron every 15 s, a run that throws is followed by the next
one, and a minute passes. Nothing is assumed of the network: a transaction may
stay pending for ever, and the row settles all the same, because retries are
counted. `EveryMessageSettles` is checked without garbled payloads, since one of
these throws at each run and stays at the head of the page (see the hazards).

`ApprovalsProcessor`: weak fairness of each cron as a whole. `awaitSuccess`
answers false when the watcher times out, so following a transaction does not
need the network either.

`CrossChainTransactionProcessor`: weak fairness of the consumer (the queue
delivers what is not acknowledged) and of the cron. That the transaction of a
hash completes is not assumed; the property speaks of those that have.

`FeeHelper`: weak fairness of the cron; execution is not assumed.

`GasFunds`: weak fairness of the hourly cron as a whole, and of the execution of
what is in flight. The latter is the network's part and is needed: fees are not
collected on a chain that executes nothing. Nothing makes users pay, GMP refund,
or another sender's transaction be executed.

## 4. What disagrees with the code's comments

* `UnsentKeepsRetry`: the comment above the handling of unsent entries says that
  their fields are reverted. The retry count is only decremented, which does not
  undo the assignment a `GasError` made.
* `FailedAtOnce`: "don't retry the transaction and mark it as failed instantly",
  says the comment on `NotEnoughGasError`. The row is marked in memory and saved
  with its page, and a later entry of the page whose payload does not decode
  aborts the page. The message is tried and reported to Axelar again, at every
  run, for as long as the other row is there; no fault is needed.
* `RetryCountsSends`: the comment above the second `redis.set` of
  `handlePendingTransactionsRaw` takes every error for a transaction that was not
  sent. A lost answer, or an error of the first `redis.set`, brings it there after
  the transaction was sent.

One more disagreement is stated in the model and not by a run of its own. When
the gas of a message cannot be estimated, and its balance pays for the data but
for less gas beyond it than the data takes (`RefusedBand` of `FeeHelper`),
`getGasLimitFromRewaFee` answers a limit the network refuses: 0 at the boundary,
where one unit less of balance would have got the data gas limit. The refused
entry gets its retry back, so the transaction that is meant to be tried once
("but don't try to retry it") is tried for ever. `EveryMessageEnds` shows that
this band is the only place where it happens.

## 5. What is proved

The theorems use the named assumptions on the constants of their module and
nothing else.

`MessageApprovedProcessor`, for every finite set of messages of any kinds, every
page size, both values of `Timely` and every bound on faults, garbled payloads
and deliveries:

* `TypeCorrect`: `Spec => []TypeOK`. `TypeOK` is not inductive alone: `Unsent`
  subtracts one from a retry count, so `TypeInv` adds that an entry with a
  transaction has a positive count (`BuiltCounted`). The rest of the work is in
  the upper bound, through a `GasError`, the increment and `NotEnoughGas`.
* `ReportsAreBounded`, `FailuresAreReported`: neither is inductive, since a
  report precedes the update of the row by several steps. `BatchInv` says what
  the batch variables have to do with each other; `ReportsInv` adds, per message,
  that a copy which became FAILED in this batch has its report counted
  (`FailedRow`), and that a report is owed to a delivery or a fault
  (`ReportsRow`).
* `AttemptsAreBounded`: the inductive part `AttemptsInv` relates the accepted
  transactions to the retry count of the row: each delivery brings room for
  `MaxRetries` (`Room`), a transaction accepted but not yet written to the row
  takes one (`Sent`, `Unsaved`), and one that was not sent gives it back
  (`Unaccepted`). What is lost between `sendTransactions` and `updateManyPartial`
  is paid by the fault that lost it.
* `IssueCostIsEarned`: `CostInv` says that the hash in a row and in a copy is
  either that of an accepted transaction or of the one about to be sent
  (`HashRow`), that a positive `successTimes` has a successful transaction behind
  it (`SuccessRow`), and that a transaction with value comes after one
  (`ValueRow`).
* `SuccessesAreKept`, without `Timely` and through all faults: `KeptInv` says of a
  message delivered once and not `raced` that, once executed, its event waits or
  its row is SUCCESS, and that the cron has no copy of a row that is SUCCESS: it
  copies PENDING rows only.
* `ReportedAreNotExecuted`: what the one minute of `findPending` is worth. It
  speaks of the end of a long story, so `CalmInv` says what holds on the way: a row the cron has read, or could read now or after
  a minute (`Due`), is `AtRest`, with no transaction pending or successful and no
  event to handle; an executed message has its event waiting or its row SUCCESS;
  a reported one is FAILED in the table or in the cron's copy; and what the cron
  sends goes with a copy that `Update` writes as recent. The conditions (`Calm`)
  are those of the property: `Timely`, no fault, no garbled turn, one delivery, not
  `raced`. Reachable states meet them, executed messages among them, and the
  variant in `PROJECT.json` breaks the property under them.

`ApprovalsProcessor`, for every list of tasks of any types, every page size,
number of retries and bound on faults:

* `TypeCorrect`, `TasksAreNotSkipped`: the cursor moves only after the task it
  covers had its effect (`EffectInv`), and a run works on the page it got for the
  cursor that is saved (`CursorInv`).
* `GatewayTasksAreFollowed`, `RetriesAreUsed`: the two crons pass an entry through
  Redis, which neither locks. `HandInv` says who holds which entry at which step,
  `EntryInv` that no two entries share a key, so that a `set` never overwrites an
  entry of something else, and that one at retry r is at least the r-th
  transaction of its task; `FollowInv` carries the claim over the tasks that are
  done but not saved.
* `DuplicatesArePaid`: counting what was sent is not inductive, since what is left
  to send is in the entries. `RoomInv` counts a transaction and each retry a live
  entry still allows (`RoomOf`) against `MaxRetries` per beginning and
  `MaxRetries - 1` per fault (`Allowed`): an entry put back beside the one that
  was to replace it doubles what is left to that one, which is at most that many.
  `TriesInv` does the same for the beginnings. While a transaction that
  was sent again is not stored yet, it stands for the entry it replaces (`Live`).

`CrossChainTransactionProcessor`, for all logs, blocks and every number of faults:

* `FinalIsPosted`, `PostsAreBounded`, `MarkedFirst`: `WorkInv` says that the cron
  works on hashes that are in the set, which only it removes; `HandledInv` that
  `toSend` is what the log gives so far; `RequestsInv` that a hash in the set has a
  request left to its deliveries and faults; `MarksInv` that the row of a gathered
  executed event is `Known`, SUCCESS or absent or written by another process since,
  except between the lookup that found it and the update of the same message's
  row.
* `CreditedOnce`: between two payments for equal calls there is a call, and the
  search for the call of a payment ends at the first one after it.
* `Delivers`: `Spec => DeliversEvents`. The initial states map to initial states
  (`DeliveryInit`); a delivered block is a `Notice`, an answer or a failed
  transaction makes `told` grow, the removal of a hash is a `Discharge`, whose
  guard is the last part of `HandledInv`, and everything else, crashes included,
  stutters (`DeliveryNext`).

`FeeHelper`, for every price, modifier, limit, balance, length and estimate:

* `TypeCorrect`: each transaction accepted since the last delivery took one of the
  retries, or one of the faults.
* `FeesCovered`, `FullGasUsed`: the arithmetic is in `LimitIsWorthTheBalance`: the
  limit taken from a balance is worth at most that balance, one more unit at
  least as much and two more units more, although both functions round down.
  `SentInv` says that each transaction was built by one of the two functions
  (`Built`), and so what was checked about its value and what was not.
* `RetriesGetMore`: `RetryInv` adds that each estimated transaction was built at a
  retry count the row has not gone below since, and strictly below the present
  one if its retry was saved (`BuiltEarlier`). A retry taken back does not undo
  that, because it is taken back from the increment of the same turn, and a
  redelivery forgets the transactions with the count. `MoreGas` is the rounding:
  from 5 units on, two more tenths are at least one unit.

`WalletNonce`, for every set of messages, number of tasks, page size, number of
retries and faults:

* `NoneSkipped`, `NoncesDiffer`: `BatchInv` bounds the nonces the cron used by
  `accountNonce`, in and before the present page; a `null` forgets them, and with
  them the claim of `NoncesDiffer`, which is about one stretch between two
  readings of the nonce.
* `OnlyLateSucceedTwice`: `SinglesInv` says of every transaction held, waiting or
  successful that its nonce had been reached when it was read, and that it is
  `late` if an earlier one of its job succeeded (`Informed`). Of those with the
  same nonce only one is executed, since the nonce is used then.
* `TypeCorrect` needs `WorkInv`: there is a task, or a retry, left while one is in
  hand.

`GasFunds`, for every threshold, reserve below it, list of refunds and payments:

* `CoveredUnlessLateHolds`, `ReserveServes`: `OnTime` says of a transaction from
  the reading of its balance on what it can count on, given what was executed
  since; a collection that is on time leaves the reserve (`CollectOnTime`), which
  is what the refund below the reserve needs. `NonceUsedStep` is the heart: a
  transaction that is executed takes what the others count on only from those
  that have not read their nonce, and drops all others.
* `TypeCorrect`: no balance falls below zero.

Each proof has one step per action of `Next`, and the theorems combine the
initial case, the step and the implication by temporal logic.

Only model-checked: the liveness properties `EveryMessageSettles`,
`EveryTaskIsSaved`, `EveryGatewayTaskEnds`, `EveryEventIsAnswered`,
`EveryMessageEnds`, `FeesAreCollected` and `WrewaIsUnwrapped`, because the prover
does not reason about fairness, and the three properties that are violated.
Every invariant that a passing run checks, and the refinement, is also a theorem.

## 6. What is not modelled

* The amounts of approval costs: a transaction's fee divided among its approvals,
  computed and sent in one go and stored nowhere.
* The gas of gateway transactions, which is a constant when it cannot be
  estimated, and the REWA the wallet spends on gas; with it the warning of a low
  balance, which only tells Slack.
* The fields of events other than type and message; the encoding of calls and
  decoding of events with the ABI, except that it may throw.
* Slack, configuration, the cache decorator, module wiring and generated types:
  no state the services depend on.
* The token id of WREWA, cached for a week, is taken to be right.

`PROJECT.json` lists each part with its reason.

## 7. Plan

Every safety property of the runs is proved. What is left, in this order:

1. What the liveness properties rest on and safety proofs can reach: that each
   step of a cron lowers a measure of the work of its run, as an action property,
   for the crons of `MessageApprovedProcessor` and `ApprovalsProcessor`.
2. What relates the modules that cut across: that the tries `FeeHelper` counts are
   those `MessageApprovedProcessor` makes of one message.
