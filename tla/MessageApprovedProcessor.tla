------------------------ MODULE MessageApprovedProcessor ------------------------
(***************************************************************************)
(* The life of an approved message in the relayer: the row an EXECUTE task *)
(* creates, the cron that executes PENDING rows in batches                 *)
(* (MessageApprovedProcessorService), the transactions it sends, and the   *)
(* handler that marks a row SUCCESS when the gateway reports the message   *)
(* as executed (GatewayProcessor).                                         *)
(*                                                                         *)
(* Every await is a point where the other actors may step, so the cron is  *)
(* split there: Fetch, one step per entry, Send, Update. Wallet nonces are *)
(* left out: a transaction dropped for its nonce is one that stays         *)
(* "pending" for ever.                                                     *)
(***************************************************************************)
EXTENDS Integers, Sequences, FiniteSets

CONSTANTS
  Messages,   \* the messages Axelar may ask to execute
  Kind,       \* what each message is for the relayer, see Kinds
  Take,       \* page size of findPending, 10 in the code
  Timely,     \* TRUE: a transaction is settled in the minute after its update
  MaxFaults,  \* bound: crashes, failed requests, unsent transactions explored
  MaxThrows,  \* bound: batches explored that end at a garbled payload
  MaxIntake   \* bound: deliveries of the EXECUTE task of one message

(* "plain": to a contract that is not ITS. "its": to ITS, done in one      *)
(* transaction. "deploy": to ITS, deploying a token takes two. "garbled":  *)
(* to ITS with a payload that does not decode. "empty": without payload.   *)
Kinds == {"plain", "its", "deploy", "garbled", "empty"}

ASSUME MessagesFinite == IsFiniteSet(Messages)
ASSUME KindType == Kind \in [Messages -> Kinds]
ASSUME TakeType == Take \in Nat \ {0}
ASSUME TimelyType == Timely \in BOOLEAN
ASSUME BoundsType == MaxFaults \in Nat /\ MaxThrows \in Nat /\ MaxIntake \in Nat

MaxRetries == 3   \* MAX_NUMBER_OF_RETRIES

VARIABLES
  db,        \* the message_approved table
  pc,        \* where the cron is: "fetch", "build" or "update"
  todo,      \* entries of the page not processed yet
  local,     \* the cron's copies of the rows of the page
  built,     \* entriesWithTransactions
  toUpdate,  \* entriesToUpdate
  chain,     \* per message, the transactions the network accepted
  events,    \* messages whose executed event waits to be handled
  handling,  \* the message GatewayProcessor is marking, a set of at most one
  seen,      \* the successTimes it read for that message
  raced,     \* messages it marked while the cron held a copy of their row
  reports,   \* per message, CANNOT_EXECUTE_MESSAGE events GMP received
  intake,    \* per message, EXECUTE tasks processed
  faults,    \* faults so far
  throws     \* batches that ended at a garbled payload so far

batch   == <<pc, todo, local, built, toUpdate>>
gateway == <<events, handling, seen, raced>>
vars    == <<db, batch, chain, gateway, reports, intake, faults, throws>>

Row == [status : {"absent", "PENDING", "SUCCESS", "FAILED"},
        retry : 0 .. MaxRetries,
        hash : Nat,          \* index in chain of executeTxHash, 0 for null
        success : Nat,       \* successTimes, 0 for null
        recent : BOOLEAN,    \* updatedAt is less than a minute old
        created : Nat]       \* rank of createdAt

Tx == [state : {"pending", "success", "failed"},
       value : BOOLEAN]      \* carries the token issue cost

Absent == [status |-> "absent", retry |-> 0, hash |-> 0, success |-> 0,
           recent |-> FALSE, created |-> 0]

InFlight == {m \in Messages : local[m].status # "absent"}

Succeeded(m) == \E i \in 1 .. Len(chain[m]) : chain[m][i].state = "success"

(* The gateway has the message executed: a token deployment needs the      *)
(* transaction that pays the issue cost.                                   *)
Executed(m) == \E i \in 1 .. Len(chain[m]) :
                 /\ chain[m][i].state = "success"
                 /\ Kind[m] = "deploy" => chain[m][i].value

Init ==
  /\ db = [m \in Messages |-> Absent]
  /\ pc = "fetch"
  /\ todo = {} /\ built = {} /\ toUpdate = {}
  /\ local = [m \in Messages |-> Absent]
  /\ chain = [m \in Messages |-> <<>>]
  /\ events = {} /\ handling = {} /\ seen = 0 /\ raced = {}
  /\ reports = [m \in Messages |-> 0]
  /\ intake = [m \in Messages |-> 0]
  /\ faults = 0 /\ throws = 0

Fault == faults < MaxFaults /\ faults' = faults + 1 /\ UNCHANGED throws

------------------------------------------------------------------------------
(* Rows: created by the other process, aged by the clock.                  *)

Created == Cardinality({m \in Messages : db[m].status # "absent"})

(* createOrUpdate: an update keeps the hash, successTimes and createdAt.   *)
Upserted(row) ==
  IF row.status = "absent"
  THEN [status |-> "PENDING", retry |-> 0, hash |-> 0, success |-> 0,
        recent |-> TRUE, created |-> Created + 1]
  ELSE [row EXCEPT !.status = "PENDING", !.retry = 0, !.recent = TRUE]

(* ApprovalsProcessorService processes an EXECUTE task; the task may be    *)
(* delivered again when its cursor was not saved.                          *)
ExecuteTask(m) ==
  /\ intake[m] < MaxIntake
  /\ intake' = [intake EXCEPT ![m] = @ + 1]
  /\ db' = [db EXCEPT ![m] = Upserted(@)]
  /\ UNCHANGED <<batch, chain, gateway, reports, faults, throws>>

Unsettled(m) == m \in events \/ \E i \in 1 .. Len(chain[m]) : chain[m][i].state = "pending"

(* A minute passes over a row whose age matters.                           *)
Age(m) ==
  /\ db[m].status = "PENDING" /\ db[m].retry > 0 /\ db[m].recent
  /\ Timely => ~Unsettled(m)
  /\ db' = [db EXCEPT ![m].recent = FALSE]
  /\ UNCHANGED <<batch, chain, gateway, reports, intake, faults, throws>>

------------------------------------------------------------------------------
(* processPendingMessageApproved                                           *)

(* Variant: the one-minute window is left out.                             *)
EligibleIgnoringAge == {m \in Messages : db[m].status = "PENDING"}

Eligible == {m \in Messages :
               /\ db[m].status = "PENDING"
               /\ db[m].retry = 0 \/ ~db[m].recent}

(* orderBy retry, createdAt                                                *)
Before(r, s) == r.retry < s.retry \/ (r.retry = s.retry /\ r.created < s.created)

Page == {m \in Eligible :
           Cardinality({n \in Eligible : Before(db[n], db[m])}) < Take}

Fetch ==
  /\ pc = "fetch" /\ Page # {}
  /\ pc' = "build"
  /\ todo' = Page
  /\ local' = [m \in Messages |-> IF m \in Page THEN db[m] ELSE Absent]
  /\ built' = {} /\ toUpdate' = {}
  /\ UNCHANGED <<db, chain, gateway, reports, intake, faults, throws>>

Turn(m) == /\ pc = "build" /\ m \in todo
           /\ \A n \in todo \ {m} : ~Before(local[n], local[m])

Done(m, row) == /\ todo' = todo \ {m}
                /\ local' = [local EXCEPT ![m] = row]

Exhausted(m) == local[m].retry >= MaxRetries
Failed(row)  == [row EXCEPT !.status = "FAILED"]

Report(m) == reports' = [reports EXCEPT ![m] = @ + 1]

(* Variant: a report that could not be posted is ignored.                  *)
GiveUpIgnoringErrors(m) ==
  /\ Turn(m) /\ Exhausted(m)
  /\ Done(m, Failed(local[m]))
  /\ Report(m) \/ UNCHANGED reports
  /\ toUpdate' = toUpdate \cup {m}
  /\ UNCHANGED <<db, pc, built, chain, gateway, intake, faults, throws>>

(* No retry is left: handleMessageApprovedFailed posts CANNOT_EXECUTE.     *)
GiveUp(m) ==
  /\ Turn(m) /\ Exhausted(m)
  /\ Done(m, Failed(local[m]))
  /\ Report(m)
  /\ toUpdate' = toUpdate \cup {m}
  /\ UNCHANGED <<db, pc, built, chain, gateway, intake, faults, throws>>

(* Variant: the status is not changed.                                     *)
EmptyPayloadKeptPending(m) ==
  /\ Turn(m) /\ ~Exhausted(m) /\ Kind[m] = "empty"
  /\ Done(m, local[m])
  /\ toUpdate' = toUpdate \cup {m}
  /\ UNCHANGED <<db, pc, built, chain, gateway, reports, intake, faults, throws>>

(* A row without payload fails at once, and nothing is posted to GMP.      *)
EmptyPayload(m) ==
  /\ Turn(m) /\ ~Exhausted(m) /\ Kind[m] = "empty"
  /\ Done(m, Failed(local[m]))
  /\ toUpdate' = toUpdate \cup {m}
  /\ UNCHANGED <<db, pc, built, chain, gateway, reports, intake, faults, throws>>

(* Variant: whether the awaited transaction succeeded is ignored.          *)
AwaitedIgnoringStatus(m) ==
  IF Kind[m] # "plain" /\ local[m].hash # 0 /\ local[m].success = 0
  THEN {0, 1} ELSE {local[m].success}

(* successTimes when the interaction is built: for ITS, an earlier         *)
(* transaction is awaited. awaitSuccess answers false when it cannot tell. *)
Awaited(m) ==
  IF Kind[m] # "plain" /\ local[m].hash # 0 /\ local[m].success = 0
  THEN {s \in {0, 1} : s = 1 => chain[m][local[m].hash].state = "success"}
  ELSE {local[m].success}

(* Variant: a GasError sets retry to MAX before the increment.             *)
RetryOffByOne(m) == {local[m].retry, MaxRetries}

(* retry before it is incremented: a GasError makes this the last one.     *)
RetryBase(m) == {local[m].retry, MaxRetries - 1}

Buildable(m) == Turn(m) /\ ~Exhausted(m) /\ Kind[m] \notin {"empty", "garbled"}

WithTx(row, s, r, h) == [row EXCEPT !.retry = r + 1, !.success = s, !.hash = h]

(* The transaction is built and signed; its hash is known before it is sent. *)
BuildTx(m) ==
  /\ Buildable(m)
  /\ \E s \in Awaited(m), r \in RetryBase(m) :
       Done(m, WithTx(local[m], s, r, Len(chain[m]) + 1))
  /\ built' = built \cup {m}
  /\ UNCHANGED <<db, pc, toUpdate, chain, gateway, reports, intake, faults, throws>>

(* NotEnoughGasError: the message fails without a transaction.             *)
NotEnoughGas(m) ==
  /\ Buildable(m)
  /\ \E s \in Awaited(m) :
       Done(m, [Failed(local[m]) EXCEPT !.retry = MaxRetries, !.success = s])
  /\ Report(m)
  /\ toUpdate' = toUpdate \cup {m}
  /\ UNCHANGED <<db, pc, built, chain, gateway, intake, faults, throws>>

DropBatch == /\ pc' = "fetch"
             /\ todo' = {} /\ built' = {} /\ toUpdate' = {}
             /\ local' = [m \in Messages |-> Absent]

(* Whatever is thrown for one entry ends the cron: a failed request, a     *)
(* report GMP refused or answered too late.                                *)
Abort(m) ==
  /\ Turn(m)
  /\ Exhausted(m) \/ Buildable(m)
  /\ Fault /\ DropBatch
  /\ Report(m) \/ UNCHANGED reports
  /\ UNCHANGED <<db, chain, gateway, intake>>

(* A payload that does not decode throws every time it is tried, and what  *)
(* was done for the entries before it in the page is not saved.            *)
Garbled(m) ==
  /\ Turn(m) /\ ~Exhausted(m) /\ Kind[m] = "garbled"
  /\ throws < MaxThrows /\ throws' = throws + 1
  /\ DropBatch
  /\ UNCHANGED <<db, chain, gateway, reports, intake, faults>>

HasValue(m) == Kind[m] = "deploy" /\ local[m].success = 1

Accept(S) ==
  chain' = [m \in Messages |->
              IF m \in S
              THEN Append(chain[m], [state |-> "pending", value |-> HasValue(m)])
              ELSE chain[m]]

(* What is kept of an entry whose transaction was not sent.                *)
Unsent(row) == [row EXCEPT !.hash = 0, !.retry = IF @ = 1 THEN 1 ELSE @ - 1]

(* sendTransactions answers the hashes of those that were sent.            *)
Send ==
  /\ pc = "build" /\ todo = {}
  /\ \E S \in SUBSET built :
       /\ IF S = built THEN UNCHANGED <<faults, throws>> ELSE Fault
       /\ Accept(S)
       /\ local' = [m \in Messages |->
                      IF m \in built \ S THEN Unsent(local[m]) ELSE local[m]]
  /\ toUpdate' = toUpdate \cup built
  /\ pc' = "update"
  /\ UNCHANGED <<db, todo, built, gateway, reports, intake>>

(* sendTransactions answers null: some may have reached the network, and   *)
(* none of their entries is updated.                                       *)
SendNull ==
  /\ pc = "build" /\ todo = {} /\ built # {}
  /\ Fault
  /\ \E S \in SUBSET built : Accept(S)
  /\ pc' = "update"
  /\ UNCHANGED <<db, todo, local, built, toUpdate, gateway, reports, intake>>

(* Variant: updateManyPartial leaves retry out.                            *)
WrittenWithoutRetry(row, new) ==
  [row EXCEPT !.status = new.status, !.hash = new.hash, !.success = new.success,
              !.recent = TRUE]

(* Variant: updateManyPartial leaves status out.                           *)
WrittenWithoutStatus(row, new) ==
  [row EXCEPT !.retry = new.retry, !.hash = new.hash, !.success = new.success,
              !.recent = TRUE]

(* updateManyPartial, whatever became of the row since it was read.        *)
Written(row, new) ==
  [row EXCEPT !.status = new.status, !.retry = new.retry, !.hash = new.hash,
              !.success = new.success, !.recent = TRUE]

Update ==
  /\ pc = "update"
  /\ db' = [m \in Messages |->
              IF m \in toUpdate THEN Written(db[m], local[m]) ELSE db[m]]
  /\ DropBatch
  /\ UNCHANGED <<chain, gateway, reports, intake, faults, throws>>

(* The database transaction of updateManyPartial fails.                    *)
UpdateThrows ==
  /\ pc = "update" /\ toUpdate # {}
  /\ Fault /\ DropBatch
  /\ UNCHANGED <<db, chain, gateway, reports, intake>>

------------------------------------------------------------------------------
(* The network, and the handler of the gateway's executed event.           *)

Settle(m, i, s) ==
  /\ i \in 1 .. Len(chain[m]) /\ chain[m][i].state = "pending"
  /\ chain' = [chain EXCEPT ![m][i].state = s]

TxFails(m) ==
  /\ \E i \in 1 .. Len(chain[m]) : Settle(m, i, "failed")
  /\ UNCHANGED <<db, batch, gateway, reports, intake, faults, throws>>

(* A message is executed once; a deployment first without, then with value. *)
TxSucceeds(m) ==
  /\ \E i \in 1 .. Len(chain[m]) :
       /\ Settle(m, i, "success")
       /\ ~Executed(m)
       /\ Kind[m] = "deploy" => chain[m][i].value = Succeeded(m)
       /\ events' = IF Kind[m] # "deploy" \/ chain[m][i].value
                    THEN events \cup {m} ELSE events
  /\ UNCHANGED <<db, batch, handling, seen, raced, reports, intake, faults, throws>>

(* handleMessageExecutedEvent reads the row ...                            *)
ExecutedEventRead(m) ==
  /\ handling = {} /\ m \in events
  /\ handling' = {m} /\ seen' = db[m].success
  /\ UNCHANGED <<db, batch, chain, events, raced, reports, intake, faults, throws>>

(* Variant: the status is not written.                                     *)
MarkedWithoutStatus(row) == [row EXCEPT !.success = seen + 1, !.recent = TRUE]

Marked(row) == [row EXCEPT !.status = "SUCCESS", !.success = seen + 1, !.recent = TRUE]

(* ... and writes it, whatever copy of the row the cron holds; when the    *)
(* events then cannot be posted, or the process stops first, the           *)
(* transaction is handled again.                                           *)
ExecutedEventWrite(m) ==
  /\ m \in handling
  /\ db' = [db EXCEPT ![m] = Marked(@)]
  /\ handling' = {} /\ seen' = 0
  /\ raced' = raced \cup ({m} \cap InFlight)
  /\ \/ events' = events \ {m} /\ UNCHANGED <<faults, throws>>
     \/ Fault /\ UNCHANGED events
  /\ UNCHANGED <<batch, chain, reports, intake>>

(* The process that runs the cron and the handler stops and starts again.  *)
Crash ==
  /\ pc # "fetch" \/ handling # {}
  /\ Fault /\ DropBatch
  /\ handling' = {} /\ seen' = 0
  /\ UNCHANGED <<db, chain, events, raced, reports, intake>>

------------------------------------------------------------------------------
Entry(m) == GiveUp(m) \/ EmptyPayload(m) \/ BuildTx(m) \/ NotEnoughGas(m)

Cron == Fetch \/ Send \/ Update \/ \E m \in Messages : Entry(m)

Next ==
  \/ Fetch \/ Send \/ SendNull \/ Update \/ UpdateThrows \/ Crash
  \/ \E m \in Messages :
       \/ ExecuteTask(m) \/ Age(m)
       \/ GiveUp(m) \/ EmptyPayload(m) \/ BuildTx(m) \/ NotEnoughGas(m) \/ Abort(m) \/ Garbled(m)
       \/ TxFails(m) \/ TxSucceeds(m)
       \/ ExecutedEventRead(m) \/ ExecutedEventWrite(m)

Spec == Init /\ [][Next]_vars

(* The scheduler fires the cron every 15 seconds, and time passes.         *)
Fairness == WF_vars(Cron) /\ \A m \in Messages : WF_vars(Age(m))

FairSpec == Spec /\ Fairness

------------------------------------------------------------------------------
(* The type of every variable; a retry count never passes MaxRetries       *)
(* (MAX_NUMBER_OF_RETRIES), not even for the last retry a GasError leaves. *)
TypeOK ==
  /\ db \in [Messages -> Row]
  /\ pc \in {"fetch", "build", "update"}
  /\ todo \subseteq Messages /\ built \subseteq Messages /\ toUpdate \subseteq Messages
  /\ local \in [Messages -> Row]
  /\ chain \in [Messages -> Seq(Tx)]
  /\ events \subseteq Messages /\ handling \subseteq Messages
  /\ seen \in Nat /\ raced \subseteq Messages
  /\ reports \in [Messages -> Nat]
  /\ intake \in [Messages -> Nat]
  /\ faults \in Nat /\ throws \in Nat

(* The relayer never has more than MaxRetries transactions accepted for a  *)
(* delivery of a message, whatever races with the cron, but for one more   *)
(* per batch that was lost between sendTransactions and updateManyPartial. *)
AttemptsBounded ==
  \A m \in Messages : Len(chain[m]) <= MaxRetries * intake[m] + faults

(* Axelar is told CANNOT_EXECUTE_MESSAGE once per delivery of a message,   *)
(* and again only for a batch that was lost after the report: by a fault,  *)
(* or by the garbled payload of another entry of its page.                 *)
ReportsBounded == \A m \in Messages : reports[m] <= intake[m] + faults + throws

(* A row is FAILED only after Axelar was told (handleMessageApprovedFailed *)
(* rethrows when it could not post), or when it has no payload.            *)
FailedIsReported ==
  \A m \in Messages :
    db[m].status = "FAILED" => reports[m] > 0 \/ Kind[m] = "empty"

(* The issue cost of a token is attached only when an earlier transaction  *)
(* of the same message has succeeded on chain, across retries, unsent      *)
(* batches, crashes and redeliveries.                                      *)
IssueCostAfterSuccess ==
  \A m \in Messages : \A i \in 1 .. Len(chain[m]) :
    chain[m][i].value => \E j \in 1 .. i - 1 : chain[m][j].state = "success"

(* The SUCCESS that GatewayProcessor writes is lost in one way only: it    *)
(* was written while the cron held its own copy of the row, between Fetch  *)
(* and Update, which then overwrites it. No other interleaving, crash or   *)
(* failed request undoes it, however late the transaction is settled. (A   *)
(* second delivery of the task resets the row by itself.)                  *)
SuccessKeptUnlessRaced ==
  \A m \in Messages :
    Executed(m) /\ m \notin events \cup raced /\ intake[m] = 1
      => db[m].status = "SUCCESS"

(* What the one minute of findPending buys: when a transaction is settled  *)
(* and its event handled within it, no batch was lost and the message was  *)
(* delivered once, Axelar is told that an executed message cannot be       *)
(* executed only when its SUCCESS was written in that same window.         *)
ReportedIsNotExecuted ==
  \A m \in Messages :
    Timely /\ faults + throws = 0 /\ intake[m] = 1 /\ reports[m] > 0 /\ m \notin raced
      => ~Executed(m)

(* What the comment above the NotEnoughGasError branch says: the message   *)
(* is not retried and is failed at once, so Axelar is told once.           *)
FailedAtOnce ==
  \A m \in Messages : faults = 0 => reports[m] <= intake[m]

(* What the comment in processPendingMessageApproved says: an entry whose  *)
(* transaction was not sent gets its fields back, except that retry is 1   *)
(* or more.                                                                *)
UnsentKeepsRetry ==
  \A m \in built \cap toUpdate :
    pc = "update" /\ local[m].hash = 0 /\ intake[m] = 1
      => local[m].retry = IF db[m].retry = 0 THEN 1 ELSE db[m].retry

(* Every PENDING message is eventually executed or given up, when the      *)
(* faults end and no payload is garbled.                                   *)
EveryMessageSettles ==
  \A m \in Messages : db[m].status = "PENDING" ~> db[m].status # "PENDING"
==============================================================================
