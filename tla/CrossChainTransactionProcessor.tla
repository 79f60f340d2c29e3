--------------------- MODULE CrossChainTransactionProcessor ---------------------
(***************************************************************************)
(* From an event on the chain to Axelar: the consumer of the notifier's    *)
(* queue, which puts the hashes of interesting transactions into a set in  *)
(* Redis (EventProcessorService), and the cron that takes each of them,    *)
(* waits for it to be complete, turns its log into events, posts them to   *)
(* the GMP API and removes it from the set                                 *)
(* (CrossChainTransactionProcessorService, AxelarGmpApi.postEvents).       *)
(*                                                                         *)
(* The consumer and the cron share only the set; the cron shares the table *)
(* message_approved with the processes of ApprovalsProcessor and           *)
(* MessageApprovedProcessor, of which only the writes are here. Log is the *)
(* log of each transaction, as the network API has it once the transaction *)
(* is complete.                                                            *)
(* An entry becomes an event or none (EventOf), or its handler throws      *)
(* (HandlerThrows); GatewayProcessor, GasServiceProcessor and ItsProcessor *)
(* decide which. Indices of a log begin with 1.                            *)
(***************************************************************************)
EXTENDS Integers, Sequences, FiniteSets

CONSTANTS
  Txs,       \* transactions
  Calls,     \* sender, destination and payload hash of a contract call
  Messages,  \* messages from other chains, by source chain and id
  Log,       \* per transaction, its log, see Entries
  NumBlocks, \* blocks in the notifier's queue
  Block,     \* per block, its events, see NotifierEvents
  MaxFaults  \* bound: crashes, failed requests and retriable answers explored

GatewayKinds == {"CALL", "MESSAGE_APPROVED", "MESSAGE_EXECUTED", "SIGNERS_ROTATED"}

GasServiceKinds == {"GAS_PAID", "GAS_ADDED", "REFUNDED"}

(* One entry of a log. "garbledCall": a contract call that does not decode; *)
(* "garbled": any other entry that does not; "other": one that is ignored. *)
(* It is about a call, that of a CALL or the one a GAS_PAID pays for, or a *)
(* message, the one that was executed.                                     *)
Entries == [kind : GatewayKinds \cup GasServiceKinds \cup {"ITS", "garbledCall", "garbled", "other"},
            call : Calls, message : Messages]

Blocks == 1 .. NumBlocks

(* An event of the notifier: one that handleEvent looks for, any other, or *)
(* one of a watched contract that comes without topics.                    *)
NotifierEvents == [txHash : Txs, kind : {"watched", "other", "bare"}]

ASSUME TxsFinite == IsFiniteSet(Txs)
ASSUME LogType == Log \in [Txs -> Seq(Entries)]
ASSUME BlocksType == NumBlocks \in Nat /\ Block \in [Blocks -> SUBSET NotifierEvents]
ASSUME MaxFaultsType == MaxFaults \in Nat

VARIABLES
  queue,     \* blocks the notifier has not had an acknowledgement for
  redis,     \* the set crossChainTransactions
  status,    \* per transaction, as the network API reports it
  pc,        \* the cron: "idle", "scan", "handle", "mark", "gather", "post", "remove"
  members,   \* what smembers answered and the cron has not visited
  cur,       \* the transaction at hand, a set of at most one
  index,     \* the log entry to handle next
  toSend,    \* eventsToSend
  answered,  \* per transaction, the events GMP accepted or refused for good
  posts,     \* per transaction, requests that reached GMP
  rows,      \* per message, its row: "absent", "SUCCESS" or "PENDING", for FAILED too
  rewritten, \* messages whose row another process wrote since this cron last
             \* looked for it, or marked it
  deliveries,\* per transaction, how often it was put into the set
  faults     \* faults so far

consumer == <<queue, deliveries>>
cron     == <<pc, members, cur, index, toSend>>
axelar   == <<answered, posts>>
table    == <<rows, rewritten>>
vars     == <<consumer, redis, status, cron, axelar, table, faults>>

Init ==
  /\ queue = Blocks /\ redis = {}
  /\ status = [t \in Txs |-> "pending"]
  /\ pc = "idle" /\ members = {} /\ cur = {} /\ index = 0 /\ toSend = {}
  /\ answered = [t \in Txs |-> {}]
  /\ posts = [t \in Txs |-> 0]
  /\ rows = [m \in Messages |-> "absent"] /\ rewritten = {}
  /\ deliveries = [t \in Txs |-> 0]
  /\ faults = 0

Fault == faults < MaxFaults /\ faults' = faults + 1

------------------------------------------------------------------------------
(* The processors: what becomes of entry i of the log of t                 *)

Kind(t, i) == Log[t][i].kind

(* The calls after a payment that have the same sender, destination and    *)
(* payload.                                                                *)
CallsAfter(t, i) == {j \in i + 1 .. Len(Log[t]) :
                       Kind(t, j) = "CALL" /\ Log[t][j].call = Log[t][i].call}

(* Variant: the search begins at the start of the log.                     *)
CorrespondingCallFromStart(t, i) ==
  LET C == {j \in 1 .. Len(Log[t]) : Kind(t, j) = "CALL" /\ Log[t][j].call = Log[t][i].call}
  IN  {j \in C : \A k \in C : j <= k}

(* findCorrespondingCallContractEvent: the first of them, if any.          *)
CorrespondingCall(t, i) == {j \in CallsAfter(t, i) : \A k \in CallsAfter(t, i) : j <= k}

(* The search for the call of a payment decodes each call it passes.       *)
HandlerThrows(t, i) ==
  \/ Kind(t, i) \in {"garbledCall", "garbled"}
  \/ /\ Kind(t, i) = "GAS_PAID"
     /\ \E g \in i + 1 .. Len(Log[t]) :
          Kind(t, g) = "garbledCall" /\ \A j \in CallsAfter(t, i) : g < j

(* An event for Axelar, from an entry and about a message: the index of    *)
(* the call that is the message, or 0 when it is not of this transaction.  *)
Event(type, i, m) == [type |-> type, index |-> i, message |-> m]

GatewayEvent(t, i) ==
  {Event(type, i, IF type \in {"CALL", "SIGNERS_ROTATED"} THEN i ELSE 0) :
     type \in GatewayKinds \cap {Kind(t, i)}}

(* A payment whose call is not found becomes no event.                     *)
GasServiceEvent(t, i) ==
  CASE Kind(t, i) = "GAS_PAID" -> {Event("GAS_CREDIT", i, j) : j \in CorrespondingCall(t, i)}
    [] Kind(t, i) = "GAS_ADDED" -> {Event("GAS_CREDIT", i, 0)}
    [] Kind(t, i) = "REFUNDED" -> {Event("GAS_REFUNDED", i, 0)}
    [] OTHER -> {}

(* The contract call is taken to be the entry before.                      *)
ItsEvent(t, i) == IF Kind(t, i) = "ITS" THEN {Event("ITS", i, i - 1)} ELSE {}

EventOf(t, i) == GatewayEvent(t, i) \cup GasServiceEvent(t, i) \cup ItsEvent(t, i)

(* The events of the first n entries.                                      *)
EventsOf(t, n) == UNION {EventOf(t, i) : i \in 1 .. n}

------------------------------------------------------------------------------
(* consumeEvents                                                           *)

(* handleEvent decodes topics[0], which throws when there is none.         *)
HandleEventThrows(b) == \E e \in Block[b] : e.kind = "bare"

(* crossChainTransactions: what handleEvent lets through.                  *)
CrossChain(b) == {e.txHash : e \in {e \in Block[b] : e.kind = "watched"}}

Sadd(S) == /\ redis' = redis \cup S
           /\ deliveries' = [t \in Txs |-> deliveries[t] + IF t \in S THEN 1 ELSE 0]

(* A block whose handling throws goes back to the queue unchanged, for     *)
(* ever; that is no step.                                                  *)
ConsumeEvents(b) ==
  /\ b \in queue /\ ~HandleEventThrows(b)
  /\ queue' = queue \ {b}
  /\ Sadd(CrossChain(b))
  /\ UNCHANGED <<status, cron, axelar, table, faults>>

(* sadd fails, or the process stops before it has acknowledged: the block  *)
(* comes again, whether or not the set has its transactions.               *)
ConsumeEventsFails(b) ==
  /\ b \in queue /\ ~HandleEventThrows(b) /\ Fault
  /\ Sadd(CrossChain(b)) \/ UNCHANGED <<redis, deliveries>>
  /\ UNCHANGED <<queue, status, cron, axelar, table>>

Complete(t) ==
  /\ status[t] = "pending"
  /\ \E s \in {"success", "failed"} : status' = [status EXCEPT ![t] = s]
  /\ UNCHANGED <<consumer, redis, cron, axelar, table, faults>>

------------------------------------------------------------------------------
(* processCrossChainTransactionsRaw                                        *)

Start ==
  /\ pc = "idle" /\ redis # {}
  /\ pc' = "scan" /\ members' = redis
  /\ UNCHANGED <<consumer, redis, status, cur, index, toSend, axelar, table, faults>>

End ==
  /\ pc = "scan" /\ members = {}
  /\ pc' = "idle"
  /\ UNCHANGED <<consumer, redis, status, members, cur, index, toSend, axelar, table, faults>>

(* Variant: a transaction that is not complete is handled all the same.    *)
VisitIgnoringCompletion(t) ==
  /\ pc = "scan" /\ t \in members
  /\ members' = members \ {t}
  /\ cur' = {t} /\ index' = 1
  /\ pc' = IF status[t] = "failed" THEN "remove" ELSE "handle"
  /\ UNCHANGED <<consumer, redis, status, toSend, axelar, table, faults>>

(* getTransactionWithFee: one that is not complete is left for later, the  *)
(* log of a failed one is not handled.                                     *)
Visit(t) ==
  /\ pc = "scan" /\ t \in members
  /\ members' = members \ {t}
  /\ IF status[t] = "pending"
     THEN UNCHANGED <<pc, cur, index>>
     ELSE /\ cur' = {t} /\ index' = 1
          /\ pc' = IF status[t] = "success" THEN "handle" ELSE "remove"
  /\ UNCHANGED <<consumer, redis, status, toSend, axelar, table, faults>>

VisitFails(t) ==
  /\ pc = "scan" /\ t \in members /\ Fault
  /\ members' = members \ {t}
  /\ UNCHANGED <<consumer, redis, status, pc, cur, index, toSend, axelar, table>>

(* Variant: eventsToSend outlives the transaction it was made for.         *)
NextTransactionKeepingEvents ==
  pc' = "scan" /\ cur' = {} /\ index' = 0 /\ UNCHANGED <<members, toSend>>

(* On to the next member; eventsToSend belongs to one transaction.         *)
NextTransaction ==
  pc' = "scan" /\ cur' = {} /\ index' = 0 /\ toSend' = {} /\ UNCHANGED members

(* At an entry that is to become an event, or none.                        *)
AtEntry(t) == t \in cur /\ index <= Len(Log[t]) /\ ~HandlerThrows(t, index)

Executed(t, i) == Kind(t, i) = "MESSAGE_EXECUTED"

GatherEvent(t) ==
  /\ toSend' = toSend \cup EventOf(t, index)
  /\ index' = index + 1 /\ pc' = "handle"
  /\ UNCHANGED <<consumer, redis, status, members, cur, axelar, table, faults>>

(* One log entry that is not about an executed message.                    *)
HandleEntry(t) ==
  /\ pc = "handle" /\ AtEntry(t) /\ ~Executed(t, index)
  /\ GatherEvent(t)

(* findBySourceChainAndMessageId: without a row there is a warning, and    *)
(* nothing to mark. The row may still come.                                *)
FindRow(t) ==
  /\ pc = "handle" /\ AtEntry(t) /\ Executed(t, index)
  /\ LET m == Log[t][index].message
     IN  /\ pc' = IF rows[m] = "absent" THEN "gather" ELSE "mark"
         /\ rewritten' = rewritten \ {m}
  /\ UNCHANGED <<consumer, redis, status, members, cur, index, toSend, axelar, rows, faults>>

(* updateStatusAndSuccessTimes, over whatever the row is by now.           *)
Marked(m) == rows' = [rows EXCEPT ![m] = "SUCCESS"] /\ rewritten' = rewritten \ {m}

(* Variant: the row of an executed message is read and never written.      *)
MarkRowForgotten(t) ==
  /\ pc = "mark" /\ t \in cur
  /\ pc' = "gather"
  /\ UNCHANGED <<consumer, redis, status, members, cur, index, toSend, axelar, table, faults>>

MarkRow(t) ==
  /\ pc = "mark" /\ t \in cur
  /\ Marked(Log[t][index].message)
  /\ pc' = "gather"
  /\ UNCHANGED <<consumer, redis, status, members, cur, index, toSend, axelar, faults>>

(* MESSAGE_EXECUTED is made with a row or without.                         *)
Gather(t) == pc = "gather" /\ t \in cur /\ GatherEvent(t)

(* The other processes write the row: an EXECUTE task, delivered for the   *)
(* first time or again, makes it PENDING, and the cron of                  *)
(* MessageApprovedProcessor saves the copy it has.                         *)
RowWritten(m) ==
  /\ rows' = [rows EXCEPT ![m] = "PENDING"]
  /\ rewritten' = rewritten \cup {m}
  /\ UNCHANGED <<consumer, redis, status, cron, axelar, faults>>

(* Variant: the error of one transaction ends the cron.                    *)
EntryThrowsOut(t) ==
  /\ pc = "handle" /\ t \in cur /\ index <= Len(Log[t])
  /\ HandlerThrows(t, index)
  /\ pc' = "idle" /\ cur' = {} /\ index' = 0 /\ toSend' = {} /\ members' = {}
  /\ UNCHANGED <<consumer, redis, status, axelar, table, faults>>

(* Whatever a handler throws is caught per transaction.                    *)
EntryThrows(t) ==
  /\ pc = "handle" /\ t \in cur /\ index <= Len(Log[t])
  /\ HandlerThrows(t, index)
  /\ NextTransaction
  /\ UNCHANGED <<consumer, redis, status, axelar, table, faults>>

(* The row cannot be read or written, or is written and the answer lost.   *)
RowFails(t) ==
  /\ \/ pc = "handle" /\ AtEntry(t) /\ Executed(t, index) /\ UNCHANGED table
     \/ pc = "mark" /\ t \in cur /\ (Marked(Log[t][index].message) \/ UNCHANGED table)
  /\ Fault
  /\ NextTransaction
  /\ UNCHANGED <<consumer, redis, status, axelar>>

Handled(t) ==
  /\ pc = "handle" /\ t \in cur /\ index > Len(Log[t])
  /\ pc' = IF toSend = {} THEN "remove" ELSE "post"
  /\ UNCHANGED <<consumer, redis, status, members, cur, index, toSend, axelar, table, faults>>

(* A request reaches GMP, which accepts, or refuses for good, the events   *)
(* in S.                                                                   *)
Reach(t, S) == /\ posts' = [posts EXCEPT ![t] = @ + 1]
               /\ answered' = [answered EXCEPT ![t] = @ \cup S]

(* Every result is ACCEPTED or not retriable.                              *)
Post(t) ==
  /\ pc = "post" /\ t \in cur
  /\ Reach(t, toSend)
  /\ pc' = "remove"
  /\ UNCHANGED <<consumer, redis, status, members, cur, index, toSend, table, faults>>

(* Variant: a retriable result is passed over like one that is not.        *)
PostIgnoringRetriable(t) ==
  /\ pc = "post" /\ t \in cur /\ Fault
  /\ \E S \in SUBSET toSend : Reach(t, S)
  /\ pc' = "remove"
  /\ UNCHANGED <<consumer, redis, status, members, cur, index, toSend, table>>

(* A result is retriable, results are missing, or the request fails before *)
(* or after it reached GMP: postEvents throws, and all will be sent again. *)
PostThrows(t) ==
  /\ pc = "post" /\ t \in cur /\ Fault
  /\ (\E S \in SUBSET toSend : Reach(t, S)) \/ UNCHANGED axelar
  /\ NextTransaction
  /\ UNCHANGED <<consumer, redis, status, table>>

(* Variant: a transaction whose events were posted is not removed.         *)
RemoveForgotten(t) ==
  /\ pc = "remove" /\ t \in cur
  /\ redis' = IF status[t] = "failed" THEN redis \ {t} ELSE redis
  /\ NextTransaction
  /\ UNCHANGED <<consumer, status, axelar, table, faults>>

(* srem, also of a transaction the consumer has put there again meanwhile. *)
Remove(t) ==
  /\ pc = "remove" /\ t \in cur
  /\ redis' = redis \ {t}
  /\ NextTransaction
  /\ UNCHANGED <<consumer, status, axelar, table, faults>>

RemoveFails(t) ==
  /\ pc = "remove" /\ t \in cur /\ Fault
  /\ redis' \in {redis, redis \ {t}}
  /\ NextTransaction
  /\ UNCHANGED <<consumer, status, axelar, table>>

Crash ==
  /\ pc # "idle" /\ Fault
  /\ pc' = "idle" /\ members' = {} /\ cur' = {} /\ index' = 0 /\ toSend' = {}
  /\ UNCHANGED <<consumer, redis, status, axelar, table>>

------------------------------------------------------------------------------
Consumer == \E b \in Blocks : ConsumeEvents(b)

Cron ==
  \/ Start \/ End
  \/ \E t \in Txs : \/ Visit(t) \/ HandleEntry(t) \/ FindRow(t) \/ MarkRow(t) \/ Gather(t)
                   \/ EntryThrows(t) \/ Handled(t) \/ Post(t) \/ Remove(t)

Next ==
  \/ Consumer \/ Cron \/ Crash
  \/ \E b \in Blocks : ConsumeEventsFails(b)
  \/ \E m \in Messages : RowWritten(m)
  \/ \E t \in Txs : Complete(t) \/ VisitFails(t) \/ RowFails(t) \/ PostThrows(t) \/ RemoveFails(t)

Spec == Init /\ [][Next]_vars

(* The queue delivers, and the cron is fired every 10 seconds. Nothing is  *)
(* assumed of the network: a transaction may never be complete.            *)
FairSpec == Spec /\ WF_vars(Consumer) /\ WF_vars(Cron)

------------------------------------------------------------------------------
(* The type of every variable, and that eventsToSend holds only events of  *)
(* the transaction at hand, from the part of its log handled so far.       *)
TypeOK ==
  /\ queue \subseteq Blocks /\ redis \subseteq Txs
  /\ status \in [Txs -> {"pending", "success", "failed"}]
  /\ pc \in {"idle", "scan", "handle", "mark", "gather", "post", "remove"}
  /\ members \subseteq Txs
  /\ cur \subseteq Txs /\ (cur = {} <=> pc \in {"idle", "scan"})
  /\ index \in Nat /\ (cur = {} => toSend = {})
  /\ \A t \in cur : index <= Len(Log[t]) + 1 /\ toSend \subseteq EventsOf(t, index - 1)
  /\ \A t \in Txs : answered[t] \subseteq EventsOf(t, Len(Log[t]))
  /\ posts \in [Txs -> Nat] /\ deliveries \in [Txs -> Nat]
  /\ rows \in [Messages -> {"absent", "PENDING", "SUCCESS"}]
  /\ rewritten \subseteq Messages
  /\ faults \in Nat

(* GMP has had its say on every event of the transaction.                  *)
Told(t) == EventsOf(t, Len(Log[t])) \subseteq answered[t]

Delivery == INSTANCE EventDelivery
  WITH owed <- redis, told <- {t \in Txs : status[t] = "failed" \/ Told(t)}

(* The crons, the consumer and GMP together keep the promise of            *)
(* EventDelivery: a transaction leaves the set in Redis only when it       *)
(* failed, or when GMP has answered for good on each of its events; no     *)
(* exception, crash, retriable answer or second delivery drops one.        *)
DeliversEvents == Delivery!Spec

(* Axelar is told only what is final: a request reaches GMP only for a     *)
(* transaction that is complete and successful.                            *)
OnlyFinalIsPosted == \A t \in Txs : posts[t] > 0 => status[t] = "success"

(* GMP gets the events of a transaction once per delivery of its blocks,   *)
(* and again only after a fault.                                           *)
PostsBounded == \A t \in Txs : posts[t] <= deliveries[t] + faults

(* When Axelar is about to hear that a message was executed, its row is    *)
(* SUCCESS or is not there, unless another process wrote it after this one *)
(* had marked it or looked for it in vain. The exception is real: a row    *)
(* that comes late, or again, is PENDING although Axelar knows better, and *)
(* the relayer will try to execute the message once more.                  *)
MarkedBeforePosted ==
  pc = "post" => \A t \in cur : \A e \in toSend :
    LET m == Log[t][e.index].message
    IN  e.type = "MESSAGE_EXECUTED" => rows[m] \in {"SUCCESS", "absent"} \/ m \in rewritten

(* Between two payments for equal calls there is such a call.              *)
PaidInTurn(t) ==
  \A i, j \in 1 .. Len(Log[t]) :
    /\ i < j /\ Kind(t, i) = "GAS_PAID" /\ Kind(t, j) = "GAS_PAID"
    /\ Log[t][i].call = Log[t][j].call
    => \E c \in CallsAfter(t, i) : c < j

(* Axelar never credits two payments to one message, also when a           *)
(* transaction makes the same call twice, as long as it pays for each call *)
(* before that call and after the previous one.                            *)
NoCallCreditedTwice ==
  \A t \in Txs : PaidInTurn(t) =>
    \A d, e \in answered[t] :
      d.type = "GAS_CREDIT" /\ e.type = "GAS_CREDIT" /\ d.message = e.message /\ d.message # 0
        => d = e

Garbled(t) == \E i \in 1 .. Len(Log[t]) : HandlerThrows(t, i)

Reported(t) == \E b \in Blocks : t \in CrossChain(b) /\ ~HandleEventThrows(b)

(* Every event of a successful transaction some block reports is           *)
(* eventually answered for good, also when the handling of other blocks or *)
(* transactions throws for ever, or other transactions are never complete. *)
EveryEventIsAnswered ==
  \A t \in Txs : Reported(t) /\ status[t] = "success" /\ ~Garbled(t) ~> Told(t)
==============================================================================
