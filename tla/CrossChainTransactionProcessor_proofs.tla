---------------- MODULE CrossChainTransactionProcessor_proofs ----------------
(***************************************************************************)
(* The invariants of CrossChainTransactionProcessor and its refinement of  *)
(* EventDelivery, for any transactions, logs, blocks and number of faults. *)
(***************************************************************************)
EXTENDS CrossChainTransactionProcessor, TLAPS

USE DEF consumer, cron, axelar, table

(* What TypeOK leaves open: that answered is a function.                   *)
AnsweredType == answered \in [Txs -> SUBSET UNION {EventsOf(t, Len(Log[t])) : t \in Txs}]

(* The cron works on what the set holds: nobody else removes from it.      *)
WorkInv ==
  /\ members \cup cur \subseteq redis
  /\ members \cap cur = {}
  /\ \A t \in cur : cur = {t} /\ index > 0

(* How far the transaction at hand is: nothing but its complete log leads  *)
(* to a request, and nothing but its failure or an answer for good on each *)
(* of its events to its removal.                                           *)
HandledInv ==
  \A t \in cur :
    /\ pc \in {"handle", "mark", "gather", "post"} => status[t] = "success" /\ toSend = EventsOf(t, index - 1)
    /\ pc = "post" => index = Len(Log[t]) + 1
    /\ pc = "remove" => status[t] = "failed" \/ Told(t)

(* Every transaction in the set has a request left, but for the one that   *)
(* is to be removed.                                                       *)
RequestsInv ==
  /\ OnlyFinalIsPosted /\ PostsBounded
  /\ \A t \in redis : ~(pc = "remove" /\ t \in cur) => posts[t] + 1 <= deliveries[t] + faults

(* The row of m is none to be marked, or was written behind our back.      *)
Known(m) == rows[m] \in {"SUCCESS", "absent"} \/ m \in rewritten

MessageAt(t, i) == Log[t][i].message

(* An executed message is known from its lookup on, but for the time       *)
(* between a lookup that found its row and the update of that row.         *)
MarksInv ==
  \A t \in cur :
    /\ pc \in {"mark", "gather"} => index <= Len(Log[t])
    /\ \A e \in toSend :
         e.type = "MESSAGE_EXECUTED"
         => \/ Known(MessageAt(t, e.index))
            \/ pc = "mark" /\ MessageAt(t, e.index) = MessageAt(t, index)
    /\ pc = "gather" => Known(MessageAt(t, index))

IInv == TypeOK /\ AnsweredType /\ WorkInv /\ HandledInv /\ RequestsInv /\ MarksInv

------------------------------------------------------------------------------
(* The processors.                                                         *)

LEMMA LogSeq ==
  ASSUME NEW t \in Txs
  PROVE  /\ Len(Log[t]) \in Nat
         /\ \A i \in 1 .. Len(Log[t]) : Log[t][i] \in Entries /\ MessageAt(t, i) \in Messages
<1>1. Log[t] \in Seq(Entries)
  BY LogType
<1>2. Len(Log[t]) \in Nat /\ \A i \in 1 .. Len(Log[t]) : Log[t][i] \in Entries
  BY <1>1
<1>3. \A e \in Entries : e.message \in Messages
  BY DEF Entries
<1>4. QED
  BY <1>2, <1>3 DEF MessageAt

LEMMA NoEvents == \A t \in Txs : EventsOf(t, 0) = {}
  BY DEF EventsOf

LEMMA MoreEvents ==
  ASSUME NEW t \in Txs, NEW n \in Nat \ {0}
  PROVE  EventsOf(t, n) = EventsOf(t, n - 1) \cup EventOf(t, n)
<1>1. 1 .. n = (1 .. n - 1) \cup {n}
  OBVIOUS
<1>2. QED
  BY <1>1 DEF EventsOf

LEMMA EventsGrow ==
  ASSUME NEW t \in Txs, NEW m \in Int, NEW n \in Int, m <= n
  PROVE  EventsOf(t, m) \subseteq EventsOf(t, n)
<1>1. 1 .. m \subseteq 1 .. n
  OBVIOUS
<1>2. QED
  BY <1>1 DEF EventsOf

LEMMA EventsOfLog ==
  ASSUME TypeOK, NEW t \in cur, NEW e \in toSend
  PROVE  \E i \in 1 .. Len(Log[t]) : e \in EventOf(t, i)
<1>1. e \in EventsOf(t, index - 1) /\ index \in Nat /\ index <= Len(Log[t]) + 1 /\ t \in Txs
  BY DEF TypeOK
<1>2. PICK i \in 1 .. index - 1 : e \in EventOf(t, i)
  BY <1>1 DEF EventsOf
<1>3. i \in 1 .. Len(Log[t])
  BY <1>1, LogSeq
<1>4. QED
  BY <1>2, <1>3

LEMMA ExecutedEvent ==
  ASSUME NEW t \in Txs, NEW i \in 1 .. Len(Log[t]), NEW e \in EventOf(t, i),
         e.type = "MESSAGE_EXECUTED"
  PROVE  Kind(t, i) = "MESSAGE_EXECUTED" /\ e.index = i
  BY DEF EventOf, GatewayEvent, GasServiceEvent, ItsEvent, Event, GatewayKinds

(* A credit that names a call of its transaction comes from a payment, and *)
(* the call is the first equal one after that payment.                     *)
LEMMA CreditEvent ==
  ASSUME NEW t \in Txs, NEW i \in 1 .. Len(Log[t]), NEW e \in EventOf(t, i),
         e.type = "GAS_CREDIT", e.message # 0
  PROVE  /\ Kind(t, i) = "GAS_PAID" /\ e.message \in CorrespondingCall(t, i)
         /\ e = Event("GAS_CREDIT", i, e.message)
<1>1. e \notin GatewayEvent(t, i) /\ e \notin ItsEvent(t, i)
  BY DEF GatewayEvent, ItsEvent, Event, GatewayKinds
<1>2. e \in GasServiceEvent(t, i)
  BY <1>1 DEF EventOf
<1>3. Kind(t, i) = "GAS_PAID"
  BY <1>2 DEF GasServiceEvent, Event
<1>4. QED
  BY <1>2, <1>3 DEF GasServiceEvent, Event

(* When a transaction pays in turn, payments for equal calls have          *)
(* different calls.                                                        *)
LEMMA CallsDiffer ==
  ASSUME NEW t \in Txs, PaidInTurn(t),
         NEW i \in 1 .. Len(Log[t]), NEW j \in 1 .. Len(Log[t]), i < j,
         Kind(t, i) = "GAS_PAID", Kind(t, j) = "GAS_PAID",
         NEW m \in CorrespondingCall(t, i)
  PROVE  m \notin CorrespondingCall(t, j)
<1>1. SUFFICES ASSUME m \in CorrespondingCall(t, j) PROVE FALSE
  OBVIOUS
<1>2. m \in CallsAfter(t, i) /\ m \in CallsAfter(t, j)
  BY <1>1 DEF CorrespondingCall
<1>3. Log[t][i].call = Log[t][j].call
  BY <1>2 DEF CallsAfter
<1>4. PICK c \in CallsAfter(t, i) : c < j
  BY <1>3 DEF PaidInTurn
<1>5. m <= c
  BY <1>4 DEF CorrespondingCall
<1>6. m > j /\ m \in Int /\ c \in Int
  BY <1>2, LogSeq DEF CallsAfter
<1>7. QED
  BY <1>4, <1>5, <1>6

LEMMA CreditsDiffer ==
  ASSUME NEW t \in Txs, PaidInTurn(t),
         NEW d \in EventsOf(t, Len(Log[t])), NEW e \in EventsOf(t, Len(Log[t])),
         d.type = "GAS_CREDIT", e.type = "GAS_CREDIT", d.message = e.message, d.message # 0
  PROVE  d = e
<1>1. PICK i \in 1 .. Len(Log[t]) : d \in EventOf(t, i)
  BY DEF EventsOf
<1>2. PICK j \in 1 .. Len(Log[t]) : e \in EventOf(t, j)
  BY DEF EventsOf
<1>3. /\ Kind(t, i) = "GAS_PAID" /\ d.message \in CorrespondingCall(t, i)
      /\ d = Event("GAS_CREDIT", i, d.message)
  BY <1>1, CreditEvent
<1>4. /\ Kind(t, j) = "GAS_PAID" /\ d.message \in CorrespondingCall(t, j)
      /\ e = Event("GAS_CREDIT", j, d.message)
  BY <1>2, CreditEvent
<1>5. ~(i < j) /\ ~(j < i)
  BY <1>3, <1>4, CallsDiffer
<1>6. i = j
  BY <1>5, LogSeq
<1>7. QED
  BY <1>3, <1>4, <1>6

------------------------------------------------------------------------------
(* The parts that several actions share.                                   *)

TableType ==
  /\ rows \in [Messages -> {"absent", "PENDING", "SUCCESS"}]
  /\ rewritten \subseteq Messages

LEMMA TableKept ==
  ASSUME IInv, UNCHANGED table
  PROVE  TableType'
  BY DEF IInv, TypeOK, TableType

LEMMA RowMarked ==
  ASSUME IInv, NEW m \in Messages, Marked(m)
  PROVE  TableType' /\ \A n \in Messages : n = m \/ Known(n) => Known(n)'
<1>1. /\ rows \in [Messages -> {"absent", "PENDING", "SUCCESS"}] /\ rewritten \subseteq Messages
      /\ rows' = [rows EXCEPT ![m] = "SUCCESS"] /\ rewritten' = rewritten \ {m}
  BY DEF IInv, TypeOK, Marked
<1>2. rows'[m] = "SUCCESS" /\ \A n \in Messages : n # m => rows'[n] = rows[n]
  BY <1>1
<1>3. QED
  BY <1>1, <1>2 DEF TableType, Known

(* The consumer and the network do not disturb the transaction at hand.    *)
LEMMA CronKept ==
  ASSUME IInv, UNCHANGED <<cron, axelar, table>>, redis \subseteq redis',
         \A t \in Txs : status[t] # "pending" => status'[t] = status[t]
  PROVE  WorkInv' /\ HandledInv' /\ MarksInv' /\ OnlyFinalIsPosted'
<1> USE DEF IInv
<1>1. WorkInv'
  BY DEF WorkInv
<1>2. HandledInv'
  BY DEF HandledInv, TypeOK, Told
<1>3. MarksInv' /\ OnlyFinalIsPosted'
  BY DEF MarksInv, Known, RequestsInv, OnlyFinalIsPosted, TypeOK
<1>4. QED
  BY <1>1, <1>2, <1>3

(* The cron lets go of the transaction at hand, without a request.         *)
LEMMA LetGo ==
  ASSUME IInv, pc' \in {"idle", "scan"}, cur' = {}, index' = 0, toSend' = {},
         members' \subseteq members, members' \subseteq redis', redis' \subseteq redis,
         TableType', faults' \in Nat, UNCHANGED <<queue, status, deliveries, axelar>>,
         \/ faults' = faults + 1
         \/ faults' = faults /\ \A t \in redis' : ~(pc = "remove" /\ t \in cur)
  PROVE  IInv'
<1> USE DEF IInv
<1>1. TypeOK' /\ AnsweredType' /\ WorkInv' /\ HandledInv'
  BY DEF TypeOK, AnsweredType, WorkInv, HandledInv, TableType
<1>2. OnlyFinalIsPosted'
  BY DEF RequestsInv, OnlyFinalIsPosted
<1>3. \A t \in Txs : posts[t] \in Nat /\ deliveries[t] \in Nat /\ faults \in Nat
  BY DEF TypeOK
<1>4. PostsBounded'
  BY <1>3 DEF RequestsInv, PostsBounded
<1>5. \A t \in redis' : t \in redis /\ t \in Txs
  BY DEF TypeOK
<1>6. \A t \in redis' : posts[t] + 1 <= deliveries[t] + faults'
  <2>1. CASE faults' = faults + 1
    BY <2>1, <1>3, <1>5 DEF RequestsInv, PostsBounded
  <2>2. CASE faults' # faults + 1
    BY <2>2, <1>5 DEF RequestsInv
  <2>3. QED
    BY <2>1, <2>2
<1>7. MarksInv'
  BY DEF MarksInv
<1>8. QED
  BY <1>1, <1>2, <1>4, <1>6, <1>7 DEF RequestsInv

(* A request that answers events of the transaction at hand.               *)
LEMMA Answered ==
  ASSUME IInv, pc = "post", NEW t \in cur, NEW S \in SUBSET toSend, Reach(t, S)
  PROVE  /\ AnsweredType' /\ posts' \in [Txs -> Nat]
         /\ \A u \in Txs : answered'[u] \subseteq EventsOf(u, Len(Log[u]))
         /\ \A u \in Txs : answered'[u] = IF u = t THEN answered[u] \cup S ELSE answered[u]
         /\ \A u \in Txs : posts'[u] = IF u = t THEN posts[u] + 1 ELSE posts[u]
<1> USE DEF IInv
<1>1. t \in Txs
  BY DEF TypeOK
<1>2. /\ \A u \in Txs : answered'[u] = IF u = t THEN answered[u] \cup S ELSE answered[u]
      /\ DOMAIN answered' = Txs /\ answered' = [u \in Txs |-> answered'[u]]
  BY <1>1 DEF AnsweredType, Reach
<1>3. toSend \subseteq EventsOf(t, Len(Log[t]))
  BY <1>1, LogSeq DEF HandledInv
<1>4. \A u \in Txs : answered'[u] \subseteq EventsOf(u, Len(Log[u]))
  <2>1. S \subseteq EventsOf(t, Len(Log[t])) /\ \A u \in Txs : answered[u] \subseteq EventsOf(u, Len(Log[u]))
    BY <1>3 DEF TypeOK
  <2>2. QED
    BY <1>2, <2>1
<1>5. AnsweredType'
  BY <1>2, <1>4 DEF AnsweredType
<1>6. posts' \in [Txs -> Nat] /\ \A u \in Txs : posts'[u] = IF u = t THEN posts[u] + 1 ELSE posts[u]
  BY <1>1 DEF TypeOK, Reach
<1>7. QED
  BY <1>2, <1>4, <1>5, <1>6

LEMMA NextTransactionStep ==
  ASSUME IInv, NextTransaction, TableType', redis' = redis, pc # "remove" \/ faults' = faults + 1,
         UNCHANGED <<consumer, status, axelar>>, faults' \in {faults, faults + 1}
  PROVE  IInv'
<1>1. faults' \in Nat /\ members \subseteq redis
  BY DEF IInv, TypeOK, WorkInv
<1>2. QED
  BY <1>1, LetGo DEF NextTransaction

------------------------------------------------------------------------------
(* consumeEvents.                                                          *)

LEMMA SaddType ==
  ASSUME IInv, NEW S \in SUBSET Txs, Sadd(S)
  PROVE  /\ redis' \subseteq Txs /\ redis \subseteq redis' /\ deliveries' \in [Txs -> Nat]
         /\ \A t \in Txs : deliveries[t] <= deliveries'[t]
         /\ \A t \in redis' : t \in redis \/ deliveries'[t] = deliveries[t] + 1
<1> DEFINE one(t) == IF t \in S THEN 1 ELSE 0
<1>1. \A t \in Txs : one(t) \in 0 .. 1 /\ (t \in S => one(t) = 1)
  OBVIOUS
<1>2. deliveries' = [t \in Txs |-> deliveries[t] + one(t)]
  BY DEF Sadd
<1>3. redis \subseteq Txs /\ \A t \in Txs : deliveries[t] \in Nat
  BY DEF IInv, TypeOK
<1> HIDE DEF one
<1>4. deliveries' \in [Txs -> Nat] /\ \A t \in Txs : deliveries'[t] = deliveries[t] + one(t)
  BY <1>1, <1>2, <1>3
<1>5. \A t \in Txs : deliveries[t] <= deliveries'[t] /\ (t \in S => deliveries'[t] = deliveries[t] + 1)
  BY <1>1, <1>3, <1>4
<1>6. redis' = redis \cup S
  BY DEF Sadd
<1>7. QED
  BY <1>3, <1>4, <1>5, <1>6

LEMMA CrossChainType ==
  ASSUME NEW b \in Blocks
  PROVE  CrossChain(b) \in SUBSET Txs
  BY BlocksType DEF CrossChain, NotifierEvents

(* What is put into the set has one delivery more than before.             *)
LEMMA ConsumerStep ==
  ASSUME IInv, NEW b \in Blocks, ConsumeEvents(b) \/ ConsumeEventsFails(b)
  PROVE  IInv'
<1> USE DEF IInv
<1>1. /\ UNCHANGED <<status, cron, axelar, table>> /\ queue' \subseteq queue
      /\ faults' \in Nat /\ faults <= faults'
      /\ Sadd(CrossChain(b)) \/ UNCHANGED <<redis, deliveries>>
  BY DEF ConsumeEvents, ConsumeEventsFails, Fault, TypeOK
<1>2. /\ redis' \subseteq Txs /\ redis \subseteq redis' /\ deliveries' \in [Txs -> Nat]
      /\ \A t \in Txs : deliveries[t] <= deliveries'[t]
      /\ \A t \in redis' : t \in redis \/ deliveries'[t] = deliveries[t] + 1
  <2>1. CASE Sadd(CrossChain(b))
    BY <2>1, CrossChainType, SaddType
  <2>2. CASE UNCHANGED <<redis, deliveries>>
    BY <2>2 DEF TypeOK
  <2>3. QED
    BY <1>1, <2>1, <2>2
<1>3. WorkInv' /\ HandledInv' /\ MarksInv' /\ OnlyFinalIsPosted'
  BY <1>1, <1>2, CronKept
<1>4. TypeOK'
  BY <1>1, <1>2 DEF TypeOK
<1>5. AnsweredType'
  BY <1>1 DEF AnsweredType
<1>6. \A t \in Txs : /\ posts[t] \in Nat /\ deliveries[t] \in Nat /\ deliveries'[t] \in Nat
                     /\ faults \in Nat /\ posts[t] <= deliveries[t] + faults
  BY <1>2 DEF TypeOK, RequestsInv, PostsBounded
<1>7. PostsBounded'
  BY <1>1, <1>2, <1>6 DEF PostsBounded
<1>8. ASSUME NEW t \in redis', ~(pc = "remove" /\ t \in cur)
      PROVE  posts[t] + 1 <= deliveries'[t] + faults'
  <2>1. t \in Txs
    BY <1>2
  <2>2. CASE deliveries'[t] = deliveries[t] + 1
    BY <2>1, <2>2, <1>1, <1>6
  <2>3. CASE t \in redis
    BY <2>1, <2>3, <1>1, <1>2, <1>6, <1>8 DEF RequestsInv
  <2>4. QED
    BY <1>2, <2>2, <2>3
<1>9. QED
  BY <1>1, <1>3, <1>4, <1>5, <1>7, <1>8 DEF RequestsInv

LEMMA CompleteStep ==
  ASSUME IInv, NEW t \in Txs, Complete(t)
  PROVE  IInv'
<1> USE DEF IInv
<1>1. /\ UNCHANGED <<consumer, redis, cron, axelar, table, faults>>
      /\ status' \in [Txs -> {"pending", "success", "failed"}]
      /\ \A u \in Txs : status[u] # "pending" => status'[u] = status[u]
  BY DEF Complete, TypeOK
<1>2. WorkInv' /\ HandledInv' /\ MarksInv' /\ OnlyFinalIsPosted'
  BY <1>1, CronKept
<1>3. TypeOK' /\ AnsweredType'
  BY <1>1 DEF TypeOK, AnsweredType
<1>4. RequestsInv'
  BY <1>1, <1>2 DEF RequestsInv, PostsBounded
<1>5. QED
  BY <1>2, <1>3, <1>4

------------------------------------------------------------------------------
(* processCrossChainTransactionsRaw.                                       *)

LEMMA StartEndStep ==
  ASSUME IInv, Start \/ End
  PROVE  IInv'
<1> USE DEF IInv
<1>1. /\ UNCHANGED <<consumer, redis, status, cur, index, toSend, axelar, table, faults>>
      /\ cur = {} /\ pc' \in {"idle", "scan"} /\ members' \subseteq redis
  BY DEF Start, End, TypeOK
<1>2. TypeOK' /\ AnsweredType' /\ WorkInv' /\ HandledInv'
  BY <1>1 DEF TypeOK, AnsweredType, WorkInv, HandledInv
<1>3. RequestsInv' /\ MarksInv'
  BY <1>1 DEF RequestsInv, OnlyFinalIsPosted, PostsBounded, MarksInv, Known, MessageAt
<1>4. QED
  BY <1>2, <1>3

(* A failed transaction is removed at once; a successful one still has its *)
(* request, whatever the set says.                                         *)
LEMMA VisitStep ==
  ASSUME IInv, NEW t \in Txs, Visit(t)
  PROVE  IInv'
<1> USE DEF IInv
<1>1. /\ UNCHANGED <<consumer, redis, status, toSend, axelar, table, faults>>
      /\ members' = members \ {t} /\ t \in members /\ t \in redis
      /\ pc = "scan" /\ cur = {} /\ toSend = {}
  BY DEF Visit, TypeOK, WorkInv
<1>2. CASE status[t] = "pending"
  <2>1. UNCHANGED <<pc, cur, index>>
    BY <1>2 DEF Visit
  <2>2. TypeOK' /\ AnsweredType' /\ WorkInv' /\ HandledInv'
    BY <1>1, <2>1 DEF TypeOK, AnsweredType, WorkInv, HandledInv
  <2>3. RequestsInv' /\ MarksInv'
    BY <1>1, <2>1 DEF RequestsInv, OnlyFinalIsPosted, PostsBounded, MarksInv, Known, MessageAt
  <2>4. QED
    BY <2>2, <2>3
<1>3. CASE status[t] # "pending"
  <2>1. /\ cur' = {t} /\ index' = 1
        /\ pc' = IF status[t] = "success" THEN "handle" ELSE "remove"
    BY <1>3 DEF Visit
  <2>2. toSend' = EventsOf(t, index' - 1)
    BY <1>1, <2>1, NoEvents
  <2>3. status[t] \in {"success", "failed"}
    BY <1>3 DEF TypeOK
  <2>4. TypeOK'
    BY <1>1, <2>1, <2>2, LogSeq DEF TypeOK
  <2>5. AnsweredType' /\ WorkInv'
    BY <1>1, <2>1 DEF AnsweredType, WorkInv
  <2>6. HandledInv'
    BY <1>1, <2>1, <2>2, <2>3 DEF HandledInv
  <2>7. RequestsInv' /\ MarksInv'
    BY <1>1, <2>1 DEF RequestsInv, OnlyFinalIsPosted, PostsBounded, MarksInv, Known, MessageAt
  <2>8. QED
    BY <2>4, <2>5, <2>6, <2>7
<1>4. QED
  BY <1>2, <1>3

LEMMA VisitFailsStep ==
  ASSUME IInv, NEW t \in Txs, VisitFails(t)
  PROVE  IInv'
<1> USE DEF IInv
<1>1. /\ UNCHANGED <<consumer, redis, status, pc, cur, index, toSend, axelar, table>>
      /\ members' \subseteq members /\ cur = {} /\ faults' = faults + 1
  BY DEF VisitFails, TypeOK, Fault
<1>2. TypeOK' /\ AnsweredType' /\ WorkInv' /\ HandledInv' /\ MarksInv'
  BY <1>1 DEF TypeOK, AnsweredType, WorkInv, HandledInv, MarksInv, Known, MessageAt
<1>3. \A u \in Txs : posts[u] \in Nat /\ deliveries[u] \in Nat /\ faults \in Nat
  BY DEF TypeOK
<1>4. RequestsInv'
  BY <1>1, <1>2, <1>3 DEF RequestsInv, OnlyFinalIsPosted, PostsBounded, TypeOK
<1>5. QED
  BY <1>2, <1>4

(* The event of one more entry, which is no execution or one whose message *)
(* is known.                                                               *)
LEMMA GatherStep ==
  ASSUME IInv, NEW t \in cur, pc \in {"handle", "gather"}, index <= Len(Log[t]),
         Executed(t, index) => pc = "gather", GatherEvent(t)
  PROVE  IInv'
<1> USE DEF IInv
<1>1. /\ cur = {t} /\ t \in Txs /\ index > 0 /\ index \in Nat /\ index \in 1 .. Len(Log[t])
      /\ toSend' = toSend \cup EventOf(t, index) /\ index' = index + 1 /\ pc' = "handle"
      /\ UNCHANGED <<consumer, redis, status, members, cur, axelar, table, faults>>
  BY LogSeq DEF GatherEvent, WorkInv, TypeOK
<1>2. status[t] = "success" /\ toSend = EventsOf(t, index - 1)
  BY <1>1 DEF HandledInv
<1>3. toSend' = EventsOf(t, index' - 1)
  BY <1>1, <1>2, MoreEvents
<1>4. TypeOK'
  BY <1>1, <1>3, LogSeq DEF TypeOK
<1>5. AnsweredType' /\ WorkInv' /\ HandledInv'
  BY <1>1, <1>2, <1>3 DEF AnsweredType, WorkInv, HandledInv
<1>6. RequestsInv'
  BY <1>1 DEF RequestsInv, OnlyFinalIsPosted, PostsBounded
<1>7. ASSUME NEW e \in toSend', e.type = "MESSAGE_EXECUTED"
      PROVE  Known(MessageAt(t, e.index))
  <2>1. CASE e \in toSend
    BY <1>1, <1>7, <2>1 DEF MarksInv
  <2>2. CASE e \in EventOf(t, index)
    <3>1. Kind(t, index) = "MESSAGE_EXECUTED" /\ e.index = index
      BY <1>1, <1>7, <2>2, ExecutedEvent
    <3>2. pc = "gather"
      BY <3>1 DEF Executed
    <3>3. QED
      BY <1>1, <3>1, <3>2 DEF MarksInv
  <2>3. QED
    BY <1>1, <2>1, <2>2
<1>8. MarksInv'
  BY <1>1, <1>7 DEF MarksInv, Known, MessageAt
<1>9. QED
  BY <1>4, <1>5, <1>6, <1>8

LEMMA HandleEntryStep ==
  ASSUME IInv, NEW t \in Txs, HandleEntry(t)
  PROVE  IInv'
  BY GatherStep DEF HandleEntry, AtEntry

LEMMA GatherRowStep ==
  ASSUME IInv, NEW t \in Txs, Gather(t)
  PROVE  IInv'
<1>1. t \in cur /\ pc = "gather" /\ index <= Len(Log[t])
  BY DEF Gather, IInv, MarksInv
<1>2. QED
  BY <1>1, GatherStep DEF Gather

(* The cron is on its way from the lookup of a row to the event.           *)
LEMMA RowStep ==
  ASSUME IInv, NEW t \in Txs, FindRow(t) \/ MarkRow(t)
  PROVE  IInv'
<1> USE DEF IInv
<1>1. /\ cur = {t} /\ index > 0 /\ index \in Nat /\ pc \in {"handle", "mark"}
      /\ index <= Len(Log[t]) /\ pc' \in {"mark", "gather"}
      /\ UNCHANGED <<consumer, redis, status, members, cur, index, toSend, axelar, faults>>
  BY DEF FindRow, MarkRow, AtEntry, WorkInv, TypeOK, MarksInv
<1>2. PICK m \in Messages : m = MessageAt(t, index)
  <2>1. index \in 1 .. Len(Log[t])
    BY <1>1, LogSeq
  <2>2. QED
    BY <2>1, LogSeq
<1>3. /\ TableType' /\ (pc' = "gather" => Known(m)')
      /\ \A n \in Messages : n # m /\ Known(n) => Known(n)'
  <2>1. CASE FindRow(t)
    <3>1. /\ pc' = IF rows[m] = "absent" THEN "gather" ELSE "mark"
          /\ rewritten' = rewritten \ {m} /\ rows' = rows
      BY <1>2, <2>1 DEF FindRow, MessageAt
    <3>2. QED
      BY <3>1 DEF TypeOK, TableType, Known
  <2>2. CASE MarkRow(t)
    <3>1. Marked(m)
      BY <1>2, <2>2 DEF MarkRow, MessageAt
    <3>2. QED
      BY <3>1, RowMarked
  <2>3. QED
    BY <2>1, <2>2
<1>4. TypeOK' /\ AnsweredType' /\ WorkInv' /\ HandledInv'
  BY <1>1, <1>3 DEF TypeOK, TableType, AnsweredType, WorkInv, HandledInv
<1>5. RequestsInv'
  BY <1>1 DEF RequestsInv, OnlyFinalIsPosted, PostsBounded
<1>6. ASSUME NEW e \in toSend, e.type = "MESSAGE_EXECUTED"
      PROVE  \/ Known(MessageAt(t, e.index))'
             \/ pc' = "mark" /\ MessageAt(t, e.index) = MessageAt(t, index)
  <2>1. PICK i \in 1 .. Len(Log[t]) : e \in EventOf(t, i)
    BY <1>1, EventsOfLog DEF TypeOK
  <2>2. e.index = i /\ MessageAt(t, i) \in Messages
    BY <1>6, <2>1, ExecutedEvent, LogSeq
  <2>3. CASE MessageAt(t, i) = m
    BY <1>1, <1>2, <1>3, <2>2, <2>3 DEF Known
  <2>4. CASE MessageAt(t, i) # m
    <3>1. Known(MessageAt(t, i))
      BY <1>1, <1>2, <1>6, <2>2, <2>4 DEF MarksInv
    <3>2. QED
      BY <1>3, <2>2, <2>4, <3>1 DEF Known
  <2>5. QED
    BY <2>3, <2>4
<1>7. MarksInv'
  BY <1>1, <1>2, <1>3, <1>6 DEF MarksInv, Known, MessageAt
<1>8. QED
  BY <1>4, <1>5, <1>7

(* What the other processes write is remembered.                           *)
LEMMA RowWrittenStep ==
  ASSUME IInv, NEW m \in Messages, RowWritten(m)
  PROVE  IInv'
<1> USE DEF IInv
<1>1. /\ UNCHANGED <<consumer, redis, status, cron, axelar, faults>>
      /\ rows' = [rows EXCEPT ![m] = "PENDING"] /\ rewritten' = rewritten \cup {m}
  BY DEF RowWritten
<1>2. TypeOK' /\ AnsweredType' /\ WorkInv'
  BY <1>1 DEF TypeOK, AnsweredType, WorkInv
<1>3. HandledInv' /\ RequestsInv'
  BY <1>1 DEF HandledInv, Told, RequestsInv, OnlyFinalIsPosted, PostsBounded
<1>4. \A n \in Messages : Known(n) => Known(n)'
  BY <1>1 DEF TypeOK, Known
<1>5. MarksInv'
  <2>1. \A t \in cur : \A e \in toSend :
          e.type = "MESSAGE_EXECUTED" => MessageAt(t, e.index) \in Messages
    <3>1. SUFFICES ASSUME NEW t \in cur, NEW e \in toSend, e.type = "MESSAGE_EXECUTED"
                   PROVE  MessageAt(t, e.index) \in Messages
      OBVIOUS
    <3>2. t \in Txs
      BY DEF TypeOK
    <3>3. PICK i \in 1 .. Len(Log[t]) : e \in EventOf(t, i)
      BY <3>1, <3>2, EventsOfLog DEF TypeOK
    <3>4. QED
      BY <3>1, <3>2, <3>3, ExecutedEvent, LogSeq
  <2>2. \A t \in cur : pc = "gather" => MessageAt(t, index) \in Messages
    <3>1. \A t \in cur : t \in Txs /\ index \in Nat /\ index > 0
      BY DEF TypeOK, WorkInv
    <3>2. \A t \in cur : pc = "gather" => index \in 1 .. Len(Log[t])
      BY <3>1, LogSeq DEF MarksInv
    <3>3. QED
      BY <3>1, <3>2, LogSeq
  <2>3. QED
    BY <1>1, <1>4, <2>1, <2>2 DEF MarksInv, Known, MessageAt
<1>6. QED
  BY <1>2, <1>3, <1>5

LEMMA EntryThrowsStep ==
  ASSUME IInv, NEW t \in Txs, EntryThrows(t)
  PROVE  IInv'
  BY NextTransactionStep, TableKept DEF EntryThrows

LEMMA RowFailsStep ==
  ASSUME IInv, NEW t \in Txs, RowFails(t)
  PROVE  IInv'
<1>1. /\ t \in cur /\ pc # "remove" /\ NextTransaction /\ redis' = redis /\ faults' = faults + 1
      /\ UNCHANGED <<consumer, status, axelar>>
      /\ \/ UNCHANGED table
         \/ pc = "mark" /\ Marked(MessageAt(t, index))
  BY DEF RowFails, AtEntry, Fault, MessageAt
<1>2. CASE UNCHANGED table
  BY <1>1, <1>2, NextTransactionStep, TableKept
<1>3. CASE pc = "mark" /\ Marked(MessageAt(t, index))
  <2>1. index \in 1 .. Len(Log[t])
    BY <1>1, <1>3, LogSeq DEF IInv, MarksInv, WorkInv, TypeOK
  <2>2. TableType'
    BY <1>3, <2>1, LogSeq, RowMarked
  <2>3. QED
    BY <1>1, <2>2, NextTransactionStep
<1>4. QED
  BY <1>1, <1>2, <1>3

(* A transaction without events has nothing left to tell.                  *)
LEMMA HandledStep ==
  ASSUME IInv, NEW t \in Txs, Handled(t)
  PROVE  IInv'
<1> USE DEF IInv
<1>1. /\ pc = "handle" /\ cur = {t} /\ index \in Nat /\ index > Len(Log[t])
      /\ index <= Len(Log[t]) + 1
      /\ pc' = IF toSend = {} THEN "remove" ELSE "post"
      /\ UNCHANGED <<consumer, redis, status, members, cur, index, toSend, axelar, table, faults>>
  BY DEF Handled, WorkInv, TypeOK
<1>2. index = Len(Log[t]) + 1 /\ index - 1 = Len(Log[t])
  BY <1>1, LogSeq
<1>3. status[t] = "success" /\ toSend = EventsOf(t, Len(Log[t]))
  BY <1>1, <1>2 DEF HandledInv
<1>4. TypeOK' /\ AnsweredType' /\ WorkInv'
  BY <1>1 DEF TypeOK, AnsweredType, WorkInv
<1>5. toSend = {} => Told(t)'
  BY <1>1, <1>3 DEF Told
<1>6. HandledInv'
  BY <1>1, <1>2, <1>3, <1>5 DEF HandledInv
<1>7. RequestsInv' /\ MarksInv'
  BY <1>1 DEF RequestsInv, OnlyFinalIsPosted, PostsBounded, MarksInv, Known, MessageAt
<1>8. QED
  BY <1>4, <1>6, <1>7

(* The request uses up the one its transaction had left.                   *)
LEMMA PostStep ==
  ASSUME IInv, NEW t \in Txs, Post(t)
  PROVE  IInv'
<1> USE DEF IInv
<1>1. /\ pc = "post" /\ cur = {t} /\ t \in redis /\ Reach(t, toSend) /\ pc' = "remove"
      /\ UNCHANGED <<consumer, redis, status, members, cur, index, toSend, table, faults>>
  BY DEF Post, WorkInv
<1>2. /\ AnsweredType' /\ posts' \in [Txs -> Nat]
      /\ \A u \in Txs : answered'[u] \subseteq EventsOf(u, Len(Log[u]))
      /\ \A u \in Txs : answered'[u] = IF u = t THEN answered[u] \cup toSend ELSE answered[u]
      /\ \A u \in Txs : posts'[u] = IF u = t THEN posts[u] + 1 ELSE posts[u]
  BY <1>1, Answered
<1>3. status[t] = "success" /\ toSend = EventsOf(t, index - 1) /\ index = Len(Log[t]) + 1
  BY <1>1 DEF HandledInv
<1>4. Told(t)'
  <2>1. index - 1 = Len(Log[t])
    BY <1>3, LogSeq
  <2>2. toSend = EventsOf(t, Len(Log[t]))
    BY <1>3, <2>1
  <2>3. QED
    BY <1>2, <2>2 DEF Told
<1>5. TypeOK'
  BY <1>1, <1>2 DEF TypeOK
<1>6. WorkInv' /\ HandledInv'
  BY <1>1, <1>4 DEF WorkInv, HandledInv
<1>7. MarksInv'
  BY <1>1, <1>2 DEF MarksInv, Known, MessageAt
<1>8. OnlyFinalIsPosted'
  BY <1>1, <1>2, <1>3 DEF RequestsInv, OnlyFinalIsPosted
<1>9. PostsBounded'
  BY <1>1, <1>2 DEF RequestsInv, PostsBounded
<1>10. \A u \in redis' : ~(pc' = "remove" /\ u \in cur') => posts'[u] + 1 <= deliveries'[u] + faults'
  BY <1>1, <1>2 DEF RequestsInv, TypeOK
<1>11. QED
  BY <1>2, <1>5, <1>6, <1>7, <1>8, <1>9, <1>10 DEF RequestsInv

(* The fault gives the transaction another request.                        *)
LEMMA PostThrowsStep ==
  ASSUME IInv, NEW t \in Txs, PostThrows(t)
  PROVE  IInv'
<1> USE DEF IInv
<1>1. /\ pc = "post" /\ cur = {t} /\ t \in redis /\ faults' = faults + 1 /\ NextTransaction
      /\ UNCHANGED <<consumer, redis, status, table>>
  BY DEF PostThrows, WorkInv, Fault
<1>2. CASE UNCHANGED axelar
  BY <1>1, <1>2, NextTransactionStep, TableKept
<1>3. ASSUME NEW S \in SUBSET toSend, Reach(t, S)
      PROVE  IInv'
  <2>1. /\ AnsweredType' /\ posts' \in [Txs -> Nat]
        /\ \A u \in Txs : answered'[u] \subseteq EventsOf(u, Len(Log[u]))
        /\ \A u \in Txs : posts'[u] = IF u = t THEN posts[u] + 1 ELSE posts[u]
      BY <1>1, <1>3, Answered
  <2>2. status[t] = "success"
    BY <1>1 DEF HandledInv
  <2>3. TypeOK' /\ WorkInv' /\ HandledInv'
    BY <1>1, <2>1 DEF NextTransaction, TypeOK, WorkInv, HandledInv
  <2>4. MarksInv'
    BY <1>1, <2>1 DEF NextTransaction, MarksInv, Known, MessageAt
  <2>5. OnlyFinalIsPosted'
    BY <1>1, <2>1, <2>2 DEF RequestsInv, OnlyFinalIsPosted
  <2>6. \A u \in Txs : posts[u] \in Nat /\ deliveries[u] \in Nat /\ faults \in Nat
    BY DEF TypeOK
  <2>7. posts[t] + 1 <= deliveries[t] + faults
    BY <1>1 DEF RequestsInv
  <2>8. PostsBounded'
    BY <1>1, <2>1, <2>6, <2>7 DEF RequestsInv, PostsBounded
  <2>9. \A u \in redis' : posts'[u] + 1 <= deliveries'[u] + faults'
    <3>1. redis' = redis /\ redis \subseteq Txs
      BY <1>1 DEF TypeOK
    <3>2. ASSUME NEW u \in redis'
          PROVE  posts'[u] + 1 <= deliveries[u] + faults + 1
      <4>1. u \in Txs /\ posts'[u] = (IF u = t THEN posts[u] + 1 ELSE posts[u])
        BY <2>1, <3>1
      <4>2. posts[u] <= deliveries[u] + faults
        BY <4>1 DEF RequestsInv, PostsBounded
      <4>3. QED
        BY <2>6, <2>7, <4>1, <4>2
    <3>3. deliveries' = deliveries /\ faults' = faults + 1
      BY <1>1
    <3>4. QED
      BY <2>6, <3>1, <3>2, <3>3
  <2>10. QED
    BY <2>1, <2>3, <2>4, <2>5, <2>8, <2>9 DEF RequestsInv
<1>4. QED
  BY <1>2, <1>3 DEF PostThrows

LEMMA RemoveStep ==
  ASSUME IInv, NEW t \in Txs, Remove(t)
  PROVE  IInv'
<1>1. /\ redis' = redis \ {t} /\ cur = {t} /\ members \subseteq redis'
      /\ NextTransaction /\ UNCHANGED <<consumer, status, axelar, table, faults>>
  BY DEF Remove, IInv, WorkInv
<1>2. faults' \in Nat
  BY <1>1 DEF IInv, TypeOK
<1>3. QED
  BY <1>1, <1>2, LetGo, TableKept DEF NextTransaction

LEMMA RemoveFailsStep ==
  ASSUME IInv, NEW t \in Txs, RemoveFails(t)
  PROVE  IInv'
<1>1. /\ redis' \subseteq redis /\ members \subseteq redis' /\ faults' = faults + 1
      /\ NextTransaction /\ UNCHANGED <<consumer, status, axelar, table>>
  BY DEF RemoveFails, Fault, IInv, WorkInv
<1>2. faults' \in Nat
  BY <1>1 DEF IInv, TypeOK
<1>3. QED
  BY <1>1, <1>2, LetGo, TableKept DEF NextTransaction

LEMMA CrashStep ==
  ASSUME IInv, Crash
  PROVE  IInv'
<1>1. /\ pc' = "idle" /\ members' = {} /\ cur' = {} /\ index' = 0 /\ toSend' = {}
      /\ faults' = faults + 1 /\ UNCHANGED <<consumer, redis, status, axelar, table>>
  BY DEF Crash, Fault
<1>2. faults' \in Nat
  BY <1>1 DEF IInv, TypeOK
<1>3. QED
  BY <1>1, <1>2, LetGo, TableKept

------------------------------------------------------------------------------
LEMMA InitIInv == Init => IInv
<1> SUFFICES ASSUME Init PROVE IInv
  OBVIOUS
<1>1. TypeOK
  BY DEF Init, TypeOK, MaxFaultsType
<1>2. AnsweredType /\ WorkInv /\ HandledInv
  BY DEF Init, AnsweredType, WorkInv, HandledInv
<1>3. RequestsInv /\ MarksInv
  BY DEF Init, RequestsInv, OnlyFinalIsPosted, PostsBounded, MarksInv, Known, MessageAt
<1>4. QED
  BY <1>1, <1>2, <1>3 DEF IInv

LEMMA NextIInv == IInv /\ [Next]_vars => IInv'
<1> SUFFICES ASSUME IInv, [Next]_vars PROVE IInv'
  OBVIOUS
<1>1. CASE Consumer \/ \E b \in Blocks : ConsumeEventsFails(b)
  BY <1>1, ConsumerStep DEF Consumer
<1>2. CASE Cron
  BY <1>2, StartEndStep, VisitStep, HandleEntryStep, RowStep, GatherRowStep, EntryThrowsStep,
     HandledStep, PostStep, RemoveStep DEF Cron
<1>3. CASE Crash
  BY <1>3, CrashStep
<1>4. CASE \E t \in Txs : Complete(t) \/ VisitFails(t) \/ RowFails(t) \/ PostThrows(t) \/ RemoveFails(t)
  BY <1>4, CompleteStep, VisitFailsStep, RowFailsStep, PostThrowsStep, RemoveFailsStep
<1>5. CASE \E m \in Messages : RowWritten(m)
  BY <1>5, RowWrittenStep
<1>6. CASE UNCHANGED vars
  <2>1. TypeOK' /\ AnsweredType'
    BY <1>6 DEF vars, IInv, TypeOK, AnsweredType
  <2>2. WorkInv' /\ HandledInv'
    BY <1>6 DEF vars, IInv, WorkInv, HandledInv, Told
  <2>3. RequestsInv' /\ MarksInv'
    BY <1>6 DEF vars, IInv, RequestsInv, OnlyFinalIsPosted, PostsBounded, MarksInv, Known, MessageAt
  <2>4. QED
    BY <2>1, <2>2, <2>3 DEF IInv
<1>7. QED
  BY <1>1, <1>2, <1>3, <1>4, <1>5, <1>6 DEF Next

(* The inductive invariant holds in every reachable state.                 *)
THEOREM Inductive == Spec => []IInv
  BY InitIInv, NextIInv, PTL DEF Spec

------------------------------------------------------------------------------
(* Every variable keeps its type, and eventsToSend never holds an event of *)
(* another transaction or of a part of the log not handled yet.            *)
THEOREM TypeCorrect == Spec => []TypeOK
  BY Inductive, PTL DEF IInv

(* Axelar hears only of transactions that are complete and successful.     *)
THEOREM FinalIsPosted == Spec => []OnlyFinalIsPosted
<1>1. IInv => OnlyFinalIsPosted
  BY DEF IInv, RequestsInv
<1>2. QED
  BY <1>1, Inductive, PTL

(* However deliveries, crashes and retriable answers interleave, there is  *)
(* at most one request per delivery and one more per fault.                *)
THEOREM PostsAreBounded == Spec => []PostsBounded
<1>1. IInv => PostsBounded
  BY DEF IInv, RequestsInv
<1>2. QED
  BY <1>1, Inductive, PTL

(* Whatever the other processes write, and whatever fails: when Axelar is  *)
(* about to hear that a message was executed, its row is marked or there   *)
(* is none, or another process wrote it since.                             *)
THEOREM MarkedFirst == Spec => []MarkedBeforePosted
<1>1. IInv => MarkedBeforePosted
  BY DEF IInv, MarksInv, MarkedBeforePosted, Known, MessageAt
<1>2. QED
  BY <1>1, Inductive, PTL

(* Payments in turn are credited to different messages, for any log.       *)
THEOREM CreditedOnce == Spec => []NoCallCreditedTwice
<1>1. ASSUME IInv
      PROVE  NoCallCreditedTwice
  <2>1. \A t \in Txs : answered[t] \subseteq EventsOf(t, Len(Log[t]))
    BY <1>1 DEF IInv, TypeOK
  <2>2. QED
    BY <2>1, CreditsDiffer DEF NoCallCreditedTwice
<1>2. QED
  BY <1>1, Inductive, PTL

------------------------------------------------------------------------------
(* The refinement of EventDelivery: what is owed is the set in Redis.      *)

Finished == {t \in Txs : status[t] = "failed" \/ Told(t)}

(* A transaction owed and finished with is removed, or nothing happens.    *)
LEMMA Discharges ==
  ASSUME IInv, NEW t \in Txs, pc = "remove", t \in cur, redis' \in {redis, redis \ {t}},
         UNCHANGED <<status, answered>>
  PROVE  [Delivery!Next]_<<redis, Finished>>
<1>1. t \in redis /\ t \in Finished
  BY DEF IInv, WorkInv, HandledInv, Finished
<1>2. Finished' = Finished
  BY DEF Finished, Told
<1>3. redis' = redis \ {t} => Delivery!Discharge(t)
  BY <1>1, <1>2 DEF Delivery!Discharge, Finished
<1>4. QED
  BY <1>2, <1>3 DEF Delivery!Next

(* What becomes finished with stays so: a request only adds answers, and a *)
(* transaction that is complete does not change.                           *)
LEMMA Tells ==
  ASSUME redis' = redis, Finished \subseteq Finished'
  PROVE  Delivery!Tell
<1>1. Finished' \in SUBSET Txs /\ Finished' = Finished \cup Finished'
  BY DEF Finished
<1>2. QED
  BY <1>1 DEF Delivery!Tell, Finished

LEMMA Notices ==
  ASSUME NEW S \in SUBSET Txs, redis' = redis \cup S, UNCHANGED <<status, answered>>
  PROVE  Delivery!Notice
<1>1. Finished' = Finished
  BY DEF Finished, Told
<1>2. QED
  BY <1>1 DEF Delivery!Notice, Finished

LEMMA Stutters ==
  ASSUME UNCHANGED <<redis, status, answered>>
  PROVE  UNCHANGED <<redis, Finished>>
  BY DEF Finished, Told

LEMMA DeliveryInit == Init => Delivery!Init
  BY DEF Init, Delivery!Init

LEMMA DeliveryNext == IInv /\ [Next]_vars => [Delivery!Next]_<<redis, Finished>>
<1> SUFFICES ASSUME IInv, [Next]_vars
             PROVE  [Delivery!Next]_<<redis, Finished>>
  OBVIOUS
<1>1. ASSUME NEW b \in Blocks, ConsumeEvents(b) \/ ConsumeEventsFails(b)
      PROVE  Delivery!Notice
  <2>1. UNCHANGED <<status, answered>> /\ redis' \in {redis, redis \cup CrossChain(b)}
    BY <1>1 DEF ConsumeEvents, ConsumeEventsFails, Sadd
  <2>2. {} \in SUBSET Txs /\ CrossChain(b) \in SUBSET Txs /\ redis = redis \cup {}
    BY CrossChainType
  <2>3. QED
    BY <2>1, <2>2, Notices
<1>2. ASSUME NEW t \in Txs, Complete(t)
      PROVE  Delivery!Tell
  <2>1. \A u \in Txs : status[u] = "failed" => status'[u] = "failed"
    BY <1>2 DEF Complete, IInv, TypeOK
  <2>2. Finished \subseteq Finished' /\ redis' = redis
    BY <1>2, <2>1 DEF Complete, Finished, Told
  <2>3. QED
    BY <2>2, Tells
<1>3. ASSUME NEW t \in Txs, Post(t) \/ PostThrows(t)
      PROVE  [Delivery!Next]_<<redis, Finished>>
  <2>1. pc = "post" /\ t \in cur /\ UNCHANGED <<redis, status>>
    BY <1>3 DEF Post, PostThrows
  <2>2. CASE UNCHANGED axelar
    BY <2>1, <2>2, Stutters
  <2>3. ASSUME NEW S \in SUBSET toSend, Reach(t, S)
        PROVE  Delivery!Tell
    <3>1. \A u \in Txs : answered[u] \subseteq answered'[u]
      BY <2>1, <2>3, Answered
    <3>2. Finished \subseteq Finished'
      BY <2>1, <3>1 DEF Finished, Told
    <3>3. QED
      BY <2>1, <3>2, Tells
  <2>4. QED
    BY <1>3, <2>2, <2>3 DEF Post, PostThrows, Delivery!Next
<1>4. ASSUME NEW t \in Txs, Remove(t) \/ RemoveFails(t)
      PROVE  [Delivery!Next]_<<redis, Finished>>
  <2>1. /\ pc = "remove" /\ t \in cur /\ redis' \in {redis, redis \ {t}}
        /\ UNCHANGED <<status, answered>>
    BY <1>4 DEF Remove, RemoveFails
  <2>2. QED
    BY <2>1, Discharges
<1>5. ASSUME NEW t \in Txs, \/ Visit(t) \/ VisitFails(t) \/ HandleEntry(t) \/ FindRow(t)
                           \/ MarkRow(t) \/ Gather(t) \/ EntryThrows(t) \/ RowFails(t)
                           \/ Handled(t)
      PROVE  UNCHANGED <<redis, status, answered>>
  BY <1>5 DEF Visit, VisitFails, HandleEntry, FindRow, MarkRow, Gather, GatherEvent, EntryThrows,
              RowFails, Handled
<1>6. CASE Start \/ End \/ Crash \/ (\E m \in Messages : RowWritten(m)) \/ UNCHANGED vars
  <2>1. UNCHANGED <<redis, status, answered>>
    BY <1>6 DEF Start, End, Crash, RowWritten, vars
  <2>2. QED
    BY <2>1, Stutters
<1>7. QED
  BY <1>1, <1>2, <1>3, <1>4, <1>5, <1>6, Stutters DEF Next, Consumer, Cron, Delivery!Next

(* The consumer, the cron and GMP implement EventDelivery: a transaction   *)
(* leaves the set only when it failed or each of its events was answered   *)
(* for good, whatever throws, crashes or is delivered twice.               *)
THEOREM Delivers == Spec => DeliversEvents
  BY DeliveryInit, DeliveryNext, Inductive, PTL DEF Spec, DeliversEvents, Delivery!Spec, Finished
==============================================================================
