------------------------ MODULE ApprovalsProcessor_proofs ------------------------
(***************************************************************************)
(* The invariants of ApprovalsProcessor, for any tasks, any page size, and *)
(* any number of retries and faults.                                       *)
(***************************************************************************)
EXTENDS ApprovalsProcessor, FiniteSetTheorems, TLAPS

USE DEF newTasks, pendings, outcomes

(* The cron that takes tasks never runs ahead of what it has saved, and    *)
(* works on tasks of its page only.                                        *)
CursorInv ==
  /\ pc # "idle" => last = saved
  /\ pc \in {"task", "track", "save"} => last < upTo

(* What the crons hold in memory, and when.                                *)
HandInv ==
  /\ \A e \in newTx : pc = "track" /\ e.task = Current /\ newTx = {e}
  /\ cur = {} <=> hpc \in {"idle", "scan"}
  /\ \A e \in cur : cur = {e} /\ (hpc = "resend" => e.retry < MaxRetries)
  /\ \A r \in retryTx : hpc = "retrack" /\ retryTx = {r}
  /\ hpc = "retrack" => \A e \in cur : \E r \in retryTx : r.task = e.task /\ r.retry = e.retry + 1

(* An entry that was sent for the r-th time is at least the r-th           *)
(* transaction of its task, and no two entries share a key.                *)
EntryInv ==
  /\ \A e \in InHand : e.retry <= e.n
  /\ redis \cap newTx = {}
  /\ \A d, e \in redis \cup newTx : Key(d) = Key(e) => d = e
  /\ \A d \in cur \cup retryTx : \A e \in redis \cup newTx : Key(d) # Key(e)
  /\ \A d \in cur : \A r \in retryTx : Key(d) # Key(r)

EffectInv ==
  /\ NoTaskSkipped
  /\ pc = "track" => Type[Current] = "GATEWAY_TX" /\ txs[Current] # <<>>
  /\ pc = "save" => Effected(Current)

Followed(t) ==
  Type[t] = "GATEWAY_TX" =>
    \/ \E i \in 1 .. Len(txs[t]) : txs[t][i] = "success"
    \/ t \in givenUp \cup forgotten
    \/ \E e \in InHand : e.task = t

FollowInv ==
  /\ \A t \in 1 .. saved : Followed(t)
  /\ pc \in {"track", "save"} => Followed(Current)

(* A task is begun once more than there were faults only when it is saved  *)
(* or about to be.                                                         *)
Underway(t) == t <= saved \/ (pc \in {"track", "save"} /\ t = Current)

TriesInv ==
  \A t \in Tasks :
    /\ done[t] <= tries[t]
    /\ tries[t] <= faults + 1
    /\ ~Underway(t) => tries[t] <= faults

(* The transactions that entries of L allow for t: a pair for every retry  *)
(* an entry has left.                                                      *)
Slots(e) == {e.n} \X (e.retry + 1 .. MaxRetries)

RoomOf(L, t) == UNION {Slots(e) : e \in {d \in L : d.task = t}}

(* The entries that may still be sent again; while a transaction that was  *)
(* sent again is not stored, it stands for the one it replaces.            *)
Live == redis \cup newTx \cup IF hpc = "retrack" THEN retryTx ELSE cur

(* What the beginnings of a task and the faults pay for.                   *)
Allowed(t) == MaxRetries * tries[t] + (MaxRetries - 1) * faults

RoomInv ==
  \A t \in Tasks : Len(txs[t]) + Cardinality(RoomOf(Live, t)) <= Allowed(t)

IInv == /\ TypeOK /\ CursorInv /\ HandInv /\ EntryInv /\ GivenUpAfterRetries
        /\ EffectInv /\ FollowInv /\ TriesInv /\ RoomInv

------------------------------------------------------------------------------
(* How many transactions entries allow for.                                *)

LEMMA SlotsSize ==
  ASSUME NEW e \in PendingTransaction
  PROVE  IsFiniteSet(Slots(e)) /\ Cardinality(Slots(e)) = MaxRetries - e.retry
<1>1. e.retry \in 1 .. MaxRetries /\ MaxRetries \in Nat /\ e.retry \in Nat
  BY MaxRetriesType DEF PendingTransaction
<1>2. /\ IsFiniteSet(e.retry + 1 .. MaxRetries)
      /\ Cardinality(e.retry + 1 .. MaxRetries) = MaxRetries - e.retry
  <2>1. e.retry + 1 \in Int /\ MaxRetries \in Int
    BY <1>1
  <2>2. /\ IsFiniteSet(e.retry + 1 .. MaxRetries)
        /\ Cardinality(e.retry + 1 .. MaxRetries) =
             IF e.retry + 1 > MaxRetries THEN 0 ELSE MaxRetries - (e.retry + 1) + 1
    BY <2>1, FS_Interval
  <2>3. QED
    BY <1>1, <2>2
<1>3. IsFiniteSet({e.n}) /\ Cardinality({e.n}) = 1
  BY FS_Singleton
<1>4. /\ IsFiniteSet({e.n} \X (e.retry + 1 .. MaxRetries))
      /\ Cardinality({e.n} \X (e.retry + 1 .. MaxRetries)) =
           Cardinality({e.n}) * Cardinality(e.retry + 1 .. MaxRetries)
  BY <1>2, <1>3, FS_Product
<1>5. QED
  BY <1>1, <1>2, <1>3, <1>4 DEF Slots

LEMMA RoomFinite ==
  ASSUME NEW L \in SUBSET PendingTransaction, NEW t \in Tasks, NEW n \in Nat,
         \A e \in L : e.task = t => e.n <= n
  PROVE  IsFiniteSet(RoomOf(L, t)) /\ Cardinality(RoomOf(L, t)) \in Nat
<1>1. IsFiniteSet((1 .. n) \X (1 .. MaxRetries))
  <2>1. IsFiniteSet(1 .. n)
    BY FS_Interval
  <2>2. IsFiniteSet(1 .. MaxRetries)
    BY FS_Interval, MaxRetriesType
  <2>3. QED
    BY <2>1, <2>2, FS_Product
<1>2. ASSUME NEW e \in L, e.task = t
      PROVE  Slots(e) \subseteq (1 .. n) \X (1 .. MaxRetries)
  <2>1. e.n \in 1 .. n /\ e.retry \in 1 .. MaxRetries
    BY <1>2 DEF PendingTransaction
  <2>2. e.retry + 1 .. MaxRetries \subseteq 1 .. MaxRetries
    BY <2>1, MaxRetriesType
  <2>3. QED
    BY <2>1, <2>2 DEF Slots
<1>3. RoomOf(L, t) \subseteq (1 .. n) \X (1 .. MaxRetries)
  BY <1>2 DEF RoomOf
<1>4. QED
  BY <1>1, <1>3, FS_Subset, FS_CardinalityType

LEMMA RoomOfFewer ==
  ASSUME NEW L, NEW K, NEW t \in Tasks, K \subseteq L, IsFiniteSet(RoomOf(L, t))
  PROVE  /\ Cardinality(RoomOf(K, t)) <= Cardinality(RoomOf(L, t))
         /\ Cardinality(RoomOf(K, t)) \in Nat
<1>1. RoomOf(K, t) \subseteq RoomOf(L, t)
  BY DEF RoomOf
<1>2. QED
  BY <1>1, FS_Subset, FS_CardinalityType

LEMMA RoomOfOthers ==
  ASSUME NEW L, NEW e, NEW t, e.task # t
  PROVE  RoomOf(L \cup {e}, t) = RoomOf(L, t)
  BY DEF RoomOf

(* An entry under a key of its own adds the retries it has left.           *)
LEMMA RoomAdded ==
  ASSUME NEW L \in SUBSET PendingTransaction, NEW e \in PendingTransaction,
         \A d \in L : d.task = e.task => d.n # e.n,
         IsFiniteSet(RoomOf(L, e.task))
  PROVE  Cardinality(RoomOf(L \cup {e}, e.task)) =
           Cardinality(RoomOf(L, e.task)) + (MaxRetries - e.retry)
<1>1. RoomOf(L \cup {e}, e.task) = RoomOf(L, e.task) \cup Slots(e)
  BY DEF RoomOf
<1>2. RoomOf(L, e.task) \cap Slots(e) = {}
  BY DEF RoomOf, Slots
<1>3. IsFiniteSet(Slots(e)) /\ Cardinality(Slots(e)) = MaxRetries - e.retry
  BY SlotsSize
<1>4. Cardinality({}) = 0 /\ Cardinality(RoomOf(L, e.task)) \in Nat
  BY FS_EmptySet, FS_CardinalityType
<1>5. MaxRetries \in Nat /\ e.retry \in Nat
  BY MaxRetriesType DEF PendingTransaction
<1>6. Cardinality(RoomOf(L, e.task) \cup Slots(e)) =
        Cardinality(RoomOf(L, e.task)) + Cardinality(Slots(e)) - Cardinality({})
  BY <1>2, <1>3, FS_Union
<1>7. Cardinality(RoomOf(L \cup {e}, e.task)) =
        Cardinality(RoomOf(L, e.task)) + Cardinality(Slots(e)) - Cardinality({})
  BY <1>1, <1>6, Zenon
<1>8. QED
  BY <1>3, <1>4, <1>5, <1>7

LEMMA RetriesMore ==
  ASSUME NEW m \in Nat, NEW n \in Nat, m <= n
  PROVE  /\ MaxRetries * m \in Nat /\ MaxRetries * n \in Nat /\ MaxRetries * m <= MaxRetries * n
         /\ MaxRetries * (m + 1) = MaxRetries * m + MaxRetries
<1>1. MaxRetries \in Nat
  BY MaxRetriesType
<1>2. PICK d \in Nat : n = m + d
  <2>1. n - m \in Nat /\ n = m + (n - m)
    OBVIOUS
  <2>2. QED
    BY <2>1
<1>3. MaxRetries * (m + d) = MaxRetries * m + MaxRetries * d
  BY <1>1
<1>4. MaxRetries * d \in Nat /\ MaxRetries * m \in Nat /\ MaxRetries * n \in Nat
  BY <1>1
<1>5. QED
  BY <1>1, <1>2, <1>3, <1>4

------------------------------------------------------------------------------
(* The parts that several actions share.                                   *)

(* Transactions are added, and a success stays one.                        *)
Grown ==
  /\ txs' \in [Tasks -> Seq(TxStates)]
  /\ \A t \in Tasks :
       /\ Len(txs[t]) <= Len(txs'[t])
       /\ \A i \in 1 .. Len(txs[t]) : txs[t][i] = "success" => txs'[t][i] = "success"

LEMMA Types ==
  ASSUME TypeOK
  PROVE  /\ \A t \in Tasks : txs[t] \in Seq(TxStates) /\ Len(txs[t]) \in Nat
         /\ \A t \in Tasks : tries[t] \in Nat /\ done[t] \in Nat
         /\ faults \in Nat /\ saved \in Nat /\ last \in Nat /\ upTo \in Nat
         /\ InHand \subseteq PendingTransaction /\ Live \subseteq InHand
         /\ \A e \in InHand : /\ e.task \in Tasks /\ e.n \in Nat /\ e.retry \in 1 .. MaxRetries
                              /\ e.n <= Len(txs[e.task])
<1>1. \A t \in Tasks : txs[t] \in Seq(TxStates) /\ Len(txs[t]) \in Nat
  BY DEF TypeOK
<1>2. InHand \subseteq PendingTransaction /\ Live \subseteq InHand /\ \A e \in InHand : TxKnown(e)
  BY DEF TypeOK, InHand, Live
<1>3. \A e \in InHand : /\ e.task \in Tasks /\ e.n \in Nat /\ e.retry \in 1 .. MaxRetries
                        /\ e.n <= Len(txs[e.task])
  BY <1>1, <1>2 DEF PendingTransaction, TxKnown
<1>4. /\ \A t \in Tasks : tries[t] \in Nat /\ done[t] \in Nat
      /\ faults \in Nat /\ saved \in Nat /\ last \in Nat /\ upTo \in Nat
  BY NumTasksType DEF TypeOK
<1>5. QED
  BY <1>1, <1>2, <1>3, <1>4

LEMMA TxsKept ==
  ASSUME TypeOK, UNCHANGED txs
  PROVE  Grown
<1>1. \A t \in Tasks : Len(txs[t]) \in Nat
  BY Types
<1>2. QED
  BY <1>1 DEF TypeOK, Grown

LEMMA SendTxGrown ==
  ASSUME TypeOK, NEW t \in Tasks, SendTx(t)
  PROVE  /\ Grown /\ Len(txs'[t]) = Len(txs[t]) + 1
         /\ \A u \in Tasks : u # t => txs'[u] = txs[u]
<1>1. txs' = [txs EXCEPT ![t] = Append(txs[t], "pending")] /\ txs \in [Tasks -> Seq(TxStates)]
  BY DEF TypeOK, SendTx
<1>2. txs'[t] = Append(txs[t], "pending") /\ \A u \in Tasks : u # t => txs'[u] = txs[u]
  BY <1>1
<1>3. Append(txs[t], "pending") \in Seq(TxStates)
  BY <1>1 DEF TxStates
<1>4. txs' \in [Tasks -> Seq(TxStates)]
  BY <1>1, <1>3
<1>5. /\ Len(txs'[t]) = Len(txs[t]) + 1 /\ \A u \in Tasks : Len(txs[u]) \in Nat
      /\ \A i \in 1 .. Len(txs[t]) : txs'[t][i] = txs[t][i]
  BY <1>1, <1>2
<1>6. ASSUME NEW u \in Tasks
      PROVE  /\ Len(txs[u]) <= Len(txs'[u])
             /\ \A i \in 1 .. Len(txs[u]) : txs[u][i] = "success" => txs'[u][i] = "success"
  <2>1. CASE u = t
    BY <2>1, <1>5
  <2>2. CASE u # t
    BY <2>2, <1>2, <1>5
  <2>3. QED
    BY <2>1, <2>2
<1>7. QED
  BY <1>2, <1>4, <1>5, <1>6 DEF Grown

LEMMA CurrentTask ==
  ASSUME TypeOK, CursorInv, pc \in {"task", "track", "save"}
  PROVE  Current \in Tasks /\ Current = saved + 1 /\ last = saved /\ Current <= upTo
<1>1. last \in Nat /\ upTo \in Nat /\ upTo <= NumTasks /\ NumTasks \in Nat
  BY NumTasksType DEF TypeOK
<1>2. QED
  BY <1>1 DEF CursorInv, Current, Tasks

(* What a task asked for stays done.                                       *)
LEMMA EffectedKept ==
  ASSUME TypeOK, Grown, NEW t \in Tasks, Effected(t), skipped \subseteq skipped',
         done[t] <= done'[t], done'[t] \in Nat
  PROVE  Effected(t)'
<1>1. Len(txs[t]) \in Nat /\ Len(txs'[t]) \in Nat /\ Len(txs[t]) <= Len(txs'[t])
  BY Types DEF Grown
<1>2. txs[t] # <<>> => txs'[t] # <<>>
  <2>1. txs[t] # <<>> => Len(txs[t]) > 0
    BY Types
  <2>2. QED
    BY <1>1, <2>1
<1>3. done[t] > 0 => done'[t] > 0
  BY Types
<1>4. QED
  BY <1>2, <1>3 DEF Effected

(* The cron that follows transactions does not disturb the other one.      *)
LEMMA TasksKept ==
  ASSUME IInv, UNCHANGED <<saved, pc, last, upTo, tries, done, skipped>>,
         Grown, faults' \in {faults, faults + 1}
  PROVE  CursorInv' /\ EffectInv' /\ TriesInv'
<1> USE DEF IInv
<1>1. CursorInv'
  BY DEF CursorInv
<1>2. saved \in 0 .. NumTasks /\ \A t \in Tasks : done[t] <= done'[t] /\ done'[t] \in Nat
  BY DEF TypeOK
<1>3. NoTaskSkipped'
  <2>1. \A t \in 1 .. saved : t \in Tasks
    BY <1>2, NumTasksType DEF Tasks
  <2>2. QED
    BY <1>2, <2>1, EffectedKept DEF EffectInv, NoTaskSkipped
<1>4. pc' = "track" => Type[Current'] = "GATEWAY_TX" /\ txs'[Current'] # <<>>
  <2>1. ASSUME pc = "track"
        PROVE  Type[Current] = "GATEWAY_TX" /\ txs'[Current] # <<>>
    <3>1. Current \in Tasks /\ Type[Current] = "GATEWAY_TX" /\ txs[Current] # <<>>
      BY <2>1, CurrentTask DEF EffectInv
    <3>2. Len(txs[Current]) > 0 /\ Len(txs'[Current]) >= Len(txs[Current])
      BY <3>1, Types DEF Grown
    <3>3. QED
      BY <3>1, <3>2, Types
  <2>2. QED
    BY <2>1 DEF Current
<1>5. pc' = "save" => Effected(Current)'
  <2>1. ASSUME pc = "save"
        PROVE  Effected(Current)'
    <3>1. Current \in Tasks /\ Effected(Current) /\ Current' = Current
      BY <2>1, CurrentTask DEF EffectInv, Current
    <3>2. QED
      BY <1>2, <3>1, EffectedKept
  <2>2. QED
    BY <2>1
<1>6. TriesInv'
  BY Types DEF TriesInv, Underway, Current
<1>7. QED
  BY <1>1, <1>3, <1>4, <1>5, <1>6 DEF EffectInv

(* After a fault a task may be begun once more.                            *)
LEMMA TriesAfterFault ==
  ASSUME IInv, UNCHANGED <<tries, done>>, faults' = faults + 1
  PROVE  TriesInv'
  BY Types DEF IInv, TriesInv

LEMMA FollowKept ==
  ASSUME IInv, Grown, UNCHANGED <<saved, last>>,
         pc' \in {"track", "save"} => pc \in {"track", "save"},
         givenUp \cup forgotten \subseteq givenUp' \cup forgotten',
         \A e \in InHand : \/ \E d \in InHand' : d.task = e.task
                           \/ e.task \in givenUp' \cup forgotten'
                           \/ \E i \in 1 .. Len(txs[e.task]) : txs[e.task][i] = "success"
  PROVE  FollowInv'
<1> USE DEF IInv
<1>1. ASSUME NEW t \in Tasks, Followed(t)
      PROVE  Followed(t)'
  <2>1. /\ Len(txs[t]) \in Nat /\ Len(txs[t]) <= Len(txs'[t]) /\ Len(txs'[t]) \in Nat
        /\ \A i \in 1 .. Len(txs[t]) : txs[t][i] = "success" => txs'[t][i] = "success"
    BY Types DEF Grown
  <2>2. (\E i \in 1 .. Len(txs[t]) : txs[t][i] = "success") =>
          \E i \in 1 .. Len(txs'[t]) : txs'[t][i] = "success"
    BY <2>1
  <2>3. QED
    BY <1>1, <2>2 DEF Followed
<1>2. \A t \in 1 .. saved : t \in Tasks
  BY NumTasksType DEF Tasks, TypeOK
<1>3. \A t \in 1 .. saved' : Followed(t)'
  BY <1>1, <1>2 DEF FollowInv
<1>4. ASSUME pc' \in {"track", "save"}
      PROVE  Followed(Current)'
  <2>1. Current \in Tasks /\ Current' = Current /\ Followed(Current)
    BY <1>4, CurrentTask DEF FollowInv, Current
  <2>2. QED
    BY <1>1, <2>1
<1>5. QED
  BY <1>3, <1>4 DEF FollowInv

LEMMA EntryKept ==
  ASSUME IInv, redis' \cup newTx' \subseteq redis \cup newTx, redis' \cap newTx' \subseteq redis \cap newTx,
         cur' \subseteq cur, retryTx' \subseteq retryTx
  PROVE  EntryInv'
  BY DEF IInv, EntryInv, InHand, Key

LEMMA LiveRoom ==
  ASSUME TypeOK, NEW t \in Tasks, NEW L \in SUBSET InHand
  PROVE  IsFiniteSet(RoomOf(L, t)) /\ Cardinality(RoomOf(L, t)) \in Nat
<1>1. L \in SUBSET PendingTransaction /\ Len(txs[t]) \in Nat
  BY Types
<1>2. \A e \in L : e.task = t => e.n <= Len(txs[t])
  BY Types
<1>3. QED
  BY <1>1, <1>2, RoomFinite

(* A beginning or a fault never allows for less.                           *)
LEMMA AllowedMore ==
  ASSUME TypeOK, NEW t \in Tasks, tries'[t] \in {tries[t], tries[t] + 1},
         faults' \in {faults, faults + 1}
  PROVE  /\ Allowed(t) \in Nat /\ Allowed(t)' \in Nat
         /\ tries'[t] = tries[t] /\ faults' = faults => Allowed(t)' = Allowed(t)
         /\ tries'[t] = tries[t] /\ faults' = faults + 1 => Allowed(t)' = Allowed(t) + (MaxRetries - 1)
         /\ tries'[t] = tries[t] + 1 /\ faults' = faults => Allowed(t)' = Allowed(t) + MaxRetries
         /\ tries'[t] = tries[t] + 1 /\ faults' = faults + 1
              => Allowed(t)' = Allowed(t) + MaxRetries + (MaxRetries - 1)
         /\ Allowed(t) <= Allowed(t)'
<1>1. tries[t] \in Nat /\ faults \in Nat /\ MaxRetries \in Nat /\ MaxRetries - 1 \in Nat
  BY Types, MaxRetriesType
<1> DEFINE K == MaxRetries - 1
<1>2. /\ MaxRetries * tries[t] \in Nat
      /\ MaxRetries * (tries[t] + 1) = MaxRetries * tries[t] + MaxRetries
  <2>1. tries[t] <= tries[t]
    BY <1>1
  <2>2. QED
    BY <1>1, <2>1, RetriesMore
<1>3. K * faults \in Nat /\ K * (faults + 1) = K * faults + K
  <2>1. K \in Nat
    BY <1>1
  <2> HIDE DEF K
  <2>2. QED
    BY <1>1, <2>1
<1> DEFINE a == MaxRetries * tries[t]
           b == K * faults
<1>4. Allowed(t) = a + b
  BY DEF Allowed
<1>5. Allowed(t)' = MaxRetries * tries'[t] + K * faults'
  BY DEF Allowed
<1>6. /\ tries'[t] = tries[t] => MaxRetries * tries'[t] = a
      /\ tries'[t] = tries[t] + 1 => MaxRetries * tries'[t] = a + MaxRetries
      /\ faults' = faults => K * faults' = b
      /\ faults' = faults + 1 => K * faults' = b + K
  BY <1>2, <1>3, Zenon
<1>7. a \in Nat /\ b \in Nat /\ K \in Nat /\ K = MaxRetries - 1
  BY <1>1, <1>2, <1>3
<1> HIDE DEF a, b, K
<1>8. CASE tries'[t] = tries[t] /\ faults' = faults
  <2>1. Allowed(t)' = a + b
    BY <1>5, <1>6, <1>8, Zenon
  <2>2. QED
    BY <1>1, <1>4, <1>7, <1>8, <2>1
<1>9. CASE tries'[t] = tries[t] /\ faults' = faults + 1
  <2>1. Allowed(t)' = a + (b + K)
    BY <1>5, <1>6, <1>9, Zenon
  <2>2. QED
    BY <1>1, <1>4, <1>7, <1>9, <2>1
<1>10. CASE tries'[t] = tries[t] + 1 /\ faults' = faults
  <2>1. Allowed(t)' = (a + MaxRetries) + b
    BY <1>5, <1>6, <1>10, Zenon
  <2>2. QED
    BY <1>1, <1>4, <1>7, <1>10, <2>1
<1>11. CASE tries'[t] = tries[t] + 1 /\ faults' = faults + 1
  <2>1. Allowed(t)' = (a + MaxRetries) + (b + K)
    BY <1>5, <1>6, <1>11, Zenon
  <2>2. QED
    BY <1>1, <1>4, <1>7, <1>11, <2>1
<1>12. QED
  BY <1>8, <1>9, <1>10, <1>11

LEMMA RoomKept ==
  ASSUME IInv, Live' \subseteq Live,
         \A t \in Tasks : /\ Len(txs'[t]) \in Nat /\ Allowed(t) \in Nat /\ Allowed(t)' \in Nat
                          /\ Len(txs'[t]) + Allowed(t) <= Len(txs[t]) + Allowed(t)'
  PROVE  RoomInv'
<1> SUFFICES ASSUME NEW t \in Tasks
             PROVE  Len(txs'[t]) + Cardinality(RoomOf(Live', t)) <= Allowed(t)'
  BY DEF RoomInv, RoomOf, Slots
<1>1. TypeOK /\ Len(txs[t]) \in Nat /\ Live \in SUBSET InHand
  BY Types DEF IInv
<1>2. IsFiniteSet(RoomOf(Live, t)) /\ Cardinality(RoomOf(Live, t)) \in Nat
  BY <1>1, LiveRoom
<1>3. /\ Cardinality(RoomOf(Live', t)) <= Cardinality(RoomOf(Live, t))
      /\ Cardinality(RoomOf(Live', t)) \in Nat
  BY <1>2, RoomOfFewer
<1>4. Len(txs[t]) + Cardinality(RoomOf(Live, t)) <= Allowed(t)
  BY DEF IInv, RoomInv
<1>5. PICK a \in Nat, b \in Nat : a = Allowed(t) /\ b = Allowed(t)'
  OBVIOUS
<1>6. Len(txs'[t]) \in Nat /\ Len(txs'[t]) + a <= Len(txs[t]) + b
  BY <1>5
<1>7. Len(txs[t]) + Cardinality(RoomOf(Live, t)) <= a
  BY <1>4, <1>5
<1>8. Len(txs'[t]) + Cardinality(RoomOf(Live', t)) <= b
  BY <1>1, <1>2, <1>3, <1>6, <1>7
<1>9. QED
  BY <1>5, <1>8

(* No transaction is sent, and nothing is allowed for that was not before. *)
LEMMA RoomQuiet ==
  ASSUME IInv, Live' \subseteq Live, faults' \in {faults, faults + 1},
         \A t \in Tasks : tries'[t] \in {tries[t], tries[t] + 1} /\ Len(txs'[t]) = Len(txs[t])
  PROVE  RoomInv'
<1>1. ASSUME NEW t \in Tasks
      PROVE  /\ Len(txs'[t]) \in Nat /\ Allowed(t) \in Nat /\ Allowed(t)' \in Nat
             /\ Len(txs'[t]) + Allowed(t) <= Len(txs[t]) + Allowed(t)'
  <2>1. TypeOK /\ tries'[t] \in {tries[t], tries[t] + 1} /\ Len(txs'[t]) = Len(txs[t])
        /\ Len(txs[t]) \in Nat
    BY Types DEF IInv
  <2>2. Allowed(t) \in Nat /\ Allowed(t)' \in Nat /\ Allowed(t) <= Allowed(t)'
    BY <2>1, AllowedMore
  <2>3. PICK a \in Nat, b \in Nat : a = Allowed(t) /\ b = Allowed(t)'
    BY <2>2
  <2>4. Len(txs'[t]) + a <= Len(txs[t]) + b
    BY <2>1, <2>2, <2>3
  <2>5. QED
    BY <2>1, <2>2, <2>3, <2>4
<1>2. QED
  BY <1>1, RoomKept

LEMMA GivenUpKept ==
  ASSUME IInv, Grown, UNCHANGED givenUp
  PROVE  GivenUpAfterRetries'
<1>1. \A t \in givenUp : t \in Tasks
  BY DEF IInv, TypeOK
<1>2. \A t \in Tasks : Len(txs[t]) \in Nat /\ Len(txs'[t]) \in Nat /\ Len(txs[t]) <= Len(txs'[t])
  BY Types DEF IInv, Grown
<1>3. QED
  BY <1>1, <1>2, MaxRetriesType DEF IInv, GivenUpAfterRetries

(* handleNewTasks does not disturb the entries, but for a task of the      *)
(* gateway.                                                                *)
LEMMA EntriesKept ==
  ASSUME IInv, UNCHANGED <<redis, newTx, pendings, txs, givenUp, forgotten>>, pc # "track",
         \A t \in Tasks : tries'[t] \in {tries[t], tries[t] + 1},
         faults' \in {faults, faults + 1}
  PROVE  /\ HandInv' /\ EntryInv' /\ GivenUpAfterRetries' /\ RoomInv'
         /\ \A t \in Tasks : Followed(t) => Followed(t)'
<1> USE DEF IInv
<1>1. HandInv'
  BY DEF HandInv
<1>2. EntryInv'
  BY EntryKept
<1>3. GivenUpAfterRetries'
  BY TxsKept, GivenUpKept
<1>4. RoomInv'
  <2>1. Live' \subseteq Live
    BY DEF Live
  <2>2. QED
    BY <2>1, RoomQuiet
<1>5. \A t \in Tasks : Followed(t) => Followed(t)'
  BY DEF Followed, InHand
<1>6. QED
  BY <1>1, <1>2, <1>3, <1>4, <1>5

LEMMA SavedTasks ==
  ASSUME TypeOK
  PROVE  \A t \in 1 .. saved : t \in Tasks
  BY NumTasksType DEF Tasks, TypeOK

------------------------------------------------------------------------------
(* handleNewTasksRaw.                                                      *)

(* No task is begun or ended.                                              *)
LEMMA CursorStep ==
  ASSUME IInv, Publish \/ Start \/ Ask \/ AskFails
  PROVE  IInv'
<1> USE DEF IInv
<1>1. UNCHANGED <<saved, newTx, tries, redis, pendings, txs, outcomes>>
  BY DEF Publish, Start, Ask, AskFails
<1>2. CASE Publish
  <2>1. UNCHANGED <<newTasks, redis, pendings, txs, outcomes, faults>> /\ available' \in 0 .. NumTasks
    BY <1>2, NumTasksType DEF Publish, TypeOK
  <2>2. TypeOK'
    BY <2>1 DEF TypeOK, TxKnown
  <2>3. CursorInv' /\ EffectInv' /\ TriesInv'
    BY <2>1, TxsKept, TasksKept
  <2>4. HandInv' /\ EntryInv' /\ GivenUpAfterRetries'
    BY <2>1, EntryKept, TxsKept, GivenUpKept DEF HandInv, Current
  <2>5. FollowInv'
    BY <2>1 DEF FollowInv, Followed, InHand, Current
  <2>6. RoomInv'
    BY <2>1 DEF RoomInv, RoomOf, Slots, Live, Allowed
  <2>7. QED
    BY <2>2, <2>3, <2>4, <2>5, <2>6
<1>3. CASE Start \/ Ask \/ AskFails
  <2>1. /\ pc \in {"idle", "ask"} /\ pc' \in {"idle", "ask", "task"} /\ UNCHANGED available
        /\ faults' \in {faults, faults + 1} /\ last' \in {last, saved}
    BY <1>3 DEF Start, Ask, AskFails, Fault
  <2>2. upTo' \in 0 .. NumTasks /\ CursorInv'
    <3>1. CASE Start \/ AskFails
      BY <3>1 DEF Start, AskFails, CursorInv, TypeOK
    <3>2. CASE Ask
      BY <3>2, NumTasksType, PageSizeType DEF Ask, CursorInv, TypeOK
    <3>3. QED
      BY <1>3, <3>1, <3>2
  <2>3. TypeOK'
    <3>1. faults' \in Nat /\ last' \in 0 .. NumTasks
      BY <2>1 DEF TypeOK
    <3>2. QED
      BY <1>1, <2>1, <2>2, <3>1 DEF TypeOK, TxKnown
  <2>4. /\ HandInv' /\ EntryInv' /\ GivenUpAfterRetries' /\ RoomInv'
        /\ \A t \in Tasks : Followed(t) => Followed(t)'
    BY <1>1, <2>1, Types, EntriesKept
  <2>5. EffectInv'
    BY <1>1, <2>1 DEF EffectInv, NoTaskSkipped, Effected
  <2>6. FollowInv'
    BY <1>1, <2>1, <2>4, SavedTasks DEF FollowInv
  <2>7. TriesInv'
    BY <1>1, <2>1, Types DEF TriesInv, Underway
  <2>8. QED
    BY <2>2, <2>3, <2>4, <2>5, <2>6, <2>7
<1>4. QED
  BY <1>2, <1>3

LEMMA BeganTries ==
  ASSUME TypeOK, Current \in Tasks, Began
  PROVE  /\ tries' \in [Tasks -> Nat] /\ tries'[Current] = tries[Current] + 1
         /\ \A t \in Tasks : /\ t # Current => tries'[t] = tries[t]
                             /\ tries'[t] \in Nat /\ tries'[t] \in {tries[t], tries[t] + 1}
<1>1. tries \in [Tasks -> Nat]
  BY DEF TypeOK
<1>2. QED
  BY <1>1 DEF Began

LEMMA CountDone ==
  ASSUME TypeOK, Current \in Tasks, Count
  PROVE  /\ done' \in [Tasks -> Nat] /\ done'[Current] = done[Current] + 1
         /\ \A t \in Tasks : t # Current => done'[t] = done[t]
<1>1. done \in [Tasks -> Nat]
  BY DEF TypeOK
<1>2. QED
  BY <1>1 DEF Count

(* A task is begun that ends at once, or throws.                           *)
LEMMA BeginTries ==
  ASSUME IInv, pc = "task", Began, UNCHANGED <<saved, last>>,
         done' = done \/ Count,
         \/ pc' = "save" /\ faults' = faults
         \/ pc' = "track" /\ faults' = faults
         \/ faults' = faults + 1
  PROVE  TriesInv'
<1> USE DEF IInv
<1>1. Current \in Tasks /\ Current = saved + 1 /\ saved \in Nat
  BY CurrentTask, Types
<1>2. ~Underway(Current)
  BY <1>1 DEF Underway
<1>3. ASSUME NEW t \in Tasks
      PROVE  /\ done'[t] <= tries'[t]
             /\ tries'[t] <= faults' + 1
             /\ ~Underway(t)' => tries'[t] <= faults'
  <2>1. /\ done[t] \in Nat /\ tries[t] \in Nat /\ faults \in Nat
        /\ done[t] <= tries[t] /\ tries[t] <= faults + 1
        /\ ~Underway(t) => tries[t] <= faults
    BY Types DEF TriesInv
  <2>2. CASE t = Current
    <3>1. tries'[t] = tries[t] + 1 /\ tries[t] <= faults /\ done'[t] \in {done[t], done[t] + 1}
      BY <1>1, <1>2, <2>1, <2>2, BeganTries, CountDone
    <3>2. pc' \in {"save", "track"} => Underway(t)'
      BY <2>2 DEF Underway, Current
    <3>3. QED
      BY <2>1, <3>1, <3>2
  <2>3. CASE t # Current
    <3>1. tries'[t] = tries[t] /\ done'[t] = done[t]
      BY <1>1, <2>3, BeganTries, CountDone
    <3>2. Underway(t) => Underway(t)'
      BY <2>3 DEF Underway
    <3>3. QED
      BY <2>1, <3>1, <3>2
  <2>4. QED
    BY <2>2, <2>3
<1>4. QED
  BY <1>3 DEF TriesInv

LEMMA BeginStep ==
  ASSUME IInv, pc = "task", Type[Current] # "GATEWAY_TX", pc' = "save", Began,
         done' = done \/ Count, skipped' \in {skipped, skipped \cup {Current}},
         UNCHANGED <<available, saved, last, upTo, newTx, redis, pendings, txs, givenUp, forgotten, faults>>,
         Effected(Current)'
  PROVE  IInv'
<1> USE DEF IInv
<1>1. Current \in Tasks /\ Current = saved + 1 /\ Current <= upTo /\ Current' = Current
  BY CurrentTask DEF Current
<1>2. /\ tries' \in [Tasks -> Nat]
      /\ \A t \in Tasks : tries'[t] \in {tries[t], tries[t] + 1}
  BY <1>1, BeganTries
<1>3. done' \in [Tasks -> Nat] /\ \A t \in Tasks : done'[t] \in Nat /\ done[t] <= done'[t]
  <2>1. \A t \in Tasks : done[t] \in Nat
    BY Types
  <2>2. CASE done' = done
    BY <2>1, <2>2 DEF TypeOK
  <2>3. CASE Count
    BY <1>1, <2>1, <2>3, CountDone
  <2>4. QED
    BY <2>2, <2>3
<1>4. TypeOK'
  <2>1. skipped' \subseteq Tasks
    BY <1>1 DEF TypeOK
  <2>2. QED
    BY <1>2, <1>3, <2>1 DEF TypeOK, TxKnown
<1>5. CursorInv'
  BY DEF CursorInv
<1>6. /\ HandInv' /\ EntryInv' /\ GivenUpAfterRetries' /\ RoomInv'
      /\ \A t \in Tasks : Followed(t) => Followed(t)'
  BY <1>2, EntriesKept
<1>7. NoTaskSkipped'
  BY <1>3, TxsKept, SavedTasks, EffectedKept DEF EffectInv, NoTaskSkipped
<1>8. FollowInv'
  BY <1>1, <1>6, SavedTasks DEF FollowInv, Followed
<1>9. TriesInv'
  BY BeginTries
<1>10. QED
  BY <1>4, <1>5, <1>6, <1>7, <1>8, <1>9 DEF EffectInv

LEMMA ExecuteOrRefundTaskStep ==
  ASSUME IInv, ExecuteOrRefundTask
  PROVE  IInv'
<1>1. Current \in Tasks /\ TypeOK /\ pc = "task" /\ Type[Current] \in {"EXECUTE", "REFUND"}
  BY CurrentTask DEF ExecuteOrRefundTask, IInv
<1>2. done'[Current] > 0
  BY <1>1, CountDone, Types DEF ExecuteOrRefundTask
<1>3. Effected(Current)'
  BY <1>1, <1>2 DEF ExecuteOrRefundTask, Effected, Current
<1>4. QED
  BY <1>1, <1>3, BeginStep DEF ExecuteOrRefundTask

LEMMA RefundSkippedStep ==
  ASSUME IInv, RefundSkipped
  PROVE  IInv'
<1>1. Effected(Current)'
  BY DEF RefundSkipped, Effected, Current
<1>2. QED
  BY <1>1, BeginStep DEF RefundSkipped

LEMMA UnknownTaskStep ==
  ASSUME IInv, UnknownTask
  PROVE  IInv'
<1>1. Effected(Current)'
  BY DEF UnknownTask, Effected, Current
<1>2. QED
  BY <1>1, BeginStep DEF UnknownTask

(* A transaction gets an entry under a key that no other entry has.        *)
LEMMA NewEntry ==
  ASSUME TypeOK, NEW t \in Tasks, NEW retry \in 1 .. MaxRetries
  PROVE  /\ Entry(t, retry) \in PendingTransaction /\ Entry(t, retry).task = t
         /\ Entry(t, retry).n = Len(txs[t]) + 1 /\ Entry(t, retry).retry = retry
         /\ \A d \in InHand : /\ d.task = t => d.n # Entry(t, retry).n
                              /\ Key(d) # Key(Entry(t, retry))
<1>1. Len(txs[t]) \in Nat
  BY Types
<1>2. /\ Entry(t, retry) \in PendingTransaction /\ Entry(t, retry).task = t
      /\ Entry(t, retry).n = Len(txs[t]) + 1 /\ Entry(t, retry).retry = retry
  BY <1>1 DEF Entry, PendingTransaction
<1>3. \A d \in InHand : d.task = t => d.n # Len(txs[t]) + 1
  BY <1>1, Types
<1>4. QED
  BY <1>2, <1>3 DEF Key

LEMMA KnownKept ==
  ASSUME TypeOK, Grown
  PROVE  \A e \in InHand : TxKnown(e)'
<1>1. ASSUME NEW e \in InHand
      PROVE  TxKnown(e)'
  <2>1. e.task \in Tasks /\ TxKnown(e)
    BY Types DEF TypeOK, InHand
  <2>2. Len(txs[e.task]) \in Nat /\ Len(txs'[e.task]) \in Nat /\ Len(txs[e.task]) <= Len(txs'[e.task])
    BY <2>1, Types DEF Grown
  <2>3. QED
    BY <2>1, <2>2 DEF TxKnown
<1>2. QED
  BY <1>1

LEMMA EntriesType ==
  ASSUME TypeOK, Grown,
         \A e \in InHand' : e \in InHand \/ (e \in PendingTransaction /\ TxKnown(e)')
  PROVE  /\ (redis \cup newTx \cup cur \cup retryTx \subseteq PendingTransaction)'
         /\ (\A e \in redis \cup newTx \cup cur \cup retryTx : TxKnown(e))'
         /\ txs' \in [Tasks -> Seq(TxStates)]
  BY Types, KnownKept DEF InHand, Grown

(* The first transaction of a beginning: the beginning allows for it and   *)
(* for its retries.                                                        *)
LEMMA GatewayTaskRoom ==
  ASSUME IInv, GatewayTask
  PROVE  RoomInv'
<1> DEFINE e == Entry(Current, 1)
<1>1. TypeOK /\ Current \in Tasks /\ pc = "task" /\ Began /\ SendTx(Current)
  BY CurrentTask DEF IInv, GatewayTask
<1>2. /\ e \in PendingTransaction /\ e.task = Current /\ e.retry = 1
      /\ \A d \in InHand : d.task = Current => d.n # e.n
  BY <1>1, NewEntry, MaxRetriesType
<1>3. Live' = Live \cup {e} /\ faults' = faults
  BY <1>1 DEF GatewayTask, Live, IInv, HandInv
<1> HIDE DEF e
<1> SUFFICES ASSUME NEW t \in Tasks
             PROVE  Len(txs'[t]) + Cardinality(RoomOf(Live \cup {e}, t)) <= Allowed(t)'
  BY <1>3 DEF RoomInv, RoomOf, Slots
<1>4. /\ Len(txs[t]) \in Nat /\ tries[t] \in Nat /\ faults \in Nat /\ MaxRetries \in Nat
      /\ Live \in SUBSET InHand /\ Live \in SUBSET PendingTransaction
  BY <1>1, Types, MaxRetriesType
<1>5. IsFiniteSet(RoomOf(Live, t)) /\ Cardinality(RoomOf(Live, t)) \in Nat
  BY <1>1, <1>4, LiveRoom
<1>6. Len(txs[t]) + Cardinality(RoomOf(Live, t)) <= Allowed(t)
  BY DEF IInv, RoomInv
<1>7. CASE t = Current
  <2>1. Cardinality(RoomOf(Live \cup {e}, t)) = Cardinality(RoomOf(Live, t)) + (MaxRetries - 1)
    <3>1. \A d \in Live : d.task = e.task => d.n # e.n
      BY <1>2, <1>4
    <3>2. Cardinality(RoomOf(Live \cup {e}, e.task)) = Cardinality(RoomOf(Live, e.task)) + (MaxRetries - e.retry)
      BY <1>2, <1>4, <1>5, <1>7, <3>1, RoomAdded
    <3>3. QED
      BY <1>2, <1>7, <3>2
  <2>2. Len(txs'[t]) = Len(txs[t]) + 1 /\ tries'[t] = tries[t] + 1
    BY <1>1, <1>7, SendTxGrown, BeganTries
  <2>3. Allowed(t)' = Allowed(t) + MaxRetries /\ Allowed(t) \in Nat
    BY <1>1, <1>3, <2>2, AllowedMore
  <2>4. PICK a \in Nat : a = Allowed(t)
    BY <2>3
  <2> DEFINE c == Cardinality(RoomOf(Live, t))
             n == Len(txs[t])
             d == Cardinality(RoomOf(Live \cup {e}, t))
             m == Len(txs'[t])
  <2>5. /\ c \in Nat /\ n \in Nat /\ MaxRetries \in Nat
        /\ n + c <= a /\ m = n + 1 /\ d = c + (MaxRetries - 1)
    BY <1>4, <1>5, <1>6, <2>1, <2>2, <2>4
  <2> HIDE DEF c, n, d, m
  <2>6. m + d <= a + MaxRetries
    BY <2>5
  <2>7. QED
    BY <2>3, <2>4, <2>6, Zenon DEF m, d
<1>8. CASE t # Current
  <2>1. Len(txs'[t]) = Len(txs[t]) /\ tries'[t] = tries[t]
    BY <1>1, <1>8, SendTxGrown, BeganTries
  <2>2. Allowed(t)' = Allowed(t)
    BY <1>1, <1>3, <2>1, AllowedMore
  <2>3. Cardinality(RoomOf(Live \cup {e}, t)) = Cardinality(RoomOf(Live, t))
    BY <1>2, <1>8, RoomOfOthers
  <2>4. QED
    BY <1>6, <2>1, <2>2, <2>3
<1>9. QED
  BY <1>7, <1>8

LEMMA GatewayTaskStep ==
  ASSUME IInv, GatewayTask
  PROVE  IInv'
<1> USE DEF IInv
<1>0. PICK e : e = Entry(Current, 1)
  OBVIOUS
<1>1. /\ Current \in Tasks /\ Current = saved + 1 /\ Current' = Current /\ Current <= upTo
      /\ pc = "task" /\ pc' = "track" /\ Began /\ SendTx(Current) /\ Type[Current] = "GATEWAY_TX"
      /\ newTx = {} /\ newTx' = {e}
      /\ UNCHANGED <<available, saved, last, upTo, redis, pendings, outcomes, faults>>
  BY <1>0, CurrentTask DEF GatewayTask, Current, HandInv
<1>2. /\ e \in PendingTransaction /\ e.task = Current /\ e.retry = 1 /\ e.n = Len(txs[Current]) + 1
      /\ \A d \in InHand : Key(d) # Key(e)
  BY <1>0, <1>1, NewEntry, MaxRetriesType
<1>3. Grown /\ Len(txs'[Current]) = Len(txs[Current]) + 1 /\ Len(txs[Current]) \in Nat
  BY <1>1, SendTxGrown, Types
<1>4. InHand' = InHand \cup {e}
  BY <1>1 DEF InHand
<1>5. TxKnown(e)'
  BY <1>1, <1>2, <1>3 DEF TxKnown
<1>6. TypeOK'
  <2>1. /\ (redis \cup newTx \cup cur \cup retryTx \subseteq PendingTransaction)'
        /\ (\A d \in redis \cup newTx \cup cur \cup retryTx : TxKnown(d))'
        /\ txs' \in [Tasks -> Seq(TxStates)]
    BY <1>2, <1>3, <1>4, <1>5, EntriesType
  <2>2. tries' \in [Tasks -> Nat]
    BY <1>1, BeganTries
  <2>3. QED
    BY <1>1, <2>1, <2>2 DEF TypeOK
<1>7. CursorInv'
  BY <1>1 DEF CursorInv
<1>8. HandInv'
  BY <1>1, <1>2 DEF HandInv
<1>9. EntryInv'
  BY <1>1, <1>2, <1>3, <1>4 DEF EntryInv, InHand
<1>10. GivenUpAfterRetries'
  BY <1>1, <1>3, GivenUpKept
<1>11. EffectInv'
  <2>1. \A t \in Tasks : done[t] \in Nat /\ done'[t] = done[t]
    BY <1>1, Types
  <2>2. NoTaskSkipped'
    BY <1>1, <1>3, <2>1, SavedTasks, EffectedKept DEF EffectInv, NoTaskSkipped
  <2>3. txs'[Current] # <<>>
    BY <1>3
  <2>4. QED
    BY <1>1, <2>2, <2>3 DEF EffectInv
<1>12. FollowInv'
  <2>1. \A t \in Tasks : Len(txs[t]) \in Nat /\ Len(txs'[t]) \in Nat /\ Len(txs[t]) <= Len(txs'[t])
    BY <1>3, Types DEF Grown
  <2>2. \A t \in Tasks : Followed(t) => Followed(t)'
    BY <1>1, <1>3, <1>4, <2>1 DEF Followed, Grown
  <2>3. Followed(Current)'
    BY <1>1, <1>2, <1>4 DEF Followed
  <2>4. QED
    BY <1>1, <2>2, <2>3, SavedTasks DEF FollowInv
<1>13. TriesInv'
  BY <1>1, BeginTries
<1>14. QED
  BY <1>6, <1>7, <1>8, <1>9, <1>10, <1>11, <1>12, <1>13, GatewayTaskRoom

(* The entry reaches Redis, or a fault forgets it or ends the cron.        *)
LEMMA TrackStep ==
  ASSUME IInv, Track \/ TrackLost
  PROVE  IInv'
<1> USE DEF IInv
<1>1. /\ pc = "track" /\ newTx' = {} /\ pc' \in {"idle", "save"}
      /\ redis' \subseteq redis \cup newTx
      /\ (faults' = faults /\ pc' = "save") \/ faults' = faults + 1
      /\ redis' \in {redis, redis \cup newTx}
      /\ UNCHANGED <<available, saved, last, upTo, tries, pendings, txs, done, skipped, givenUp>>
  BY DEF Track, TrackLost, Fault
<1>2. Current \in Tasks /\ Current' = Current /\ \A e \in newTx : e.task = Current
  BY <1>1, CurrentTask DEF Current, HandInv
<1>3. faults' \in Nat /\ forgotten' \subseteq Tasks /\ forgotten \subseteq forgotten' /\ faults <= faults'
  BY <1>1, <1>2, Types DEF TypeOK, Track, TrackLost
<1>4. Grown /\ InHand' \subseteq InHand
  BY <1>1, TxsKept DEF InHand
<1>5. TypeOK'
  BY <1>1, <1>3, <1>4, EntriesType DEF TypeOK
<1>6. CursorInv' /\ HandInv' /\ EntryInv' /\ GivenUpAfterRetries'
  BY <1>1, <1>4, EntryKept, GivenUpKept DEF CursorInv, HandInv
<1>7. EffectInv'
  BY <1>1, <1>2 DEF EffectInv, NoTaskSkipped, Effected
<1>8. \A e \in InHand : (\E d \in InHand' : d.task = e.task) \/ e.task \in givenUp' \cup forgotten'
  <2>1. CASE Track
    BY <1>1, <2>1 DEF Track, InHand
  <2>2. CASE TrackLost
    BY <1>1, <1>2, <2>2 DEF TrackLost, InHand
  <2>3. QED
    BY <2>1, <2>2
<1>9. FollowInv'
  BY <1>1, <1>3, <1>4, <1>8, FollowKept
<1>10. TriesInv'
  BY <1>1, Types, TriesAfterFault DEF TriesInv, Underway, Current
<1>11. RoomInv'
  <2>1. Live' \subseteq Live
    BY <1>1 DEF Live
  <2>2. QED
    BY <1>1, <2>1, RoomQuiet
<1>12. QED
  BY <1>5, <1>6, <1>7, <1>9, <1>10, <1>11

(* The request of the task may have happened; its entry is lost.           *)
LEMMA TaskFailsStep ==
  ASSUME IInv, TaskFails
  PROVE  IInv'
<1> USE DEF IInv
<1>1. /\ pc = "task" /\ pc' = "idle" /\ Began /\ faults' = faults + 1
      /\ UNCHANGED <<available, saved, last, upTo, newTx, redis, pendings, skipped, givenUp>>
  BY DEF TaskFails, Fault
<1>2. Current \in Tasks
  BY <1>1, CurrentTask
<1>3. txs' = txs \/ SendTx(Current)
  BY DEF TaskFails
<1>4. done' = done \/ Count
  BY DEF TaskFails
<1>5. forgotten' \subseteq Tasks /\ forgotten \subseteq forgotten'
  BY <1>2 DEF TaskFails, TypeOK
<1>6. Grown /\ \A t \in Tasks : Len(txs'[t]) \in Nat /\ Len(txs'[t]) <= Len(txs[t]) + 1
  <2>1. \A t \in Tasks : Len(txs[t]) \in Nat
    BY Types
  <2>2. CASE SendTx(Current)
    BY <1>2, <2>1, <2>2, SendTxGrown
  <2>3. CASE txs' = txs
    BY <2>1, <2>3, TxsKept
  <2>4. QED
    BY <1>3, <2>2, <2>3
<1>7. done' \in [Tasks -> Nat] /\ \A t \in Tasks : done'[t] \in Nat /\ done[t] <= done'[t]
  <2>1. \A t \in Tasks : done[t] \in Nat
    BY Types
  <2>2. CASE done' = done
    BY <2>1, <2>2 DEF TypeOK
  <2>3. CASE Count
    BY <1>2, <2>1, <2>3, CountDone
  <2>4. QED
    BY <1>4, <2>2, <2>3
<1>8. tries' \in [Tasks -> Nat] /\ \A t \in Tasks : tries'[t] \in {tries[t], tries[t] + 1}
  BY <1>1, <1>2, BeganTries
<1>9. InHand' = InHand /\ Live' = Live
  BY <1>1 DEF InHand, Live
<1>10. TypeOK'
  <2>1. /\ (redis \cup newTx \cup cur \cup retryTx \subseteq PendingTransaction)'
        /\ (\A e \in redis \cup newTx \cup cur \cup retryTx : TxKnown(e))'
        /\ txs' \in [Tasks -> Seq(TxStates)]
    BY <1>6, <1>9, EntriesType
  <2>2. faults' \in Nat
    BY <1>1, Types
  <2>3. QED
    BY <1>1, <1>5, <1>7, <1>8, <2>1, <2>2 DEF TypeOK
<1>11. CursorInv' /\ HandInv' /\ EntryInv' /\ GivenUpAfterRetries'
  BY <1>1, <1>6, EntryKept, GivenUpKept DEF CursorInv, HandInv
<1>12. EffectInv'
  BY <1>1, <1>6, <1>7, SavedTasks, EffectedKept DEF EffectInv, NoTaskSkipped
<1>13. FollowInv'
  BY <1>1, <1>5, <1>6, <1>9, FollowKept
<1>14. TriesInv'
  BY <1>1, <1>4, BeginTries
<1>15. RoomInv'
  <2>1. ASSUME NEW t \in Tasks
        PROVE  /\ Len(txs'[t]) \in Nat /\ Allowed(t) \in Nat /\ Allowed(t)' \in Nat
               /\ Len(txs'[t]) + Allowed(t) <= Len(txs[t]) + Allowed(t)'
    <3>1. Len(txs[t]) \in Nat /\ MaxRetries \in Nat \ {0} /\ Len(txs'[t]) \in Nat
      BY <1>6, Types, MaxRetriesType
    <3>2. CASE t = Current
      <4>1. tries'[t] = tries[t] + 1 /\ Len(txs'[t]) <= Len(txs[t]) + 1
        BY <1>1, <1>2, <1>6, <3>2, BeganTries
      <4>2. /\ Allowed(t) \in Nat /\ Allowed(t)' \in Nat
            /\ Allowed(t)' = Allowed(t) + MaxRetries + (MaxRetries - 1)
        BY <1>1, <4>1, AllowedMore
      <4>3. PICK a \in Nat, b \in Nat : a = Allowed(t) /\ b = Allowed(t)'
        BY <4>2
      <4>4. b = a + MaxRetries + (MaxRetries - 1)
        BY <4>2, <4>3
      <4>5. Len(txs'[t]) + a <= Len(txs[t]) + b
        BY <3>1, <4>1, <4>4
      <4>6. QED
        BY <3>1, <4>3, <4>5
    <3>3. CASE t # Current
      <4>1. tries'[t] = tries[t] /\ Len(txs'[t]) = Len(txs[t])
        BY <1>1, <1>2, <1>3, <3>3, SendTxGrown, BeganTries
      <4>2. Allowed(t) \in Nat /\ Allowed(t)' \in Nat /\ Allowed(t) <= Allowed(t)'
        BY <1>1, <4>1, AllowedMore
      <4>3. QED
        BY <3>1, <4>1, <4>2
    <3>4. QED
      BY <3>2, <3>3
  <2>2. QED
    BY <1>9, <2>1, RoomKept
<1>16. QED
  BY <1>10, <1>11, <1>12, <1>13, <1>14, <1>15

(* The task is saved, after all it asked for was done, or may be begun     *)
(* again by a fault.                                                       *)
LEMMA SaveStep ==
  ASSUME IInv, Save \/ SaveFails
  PROVE  IInv'
<1> USE DEF IInv
<1>1. /\ pc = "save" /\ saved' \in {saved, Current}
      /\ UNCHANGED <<available, upTo, newTx, tries, redis, pendings, txs, outcomes>>
      /\ \/ saved' = Current /\ last' = Current /\ faults' = faults
            /\ pc' = IF Current < upTo THEN "task" ELSE "ask"
         \/ pc' = "idle" /\ last' = last /\ faults' = faults + 1
  BY DEF Save, SaveFails, Fault
<1>2. Current \in Tasks /\ Current = saved + 1 /\ Current <= upTo /\ saved \in Nat /\ upTo \in 0 .. NumTasks
  BY <1>1, CurrentTask, Types DEF TypeOK
<1>3. TypeOK'
  <2>1. /\ saved' \in 0 .. NumTasks /\ last' \in 0 .. NumTasks /\ faults' \in Nat
    BY <1>1, <1>2, NumTasksType DEF TypeOK, Tasks
  <2>2. QED
    BY <1>1, <2>1 DEF TypeOK, TxKnown
<1>4. CursorInv'
  BY <1>1 DEF CursorInv
<1>5. /\ HandInv' /\ EntryInv' /\ GivenUpAfterRetries' /\ RoomInv'
      /\ \A t \in Tasks : Followed(t) => Followed(t)'
  BY <1>1, Types, EntriesKept
<1>6. \A t \in 1 .. saved' : t \in Tasks /\ (t \in 1 .. saved \/ t = Current)
  BY <1>1, <1>2, SavedTasks
<1>7. \A t \in Tasks : Effected(t) => Effected(t)'
  BY <1>1 DEF Effected
<1>8. EffectInv'
  BY <1>1, <1>6, <1>7 DEF EffectInv, NoTaskSkipped
<1>9. FollowInv'
  BY <1>1, <1>5, <1>6 DEF FollowInv
<1>10. TriesInv'
  <2>1. CASE faults' = faults + 1
    BY <1>1, <2>1, TriesAfterFault
  <2>2. CASE faults' # faults + 1
    <3>1. faults' = faults /\ saved' = Current /\ done' = done /\ tries' = tries
      BY <1>1, <2>2
    <3>2. \A t \in Tasks : Underway(t) => Underway(t)'
      BY <1>2, <3>1, Types DEF Underway, Tasks
    <3>3. QED
      BY <3>1, <3>2 DEF TriesInv
  <2>3. QED
    BY <2>1, <2>2
<1>11. QED
  BY <1>3, <1>4, <1>5, <1>8, <1>9, <1>10

------------------------------------------------------------------------------
(* handlePendingTransactionsRaw.                                           *)

LEMMA PendingStep ==
  ASSUME IInv, UNCHANGED <<available, newTasks, done, skipped>>, Grown,
         faults' \in {faults, faults + 1},
         hpc' \in {"idle", "scan", "await", "resend", "retrack", "putback"},
         keys' \subseteq Tasks \X (Nat \ {0}),
         givenUp' \subseteq Tasks, forgotten' \subseteq Tasks,
         givenUp \subseteq givenUp', forgotten \subseteq forgotten',
         \A e \in InHand' : e \in InHand \/ (e \in PendingTransaction /\ TxKnown(e)'),
         \A e \in InHand : \/ \E d \in InHand' : d.task = e.task
                           \/ e.task \in givenUp' \cup forgotten'
                           \/ \E i \in 1 .. Len(txs[e.task]) : txs[e.task][i] = "success",
         HandInv', EntryInv', GivenUpAfterRetries', RoomInv'
  PROVE  IInv'
<1>1. TypeOK'
  <2>1. /\ (redis \cup newTx \cup cur \cup retryTx \subseteq PendingTransaction)'
        /\ (\A e \in redis \cup newTx \cup cur \cup retryTx : TxKnown(e))'
        /\ txs' \in [Tasks -> Seq(TxStates)]
    BY EntriesType DEF IInv
  <2>2. faults' \in Nat
    BY Types DEF IInv
  <2>3. QED
    BY <2>1, <2>2 DEF IInv, TypeOK
<1>2. CursorInv' /\ EffectInv' /\ TriesInv'
  BY TasksKept
<1>3. FollowInv'
  BY FollowKept
<1>4. QED
  BY <1>1, <1>2, <1>3 DEF IInv

(* Entries are only moved or dropped, and no transaction is sent.          *)
LEMMA MovedStep ==
  ASSUME IInv, UNCHANGED <<available, newTasks, txs, done, skipped, givenUp>>,
         faults' \in {faults, faults + 1},
         hpc' \in {"idle", "scan", "await", "resend", "retrack", "putback"},
         keys' \subseteq keys,
         forgotten' \subseteq Tasks, forgotten \subseteq forgotten',
         redis' \subseteq redis, cur' \subseteq cur, retryTx' \subseteq retryTx, Live' \subseteq Live,
         \A e \in InHand : \/ \E d \in InHand' : d.task = e.task
                           \/ e.task \in givenUp' \cup forgotten'
                           \/ \E i \in 1 .. Len(txs[e.task]) : txs[e.task][i] = "success",
         HandInv'
  PROVE  IInv'
<1> USE DEF IInv
<1>1. Grown /\ InHand' \subseteq InHand
  BY TxsKept DEF InHand
<1>2. EntryInv' /\ GivenUpAfterRetries'
  BY <1>1, EntryKept, GivenUpKept
<1>3. RoomInv'
  BY RoomQuiet
<1>4. /\ keys' \subseteq Tasks \X (Nat \ {0}) /\ givenUp' \subseteq Tasks
  BY DEF TypeOK
<1>5. QED
  BY <1>1, <1>2, <1>3, <1>4, PendingStep

LEMMA ScanStep ==
  ASSUME IInv, Scan \/ ScanEnds \/ \E k \in keys : GetDelGone(k)
  PROVE  IInv'
<1> USE DEF IInv
<1>1. /\ UNCHANGED <<available, newTasks, redis, cur, retryTx, txs, outcomes, faults>>
      /\ hpc \in {"idle", "scan"} /\ hpc' \in {"idle", "scan"} /\ cur = {} /\ retryTx = {}
  BY DEF Scan, ScanEnds, GetDelGone, HandInv
<1>2. keys' \subseteq Tasks \X (Nat \ {0})
  <2>1. \A e \in redis : Key(e) \in Tasks \X (Nat \ {0})
    BY DEF TypeOK, PendingTransaction, Key
  <2>2. keys \subseteq Tasks \X (Nat \ {0})
    BY DEF TypeOK
  <2>3. QED
    BY <2>1, <2>2 DEF Scan, ScanEnds, GetDelGone
<1>3. InHand' = InHand /\ Live' = Live /\ Grown
  BY <1>1, TxsKept DEF InHand, Live
<1>4. HandInv' /\ EntryInv' /\ GivenUpAfterRetries'
  BY <1>1, <1>3, EntryKept, GivenUpKept DEF HandInv, Current
<1>5. RoomInv'
  BY <1>1, <1>3 DEF RoomInv, RoomOf, Slots, Allowed
<1>6. givenUp \subseteq Tasks /\ forgotten \subseteq Tasks
  BY DEF TypeOK
<1>7. QED
  BY <1>1, <1>2, <1>3, <1>4, <1>5, <1>6, PendingStep

LEMMA GetDelStep ==
  ASSUME IInv, NEW e \in redis, GetDel(e)
  PROVE  IInv'
<1> USE DEF IInv
<1>1. /\ UNCHANGED <<available, newTasks, retryTx, txs, outcomes, faults>>
      /\ hpc = "scan" /\ hpc' = "await" /\ cur = {} /\ retryTx = {}
      /\ keys' \subseteq keys /\ redis' = redis \ {e} /\ cur' = {e}
  BY DEF GetDel, HandInv
<1>2. InHand' = InHand /\ Live' = Live /\ Grown
  BY <1>1, TxsKept DEF InHand, Live
<1>3. HandInv' /\ GivenUpAfterRetries'
  BY <1>1, <1>2, GivenUpKept DEF HandInv, Current
<1>4. EntryInv'
  <2>1. \A d \in redis' \cup newTx' : d \in redis \cup newTx
    BY <1>1
  <2>2. \A d \in redis' : d # e
    BY <1>1
  <2>3. \A d \in newTx : d # e
    BY DEF EntryInv
  <2>4. QED
    BY <1>1, <1>2, <2>1, <2>2, <2>3 DEF EntryInv, Key
<1>5. RoomInv'
  BY <1>1, <1>2 DEF RoomInv, RoomOf, Slots, Allowed
<1>6. givenUp \subseteq Tasks /\ forgotten \subseteq Tasks /\ keys' \subseteq Tasks \X (Nat \ {0})
  BY <1>1 DEF TypeOK
<1>7. QED
  BY <1>1, <1>2, <1>3, <1>4, <1>5, <1>6, PendingStep

(* An entry is lost in Redis.                                              *)
LEMMA LostStep ==
  ASSUME IInv, NEW e \in redis, GetDelFails(e) \/ Expire(e)
  PROVE  IInv'
<1> USE DEF IInv
<1>1. /\ UNCHANGED <<available, newTasks, hpc, cur, retryTx, txs, done, skipped, givenUp>>
      /\ faults' = faults + 1 /\ keys' \subseteq keys
      /\ \/ UNCHANGED <<redis, forgotten>>
         \/ redis' = redis \ {e} /\ forgotten' = forgotten \cup {e.task}
  BY DEF GetDelFails, Expire, Fault
<1>2. e.task \in Tasks /\ forgotten \subseteq Tasks /\ hpc \in {"idle", "scan", "await", "resend", "retrack", "putback"}
  BY Types DEF InHand, TypeOK
<1>3. Live' \subseteq Live /\ HandInv'
  BY <1>1 DEF Live, HandInv, Current
<1>4. \A d \in InHand : d \in InHand' \/ d.task \in forgotten'
  BY <1>1 DEF InHand
<1>5. QED
  BY <1>1, <1>2, <1>3, <1>4, MovedStep

LEMMA AwaitStep ==
  ASSUME IInv, NEW e \in cur, AwaitSuccess(e) \/ AwaitFalse(e)
  PROVE  IInv'
<1> USE DEF IInv
<1>1. /\ UNCHANGED <<available, newTasks, redis, keys, retryTx, txs, done, skipped, forgotten>>
      /\ hpc = "await" /\ cur = {e} /\ retryTx = {} /\ faults' \in {faults, faults + 1}
      /\ \/ cur' = {} /\ hpc' = "scan"
         \/ cur' = cur /\ hpc' = "resend" /\ e.retry # MaxRetries
  BY DEF AwaitSuccess, AwaitFalse, Fault, HandInv
<1>2. /\ e.task \in Tasks /\ e.retry \in 1 .. MaxRetries /\ MaxRetries \in Nat
      /\ e.n <= Len(txs[e.task]) /\ e.n \in 1 .. Len(txs[e.task]) /\ e.n \in Nat /\ Len(txs[e.task]) \in Nat
  BY Types, MaxRetriesType DEF InHand, TypeOK, TxKnown
<1>3. Live' \subseteq Live /\ HandInv'
  BY <1>1, <1>2 DEF Live, HandInv, Current
<1>4. Grown /\ EntryInv'
  BY <1>1, TxsKept, EntryKept
<1>5. RoomInv'
  BY <1>1, <1>3, RoomQuiet
<1>6. GivenUpAfterRetries'
  <2>1. CASE givenUp' = givenUp
    BY <1>4, <2>1, GivenUpKept
  <2>2. CASE givenUp' # givenUp
    <3>1. e.retry = MaxRetries /\ givenUp' = givenUp \cup {e.task}
      BY <2>2 DEF AwaitSuccess, AwaitFalse
    <3>2. e.retry <= e.n
      BY DEF EntryInv, InHand
    <3>3. Len(txs[e.task]) >= MaxRetries
      BY <1>2, <3>1, <3>2
    <3>4. QED
      BY <1>1, <3>1, <3>3 DEF GivenUpAfterRetries
  <2>3. QED
    BY <2>1, <2>2
<1>7. givenUp \subseteq givenUp' /\ givenUp' \subseteq Tasks /\ forgotten \subseteq Tasks /\ keys \subseteq Tasks \X (Nat \ {0})
  BY <1>2 DEF AwaitSuccess, AwaitFalse, TypeOK
<1>8. \A d \in InHand : \/ d \in InHand'
                        \/ d.task \in givenUp'
                        \/ \E i \in 1 .. Len(txs[d.task]) : txs[d.task][i] = "success"
  <2>1. \A d \in InHand : d \in InHand' \/ (d = e /\ cur' = {})
    BY <1>1 DEF InHand
  <2>2. cur' = {} => e.task \in givenUp' \/ txs[e.task][e.n] = "success"
    BY <1>1 DEF AwaitSuccess, AwaitFalse
  <2>3. QED
    BY <1>2, <2>1, <2>2
<1>9. InHand' \subseteq InHand
  BY <1>1 DEF InHand
<1>10. QED
  BY <1>1, <1>3, <1>4, <1>5, <1>6, <1>7, <1>8, <1>9, PendingStep

(* The entry of a transaction sent again allows for one less than the one  *)
(* it replaces.                                                            *)
LEMMA ReplacedRoom ==
  ASSUME TypeOK, NEW e \in cur, NEW r \in PendingTransaction,
         r.task = e.task, r.retry = e.retry + 1,
         \A d \in redis \cup newTx : Key(d) # Key(e) /\ Key(d) # Key(r)
  PROVE  \A t \in Tasks :
           LET c == Cardinality(RoomOf(redis \cup newTx \cup {e}, t))
               d == Cardinality(RoomOf(redis \cup newTx \cup {r}, t))
           IN  c \in Nat /\ d \in Nat /\ c = d + IF t = e.task THEN 1 ELSE 0
<1> SUFFICES ASSUME NEW t \in Tasks
             PROVE  LET c == Cardinality(RoomOf(redis \cup newTx \cup {e}, t))
                        d == Cardinality(RoomOf(redis \cup newTx \cup {r}, t))
                    IN  c \in Nat /\ d \in Nat /\ c = d + IF t = e.task THEN 1 ELSE 0
  OBVIOUS
<1> DEFINE R == redis \cup newTx
           a == Cardinality(RoomOf(R, t))
           c == Cardinality(RoomOf(R \cup {e}, t))
           d == Cardinality(RoomOf(R \cup {r}, t))
<1>1. R \in SUBSET InHand /\ R \in SUBSET PendingTransaction /\ e \in InHand /\ e \in PendingTransaction
  BY Types DEF InHand
<1>2. IsFiniteSet(RoomOf(R, t)) /\ a \in Nat
  BY <1>1, LiveRoom
<1>3. /\ \A x \in R : x.task = e.task => x.n # e.n
      /\ \A x \in R : x.task = r.task => x.n # r.n
  BY DEF Key
<1>4. e.retry \in 1 .. MaxRetries /\ r.retry \in 1 .. MaxRetries /\ MaxRetries \in Nat
  BY <1>1, MaxRetriesType DEF PendingTransaction
<1> HIDE DEF R
<1>5. CASE t = e.task
  <2>1. c = a + (MaxRetries - e.retry)
    BY <1>1, <1>2, <1>3, <1>5, RoomAdded
  <2>2. d = a + (MaxRetries - r.retry)
    BY <1>1, <1>2, <1>3, <1>5, RoomAdded
  <2> HIDE DEF a, c, d
  <2>3. c \in Nat /\ d \in Nat /\ c = d + 1
    BY <1>2, <1>4, <2>1, <2>2
  <2>4. QED
    BY <1>5, <2>3 DEF c, d, R
<1>6. CASE t # e.task
  <2>1. c = a /\ d = a
    BY <1>6, RoomOfOthers
  <2> HIDE DEF a, c, d
  <2>2. c \in Nat /\ d \in Nat /\ c = d + 0
    BY <1>2, <2>1
  <2>3. QED
    BY <1>6, <2>2 DEF c, d, R
<1>7. QED
  BY <1>5, <1>6

LEMMA ResendStep ==
  ASSUME IInv, NEW e \in cur, Resend(e)
  PROVE  IInv'
<1> USE DEF IInv
<1>0. PICK r : r = Entry(e.task, e.retry + 1)
  OBVIOUS
<1>1. /\ UNCHANGED <<available, newTasks, redis, keys, cur, outcomes, faults>>
      /\ hpc = "resend" /\ hpc' = "retrack" /\ cur = {e} /\ retryTx = {} /\ retryTx' = {r}
      /\ SendTx(e.task) /\ e.retry < MaxRetries
  BY <1>0 DEF Resend, HandInv
<1>2. e.task \in Tasks /\ e.retry \in 1 .. MaxRetries /\ e.retry + 1 \in 1 .. MaxRetries /\ MaxRetries \in Nat
      /\ Len(txs[e.task]) \in Nat /\ e.n \in Nat /\ e.n <= Len(txs[e.task])
  BY <1>1, Types, MaxRetriesType DEF InHand
<1>3. /\ r \in PendingTransaction /\ r.task = e.task /\ r.n = Len(txs[e.task]) + 1
      /\ r.retry = e.retry + 1 /\ \A d \in InHand : Key(d) # Key(r)
  BY <1>0, <1>2, NewEntry
<1>4. /\ Grown /\ Len(txs'[e.task]) = Len(txs[e.task]) + 1
      /\ \A t \in Tasks : t # e.task => txs'[t] = txs[t]
  BY <1>1, <1>2, SendTxGrown
<1>5. InHand' = InHand \cup {r}
  BY <1>1 DEF InHand
<1>6. TxKnown(r)'
  BY <1>2, <1>3, <1>4 DEF TxKnown
<1>7. HandInv'
  BY <1>1, <1>3 DEF HandInv, Current
<1>8. EntryInv'
  <2>1. r.retry <= r.n
    BY <1>2, <1>3 DEF EntryInv, InHand
  <2>2. \A d \in InHand' : d.retry <= d.n
    BY <1>5, <2>1 DEF EntryInv
  <2>3. \A d \in redis \cup newTx : Key(d) # Key(r)
    BY <1>3 DEF InHand
  <2>4. redis' = redis /\ newTx' = newTx /\ cur' = cur /\ retryTx' = {r}
    BY <1>1
  <2>5. \A d \in cur : Key(d) # Key(r)
    BY <1>3 DEF InHand
  <2>6. QED
    BY <2>2, <2>3, <2>4, <2>5 DEF EntryInv, InHand, Key
<1>9. GivenUpAfterRetries'
  BY <1>1, <1>4, GivenUpKept
<1>10. RoomInv'
  <2>1. Live = redis \cup newTx \cup {e} /\ Live' = redis \cup newTx \cup {r}
    BY <1>1 DEF Live
  <2>2. \A d \in redis \cup newTx : Key(d) # Key(e) /\ Key(d) # Key(r)
    BY <1>3 DEF EntryInv, InHand
  <2> SUFFICES ASSUME NEW t \in Tasks
               PROVE  Len(txs'[t]) + Cardinality(RoomOf(redis \cup newTx \cup {r}, t)) <= Allowed(t)
    BY <1>1, <2>1 DEF RoomInv, RoomOf, Slots, Allowed
  <2> DEFINE c == Cardinality(RoomOf(redis \cup newTx \cup {e}, t))
             d == Cardinality(RoomOf(redis \cup newTx \cup {r}, t))
             m == Len(txs[t])
             n == Len(txs'[t])
  <2>3. c \in Nat /\ d \in Nat /\ c = d + IF t = e.task THEN 1 ELSE 0
    BY <1>3, <2>2, ReplacedRoom
  <2>4. PICK b \in Nat : b = Allowed(t)
    BY <1>1, AllowedMore
  <2>6. m + c <= b
    BY <2>1, <2>4 DEF RoomInv
  <2>5. m \in Nat /\ n = m + IF t = e.task THEN 1 ELSE 0
    <3>1. Len(txs[t]) \in Nat
      BY Types
    <3>2. CASE t = e.task
      BY <1>4, <3>1, <3>2
    <3>3. CASE t # e.task
      BY <1>4, <3>1, <3>3
    <3>4. QED
      BY <3>2, <3>3
  <2> HIDE DEF c, d, m, n
  <2>7. n + d <= b
    BY <2>3, <2>5, <2>6
  <2>8. QED
    BY <2>4, <2>7 DEF d, n
<1>11. givenUp \subseteq Tasks /\ forgotten \subseteq Tasks /\ keys \subseteq Tasks \X (Nat \ {0})
  BY DEF TypeOK
<1>12. QED
  BY <1>1, <1>3, <1>4, <1>5, <1>6, <1>7, <1>8, <1>9, <1>10, <1>11, PendingStep

(* A transaction that may have been sent all the same is paid by the fault. *)
LEMMA ResendFailsStep ==
  ASSUME IInv, NEW e \in cur, ResendFails(e)
  PROVE  IInv'
<1> USE DEF IInv
<1>1. /\ UNCHANGED <<available, newTasks, redis, keys, cur, retryTx, outcomes>>
      /\ hpc = "resend" /\ hpc' = "putback" /\ cur = {e} /\ faults' = faults + 1
      /\ SendTx(e.task) \/ UNCHANGED txs
  BY DEF ResendFails, Fault, HandInv
<1>2. e.task \in Tasks
  BY Types DEF InHand
<1>3. Grown /\ \A t \in Tasks : Len(txs'[t]) \in Nat /\ Len(txs'[t]) <= Len(txs[t]) + 1
  <2>1. \A t \in Tasks : Len(txs[t]) \in Nat
    BY Types
  <2>2. CASE SendTx(e.task)
    BY <1>2, <2>1, <2>2, SendTxGrown
  <2>3. CASE UNCHANGED txs
    BY <2>1, <2>3, TxsKept
  <2>4. QED
    BY <1>1, <2>2, <2>3
<1>4. InHand' = InHand /\ Live' = Live
  BY <1>1 DEF InHand, Live
<1>5. HandInv' /\ EntryInv' /\ GivenUpAfterRetries'
  BY <1>1, <1>3, EntryKept, GivenUpKept DEF HandInv, Current
<1>6. RoomInv'
  <2>1. MaxRetries - 1 \in Nat /\ MaxRetries - 1 >= 1
    <3>1. e.retry \in 1 .. MaxRetries /\ e.retry < MaxRetries /\ MaxRetries \in Nat
      BY <1>1, Types, MaxRetriesType DEF InHand, HandInv
    <3>2. QED
      BY <3>1
  <2>2. ASSUME NEW t \in Tasks
        PROVE  /\ Allowed(t) \in Nat /\ Allowed(t)' \in Nat
               /\ Len(txs'[t]) + Allowed(t) <= Len(txs[t]) + Allowed(t)'
    <3>1. /\ Allowed(t) \in Nat /\ Allowed(t)' \in Nat
          /\ Allowed(t)' = Allowed(t) + (MaxRetries - 1)
      BY <1>1, AllowedMore
    <3>2. PICK a \in Nat, b \in Nat, k \in Nat :
            a = Allowed(t) /\ b = Allowed(t)' /\ k = MaxRetries - 1 /\ k >= 1
      BY <2>1, <3>1
    <3>3. b = a + k
      BY <3>1, <3>2
    <3>4. Len(txs[t]) \in Nat /\ Len(txs'[t]) \in Nat /\ Len(txs'[t]) <= Len(txs[t]) + 1
      BY <1>3, Types
    <3>5. PICK m \in Nat, n \in Nat : m = Len(txs[t]) /\ n = Len(txs'[t])
      BY <3>4
    <3>6. n <= m + 1
      BY <3>4, <3>5
    <3>7. n + a <= m + b
      <4>1. k >= 1
        BY <3>2
      <4>2. QED
        BY <3>3, <3>6, <4>1
    <3>8. QED
      BY <3>2, <3>5, <3>7
  <2>3. QED
    BY <1>3, <1>4, <2>2, RoomKept
<1>7. givenUp \subseteq Tasks /\ forgotten \subseteq Tasks /\ keys \subseteq Tasks \X (Nat \ {0})
  BY DEF TypeOK
<1>8. QED
  BY <1>1, <1>3, <1>4, <1>5, <1>6, <1>7, PendingStep

(* The entry, new or old, goes back into Redis.                            *)
LEMMA PutStep ==
  ASSUME IInv, Retrack \/ PutBack
  PROVE  IInv'
<1> USE DEF IInv
<1>1. /\ UNCHANGED <<available, newTasks, keys, txs, outcomes, faults>>
      /\ hpc' = "scan" /\ cur' = {} /\ retryTx' = {} /\ hpc \in {"retrack", "putback"}
      /\ redis' = redis \cup IF hpc = "retrack" THEN retryTx ELSE cur
  BY DEF Retrack, PutBack, HandInv
<1>2. Live' = Live /\ InHand' \subseteq InHand /\ Grown
  BY <1>1, TxsKept DEF Live, InHand
<1>3. HandInv' /\ GivenUpAfterRetries'
  BY <1>1, <1>2, GivenUpKept DEF HandInv, Current
<1>4. EntryInv'
  <2>1. \A d, x \in retryTx : d = x
    BY DEF HandInv
  <2>2. \A d, x \in cur : d = x
    BY DEF HandInv
  <2>3. newTx' = newTx
    BY <1>1
  <2>4. redis' \cap newTx' = {}
    BY <1>1, <2>3 DEF EntryInv
  <2>5. \A d, x \in redis' \cup newTx' : Key(d) = Key(x) => d = x
    BY <1>1, <2>1, <2>2, <2>3 DEF EntryInv, Key
  <2>6. QED
    BY <1>1, <1>2, <2>4, <2>5 DEF EntryInv, Key
<1>5. RoomInv'
  BY <1>1, <1>2 DEF RoomInv, RoomOf, Slots, Allowed
<1>6. givenUp \subseteq Tasks /\ forgotten \subseteq Tasks /\ keys \subseteq Tasks \X (Nat \ {0})
  BY DEF TypeOK
<1>7. \A d \in InHand : \E x \in InHand' : x.task = d.task
  BY <1>1 DEF InHand, HandInv
<1>8. QED
  BY <1>1, <1>2, <1>3, <1>4, <1>5, <1>6, <1>7, PendingStep

(* The old entry stays in hand, and the new one may be in Redis beside it: *)
(* the fault pays for what is left to the old one.                         *)
LEMMA RetrackLostStep ==
  ASSUME IInv, NEW e \in cur, RetrackLost(e)
  PROVE  IInv'
<1> USE DEF IInv
<1>1. /\ UNCHANGED <<available, newTasks, keys, txs, done, skipped, givenUp>>
      /\ hpc = "retrack" /\ cur = {e} /\ retryTx' = {} /\ faults' = faults + 1
      /\ redis' \in {redis, redis \cup retryTx}
      /\ \/ hpc' = "putback" /\ UNCHANGED <<cur, forgotten>>
         \/ /\ hpc' = "scan" /\ cur' = {} /\ forgotten' = forgotten \cup {e.task}
            /\ UNCHANGED redis
  BY DEF RetrackLost, Fault, HandInv
<1>2. PICK r \in retryTx : retryTx = {r} /\ r.task = e.task /\ r.retry = e.retry + 1
  BY <1>1 DEF HandInv
<1>3. e.task \in Tasks /\ r \in PendingTransaction /\ InHand' \subseteq InHand /\ Grown
  BY <1>1, Types, TxsKept DEF InHand
<1>4. HandInv' /\ GivenUpAfterRetries'
  BY <1>1, <1>3, GivenUpKept DEF HandInv, Current
<1>5. EntryInv'
  <2>1. /\ r \notin newTx /\ \A d \in redis \cup newTx : Key(d) # Key(r)
        /\ Key(e) # Key(r) /\ newTx' = newTx
    BY <1>1, <1>2 DEF EntryInv
  <2>2. redis' \cap newTx' = {} /\ \A d, x \in redis' \cup newTx' : Key(d) = Key(x) => d = x
    BY <1>1, <1>2, <2>1 DEF EntryInv, Key
  <2>3. \A d \in cur' \cup retryTx' : \A x \in redis' \cup newTx' : Key(d) # Key(x)
    BY <1>1, <1>2, <2>1 DEF EntryInv, Key
  <2>4. QED
    BY <1>1, <1>3, <2>2, <2>3 DEF EntryInv, Key
<1>6. RoomInv'
  <2>1. Live' \subseteq Live \cup {e} /\ Live = redis \cup newTx \cup {r}
    BY <1>1, <1>2 DEF Live
  <2>2. \A d \in Live : d.task = e.task => d.n # e.n
    BY <1>1, <1>2, <2>1 DEF EntryInv, Key
  <2> SUFFICES ASSUME NEW t \in Tasks
               PROVE  Len(txs[t]) + Cardinality(RoomOf(Live', t)) <= Allowed(t)'
    BY <1>1 DEF RoomInv, RoomOf, Slots
  <2>3. /\ Live \in SUBSET InHand /\ Live \cup {e} \in SUBSET InHand /\ Live \in SUBSET PendingTransaction
        /\ e \in PendingTransaction /\ e.retry \in 1 .. MaxRetries /\ MaxRetries \in Nat
        /\ Len(txs[t]) \in Nat
    BY <2>1, Types, MaxRetriesType DEF InHand
  <2>4. /\ IsFiniteSet(RoomOf(Live, t)) /\ Cardinality(RoomOf(Live, t)) \in Nat
        /\ IsFiniteSet(RoomOf(Live \cup {e}, t)) /\ Cardinality(RoomOf(Live \cup {e}, t)) \in Nat
    BY <2>3, LiveRoom
  <2>5. /\ Cardinality(RoomOf(Live', t)) <= Cardinality(RoomOf(Live \cup {e}, t))
        /\ Cardinality(RoomOf(Live', t)) \in Nat
    BY <2>1, <2>4, RoomOfFewer
  <2> DEFINE c == Cardinality(RoomOf(Live, t))
             d == Cardinality(RoomOf(Live \cup {e}, t))
             x == Cardinality(RoomOf(Live', t))
  <2>6. d <= c + (MaxRetries - 1)
    <3>1. CASE t = e.task
      <4>1. d = c + (MaxRetries - e.retry)
        BY <2>2, <2>3, <2>4, <3>1, RoomAdded
      <4> HIDE DEF c, d
      <4>2. c \in Nat
        BY <2>4 DEF c
      <4>3. QED
        BY <2>3, <4>1, <4>2
    <3>2. CASE t # e.task
      <4>1. d = c
        BY <3>2, RoomOfOthers
      <4> HIDE DEF c, d
      <4>2. c \in Nat
        BY <2>4 DEF c
      <4>3. QED
        BY <2>3, <4>1, <4>2
    <3>3. QED
      BY <3>1, <3>2
  <2>7. Allowed(t) \in Nat /\ Allowed(t)' = Allowed(t) + (MaxRetries - 1)
    BY <1>1, AllowedMore
  <2>8. PICK a \in Nat : a = Allowed(t)
    BY <2>7
  <2>9. Len(txs[t]) + c <= a
    BY <2>8 DEF RoomInv
  <2>10. c \in Nat /\ d \in Nat /\ x \in Nat /\ x <= d
    BY <2>4, <2>5
  <2> HIDE DEF c, d, x
  <2>11. Len(txs[t]) + x <= a + (MaxRetries - 1)
    BY <2>3, <2>6, <2>9, <2>10
  <2>12. QED
    BY <2>7, <2>8, <2>11, Zenon DEF x
<1>7. /\ givenUp \subseteq Tasks /\ forgotten' \subseteq Tasks /\ forgotten \subseteq forgotten'
      /\ keys \subseteq Tasks \X (Nat \ {0})
  BY <1>1, <1>3 DEF TypeOK
<1>8. \A d \in InHand : (\E x \in InHand' : x.task = d.task) \/ d.task \in forgotten'
  BY <1>1, <1>2 DEF InHand
<1>9. QED
  BY <1>1, <1>3, <1>4, <1>5, <1>6, <1>7, <1>8, PendingStep

(* The entry is lost, or is in Redis when the cron ends.                   *)
LEMMA PutBackLostStep ==
  ASSUME IInv, NEW e \in cur, PutBackLost(e)
  PROVE  IInv'
<1> USE DEF IInv
<1>1. /\ UNCHANGED <<available, newTasks, retryTx, txs, done, skipped, givenUp>>
      /\ hpc = "putback" /\ cur = {e} /\ retryTx = {} /\ cur' = {} /\ hpc' \in {"idle", "scan"}
      /\ faults' = faults + 1 /\ keys' \subseteq keys
      /\ \/ redis' = redis /\ forgotten' = forgotten \cup {e.task}
         \/ redis' = redis \cup {e} /\ forgotten' = forgotten
  BY DEF PutBackLost, Fault, HandInv
<1>2. /\ e.task \in Tasks /\ forgotten' \subseteq Tasks /\ forgotten \subseteq forgotten'
      /\ givenUp \subseteq Tasks /\ keys' \subseteq Tasks \X (Nat \ {0})
  BY <1>1, Types DEF InHand, TypeOK
<1>3. Live' \subseteq Live /\ InHand' \subseteq InHand /\ Grown
  BY <1>1, TxsKept DEF Live, InHand
<1>4. HandInv' /\ GivenUpAfterRetries'
  BY <1>1, <1>3, GivenUpKept DEF HandInv, Current
<1>5. EntryInv'
  <2>1. e \notin newTx /\ \A d \in redis \cup newTx : Key(d) # Key(e)
    BY DEF EntryInv
  <2>2. redis' \cap newTx' = {} /\ \A d, x \in redis' \cup newTx' : Key(d) = Key(x) => d = x
    BY <1>1, <2>1 DEF EntryInv, Key
  <2>3. QED
    BY <1>1, <1>3, <2>2 DEF EntryInv, Key
<1>6. RoomInv'
  BY <1>1, <1>3, RoomQuiet
<1>7. \A d \in InHand : d \in InHand' \/ d.task \in forgotten'
  BY <1>1 DEF InHand
<1>8. QED
  BY <1>1, <1>2, <1>3, <1>4, <1>5, <1>6, <1>7, PendingStep

------------------------------------------------------------------------------
(* The network and the process.                                            *)

LEMMA SettleStep ==
  ASSUME IInv, NEW t \in Tasks, Settle(t)
  PROVE  IInv'
<1> USE DEF IInv
<1>1. UNCHANGED <<available, newTasks, redis, pendings, outcomes, faults>>
  BY DEF Settle
<1>2. PICK i \in 1 .. Len(txs[t]), s \in {"success", "failed"} :
        txs[t][i] = "pending" /\ txs' = [txs EXCEPT ![t] = [txs[t] EXCEPT ![i] = s]]
  BY DEF Settle
<1>3. txs \in [Tasks -> Seq(TxStates)] /\ txs[t] \in Seq(TxStates) /\ Len(txs[t]) \in Nat
  BY Types DEF TypeOK
<1>4. [txs[t] EXCEPT ![i] = s] \in Seq(TxStates) /\ Len([txs[t] EXCEPT ![i] = s]) = Len(txs[t])
  BY <1>3 DEF TxStates
<1>5. txs'[t] = [txs[t] EXCEPT ![i] = s] /\ \A u \in Tasks : u # t => txs'[u] = txs[u]
  BY <1>2, <1>3
<1>6. \A j \in 1 .. Len(txs[t]) : txs[t][j] = "success" => txs'[t][j] = "success"
  BY <1>2, <1>3, <1>5
<1>7. /\ txs' \in [Tasks -> Seq(TxStates)]
      /\ \A u \in Tasks : Len(txs'[u]) = Len(txs[u]) /\ Len(txs[u]) \in Nat
  BY <1>2, <1>3, <1>4, <1>5, Types
<1>8. Grown
  BY <1>5, <1>6, <1>7 DEF Grown
<1>9. InHand' = InHand /\ Live' = Live
  BY <1>1 DEF InHand, Live
<1>10. HandInv' /\ EntryInv' /\ GivenUpAfterRetries'
  BY <1>1, <1>8, EntryKept, GivenUpKept DEF HandInv, Current
<1>11. RoomInv'
  BY <1>1, <1>7, <1>9, RoomQuiet
<1>12. /\ givenUp \subseteq Tasks /\ forgotten \subseteq Tasks /\ keys \subseteq Tasks \X (Nat \ {0})
       /\ hpc \in {"idle", "scan", "await", "resend", "retrack", "putback"}
  BY DEF TypeOK
<1>13. QED
  BY <1>1, <1>8, <1>9, <1>10, <1>11, <1>12, PendingStep

(* What only the process knew is forgotten, and everything else is kept.   *)
LEMMA CrashStep ==
  ASSUME IInv, Crash
  PROVE  IInv'
<1> USE DEF IInv
<1>1. /\ UNCHANGED <<available, saved, last, upTo, tries, redis, txs, done, skipped, givenUp>>
      /\ pc' = "idle" /\ newTx' = {} /\ hpc' = "idle" /\ keys' = {} /\ cur' = {} /\ retryTx' = {}
      /\ faults' = faults + 1 /\ forgotten' = forgotten \cup {e.task : e \in newTx \cup cur}
  BY DEF Crash, Fault
<1>2. InHand' \subseteq InHand /\ Live' \subseteq Live /\ Grown
  BY <1>1, TxsKept DEF InHand, Live
<1>3. TypeOK'
  <2>1. forgotten' \subseteq Tasks
    BY <1>1, Types DEF TypeOK, InHand
  <2>2. faults' \in Nat
    BY <1>1, Types
  <2>3. QED
    BY <1>1, <1>2, <2>1, <2>2, EntriesType DEF TypeOK
<1>4. CursorInv' /\ HandInv' /\ EntryInv' /\ GivenUpAfterRetries'
  BY <1>1, <1>2, EntryKept, GivenUpKept DEF CursorInv, HandInv
<1>5. EffectInv'
  BY <1>1 DEF EffectInv, NoTaskSkipped, Effected
<1>6. \A e \in InHand : (\E d \in InHand' : d.task = e.task) \/ e.task \in forgotten'
  BY <1>1 DEF InHand, HandInv
<1>7. FollowInv'
  BY <1>1, <1>2, <1>6, FollowKept
<1>8. TriesInv'
  BY <1>1, TriesAfterFault
<1>9. RoomInv'
  BY <1>1, <1>2, RoomQuiet
<1>10. QED
  BY <1>3, <1>4, <1>5, <1>7, <1>8, <1>9

------------------------------------------------------------------------------
LEMMA InitIInv == Init => IInv
<1> SUFFICES ASSUME Init PROVE IInv
  OBVIOUS
<1>1. TypeOK
  BY NumTasksType DEF Init, TypeOK, PendingTransaction, TxKnown
<1>2. CursorInv /\ HandInv /\ EntryInv /\ GivenUpAfterRetries
  BY DEF Init, CursorInv, HandInv, EntryInv, InHand, GivenUpAfterRetries
<1>3. EffectInv /\ FollowInv /\ TriesInv
  BY DEF Init, EffectInv, NoTaskSkipped, FollowInv, TriesInv
<1>4. RoomInv
  <2>1. ASSUME NEW t \in Tasks
        PROVE  Len(txs[t]) + Cardinality(RoomOf(Live, t)) <= Allowed(t)
    <3>1. RoomOf(Live, t) = {}
      BY DEF Init, Live, RoomOf
    <3>2. Cardinality(RoomOf(Live, t)) = 0
      BY <3>1, FS_EmptySet
    <3>3. Len(txs[t]) = 0 /\ tries[t] = 0 /\ faults = 0
      BY DEF Init
    <3>4. MaxRetries * 0 = 0 /\ (MaxRetries - 1) * 0 = 0
      BY MaxRetriesType
    <3>5. Allowed(t) = 0
      BY <3>3, <3>4 DEF Allowed
    <3>6. QED
      BY <3>2, <3>3, <3>5
  <2>2. QED
    BY <2>1 DEF RoomInv
<1>5. QED
  BY <1>1, <1>2, <1>3, <1>4 DEF IInv

LEMMA StutterStep ==
  ASSUME IInv, UNCHANGED vars
  PROVE  IInv'
<1> USE DEF IInv
<1>1. UNCHANGED <<available, newTasks, redis, pendings, txs, outcomes, faults>>
  BY DEF vars
<1>2. TypeOK'
  BY <1>1 DEF TypeOK, TxKnown
<1>3. CursorInv' /\ HandInv' /\ EntryInv' /\ GivenUpAfterRetries'
  BY <1>1, EntryKept DEF CursorInv, HandInv, Current, GivenUpAfterRetries
<1>4. EffectInv' /\ TriesInv'
  BY <1>1 DEF EffectInv, NoTaskSkipped, Effected, TriesInv, Underway, Current
<1>5. FollowInv' /\ RoomInv'
  BY <1>1 DEF FollowInv, Followed, InHand, Current, RoomInv, RoomOf, Slots, Live, Allowed
<1>6. QED
  BY <1>2, <1>3, <1>4, <1>5

LEMMA NextIInv == IInv /\ [Next]_vars => IInv'
<1> SUFFICES ASSUME IInv, [Next]_vars PROVE IInv'
  OBVIOUS
<1>1. CASE Publish
  BY <1>1, CursorStep
<1>2. CASE HandleNewTasks
  BY <1>2, CursorStep, GatewayTaskStep, TrackStep, ExecuteOrRefundTaskStep, RefundSkippedStep,
     UnknownTaskStep, SaveStep DEF HandleNewTasks
<1>3. CASE HandlePending
  BY <1>3, ScanStep, PutStep, GetDelStep, AwaitStep, ResendStep DEF HandlePending
<1>4. CASE Faulty
  BY <1>4, CursorStep, TrackStep, TaskFailsStep, SaveStep, CrashStep, LostStep, ResendFailsStep,
     RetrackLostStep, PutBackLostStep DEF Faulty
<1>5. CASE \E t \in Tasks : Settle(t)
  BY <1>5, SettleStep
<1>6. CASE UNCHANGED vars
  BY <1>6, StutterStep
<1>7. QED
  BY <1>1, <1>2, <1>3, <1>4, <1>5, <1>6 DEF Next

(* The inductive invariant holds in every reachable state.                 *)
THEOREM Inductive == Spec => []IInv
  BY InitIInv, NextIInv, PTL DEF Spec

------------------------------------------------------------------------------
(* Every variable keeps its type: an entry in Redis or in memory always    *)
(* names a transaction that was sent, and no retry number passes           *)
(* MAX_NUMBER_OF_RETRIES.                                                  *)
THEOREM TypeCorrect == Spec => []TypeOK
<1>1. IInv => TypeOK
  BY DEF IInv
<1>2. QED
  BY <1>1, Inductive, PTL

(* LAST_TASK_ID covers only tasks that were carried out, wherever the cron, *)
(* a request or the process fails.                                         *)
THEOREM TasksAreNotSkipped == Spec => []NoTaskSkipped
<1>1. IInv => NoTaskSkipped
  BY DEF IInv, EffectInv
<1>2. QED
  BY <1>1, Inductive, PTL

(* However the two crons interleave, a saved gateway task has succeeded,   *)
(* used up its retries, been lost by a fault, or is still followed.        *)
THEOREM GatewayTasksAreFollowed == Spec => []NeverForgotten
<1>1. IInv => NeverForgotten
  BY DEF IInv, FollowInv, Followed, NeverForgotten
<1>2. QED
  BY <1>1, Inductive, PTL

(* No gateway task is given up before MaxRetries transactions were sent.   *)
THEOREM RetriesAreUsed == Spec => []GivenUpAfterRetries
<1>1. IInv => GivenUpAfterRetries
  BY DEF IInv
<1>2. QED
  BY <1>1, Inductive, PTL

(* Every transaction, refund or beginning of a task beyond what its        *)
(* retries allow is paid for by a fault, which pays for at most one        *)
(* beginning and MaxRetries - 1 transactions more.                         *)
THEOREM DuplicatesArePaid == Spec => []DuplicatesNeedFaults
<1>1. ASSUME IInv
      PROVE  DuplicatesNeedFaults
  <2>1. ASSUME NEW t \in Tasks
        PROVE  /\ tries[t] <= 1 + faults
               /\ done[t] <= tries[t]
               /\ Len(txs[t]) <= Allowed(t)
    <3>1. TypeOK /\ tries[t] <= faults + 1 /\ done[t] <= tries[t]
      BY <1>1 DEF IInv, TriesInv
    <3>2. tries[t] \in Nat /\ faults \in Nat /\ MaxRetries \in Nat \ {0}
      BY <3>1, Types, MaxRetriesType
    <3>3. Len(txs[t]) \in Nat /\ Cardinality(RoomOf(Live, t)) \in Nat
      BY <3>1, Types, LiveRoom
    <3>4. MaxRetries * tries[t] \in Nat /\ (MaxRetries - 1) * faults \in Nat
      <4>1. MaxRetries - 1 \in Nat
        BY <3>2
      <4>2. QED
        BY <3>2, <4>1
    <3>5. Allowed(t) \in Nat
      BY <3>4 DEF Allowed
    <3>6. PICK a \in Nat, c \in Nat : a = Allowed(t) /\ c = Cardinality(RoomOf(Live, t))
      BY <3>3, <3>5
    <3>7. Len(txs[t]) + c <= a
      BY <1>1, <3>6 DEF IInv, RoomInv
    <3>8. QED
      BY <3>1, <3>2, <3>3, <3>6, <3>7
  <2>2. QED
    BY <2>1 DEF DuplicatesNeedFaults, Allowed
<1>2. QED
  BY <1>1, Inductive, PTL
==============================================================================
