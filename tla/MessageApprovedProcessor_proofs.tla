--------------------- MODULE MessageApprovedProcessor_proofs ---------------------
(***************************************************************************)
(* Proofs about MessageApprovedProcessor, for every set of messages and    *)
(* every value of the other constants.                                     *)
(***************************************************************************)
EXTENDS MessageApprovedProcessor, SequenceTheorems, FiniteSetTheorems, TLAPS

------------------------------------------------------------------------------
(* The operators the actions are built from.                               *)

(* A transaction that settles leaves every sequence as long as it was, and *)
(* changes nothing but its own state.                                      *)
LEMMA SettleLemma ==
  ASSUME chain \in [Messages -> Seq(Tx)],
         NEW m \in Messages, NEW i \in 1 .. Len(chain[m]),
         NEW s \in {"pending", "success", "failed"}, Settle(m, i, s)
  PROVE  /\ chain' \in [Messages -> Seq(Tx)]
         /\ \A n \in Messages : Len(chain'[n]) = Len(chain[n])
         /\ \A n \in Messages : \A j \in 1 .. Len(chain[n]) :
              /\ chain'[n][j].value = chain[n][j].value
              /\ chain[n][j].state # "pending" => chain'[n][j] = chain[n][j]
         /\ chain'[m][i].state = s
<1> DEFINE e == [chain[m][i] EXCEPT !.state = s]
           q == [chain[m] EXCEPT ![i] = e]
<1>1. chain[m] \in Seq(Tx) /\ chain[m][i] \in Tx
  BY ElementOfSeq
<1>2. e \in Tx /\ e.state = s /\ e.value = chain[m][i].value
  BY <1>1 DEF Tx
<1>3. q \in Seq(Tx) /\ Len(q) = Len(chain[m])
      /\ \A j \in 1 .. Len(chain[m]) : q[j] = IF j = i THEN e ELSE chain[m][j]
  BY <1>1, <1>2, ExceptSeq
<1>4. chain' = [chain EXCEPT ![m] = q] /\ chain[m][i].state = "pending"
  BY DEF Settle
<1> HIDE DEF e, q
<1>5. \A n \in Messages : chain'[n] = IF n = m THEN q ELSE chain[n]
  BY <1>4
<1> QED BY <1>2, <1>3, <1>4, <1>5

(* Accepting transactions appends one pending transaction to each message. *)
LEMMA AcceptLemma ==
  ASSUME chain \in [Messages -> Seq(Tx)], NEW S \in SUBSET Messages, Accept(S)
  PROVE  /\ chain' \in [Messages -> Seq(Tx)]
         /\ \A n \in Messages : Len(chain'[n]) = Len(chain[n]) + (IF n \in S THEN 1 ELSE 0)
         /\ \A n \in Messages : \A j \in 1 .. Len(chain[n]) : chain'[n][j] = chain[n][j]
         /\ \A n \in S : /\ chain'[n][Len(chain[n]) + 1].state = "pending"
                         /\ chain'[n][Len(chain[n]) + 1].value = HasValue(n)
<1> DEFINE tx(n) == [state |-> "pending", value |-> HasValue(n)]
<1>1. \A n \in Messages : tx(n) \in Tx /\ tx(n).state = "pending" /\ tx(n).value = HasValue(n)
  BY DEF Tx, HasValue
<1>2. \A n \in Messages :
        chain'[n] = IF n \in S THEN Append(chain[n], tx(n)) ELSE chain[n]
  BY DEF Accept
<1>3. chain' = [n \in Messages |-> chain'[n]]
  BY DEF Accept
<1> HIDE DEF tx
<1>4. ASSUME NEW n \in Messages
      PROVE  /\ chain'[n] \in Seq(Tx)
             /\ Len(chain'[n]) = Len(chain[n]) + (IF n \in S THEN 1 ELSE 0)
             /\ \A j \in 1 .. Len(chain[n]) : chain'[n][j] = chain[n][j]
             /\ n \in S => /\ chain'[n][Len(chain[n]) + 1].state = "pending"
                           /\ chain'[n][Len(chain[n]) + 1].value = HasValue(n)
  <2> DEFINE q == chain[n]
             x == tx(n)
  <2>1. q \in Seq(Tx) /\ x \in Tx /\ x.state = "pending" /\ x.value = HasValue(n)
    BY <1>1
  <2>2. chain'[n] = IF n \in S THEN Append(q, x) ELSE q
    BY <1>2
  <2> HIDE DEF q, x
  <2>3. /\ Append(q, x) \in Seq(Tx)
        /\ Len(Append(q, x)) = Len(q) + 1
        /\ \A j \in 1 .. Len(q) : Append(q, x)[j] = q[j]
        /\ Append(q, x)[Len(q) + 1] = x
    BY <2>1
  <2>4. chain'[n] \in Seq(Tx) /\ Len(chain'[n]) = Len(q) + (IF n \in S THEN 1 ELSE 0)
    BY <2>1, <2>2, <2>3
  <2> QED BY <2>1, <2>2, <2>3, <2>4 DEF q
<1>5. chain' \in [Messages -> Seq(Tx)]
  BY <1>3, <1>4
<1> QED BY <1>4, <1>5

(* The successTimes a build may end with is a natural number.              *)
LEMMA AwaitedLemma ==
  ASSUME local \in [Messages -> Row], NEW m \in Messages
  PROVE  Awaited(m) \subseteq Nat
BY DEF Awaited, Row

LEMMA WrittenLemma ==
  ASSUME NEW row \in Row, NEW new \in Row
  PROVE  /\ Written(row, new) \in Row
         /\ Written(row, new).status = new.status
         /\ Written(row, new).retry = new.retry
         /\ Written(row, new).hash = new.hash
         /\ Written(row, new).success = new.success
         /\ Written(row, new).recent = TRUE
<1>1. Written(row, new) \in Row
  BY DEF Written, Row
<1>2. Written(row, new).status = new.status /\ Written(row, new).retry = new.retry
  BY DEF Written, Row
<1>3. Written(row, new).hash = new.hash /\ Written(row, new).success = new.success
  BY DEF Written, Row
<1>4. Written(row, new).recent = TRUE
  BY DEF Written, Row
<1> QED BY <1>1, <1>2, <1>3, <1>4

LEMMA UnsentLemma ==
  ASSUME NEW row \in Row, row.retry > 0
  PROVE  /\ Unsent(row) \in Row
         /\ Unsent(row).status = row.status
         /\ Unsent(row).retry = (IF row.retry = 1 THEN 1 ELSE row.retry - 1)
         /\ Unsent(row).hash = 0
         /\ Unsent(row).success = row.success
<1> DEFINE r == IF row.retry = 1 THEN 1 ELSE row.retry - 1
<1>1. r \in 0 .. MaxRetries
  BY DEF Row, MaxRetries
<1>2. Unsent(row) = [row EXCEPT !.hash = 0, !.retry = r]
  BY DEF Unsent
<1> HIDE DEF r
<1>3. Unsent(row) \in Row
  <2> DEFINE h == 0
  <2>1. h \in Nat
    OBVIOUS
  <2> HIDE DEF h
  <2>2. [row EXCEPT !.hash = h, !.retry = r] \in Row
    BY <1>1, <2>1 DEF Row
  <2> QED BY <1>2, <2>2 DEF h
<1>4. Unsent(row).status = row.status /\ Unsent(row).success = row.success
  BY <1>2 DEF Row
<1>5. Unsent(row).retry = r /\ Unsent(row).hash = 0
  BY <1>2 DEF Row
<1> QED BY <1>3, <1>4, <1>5 DEF r

LEMMA UpsertedLemma ==
  ASSUME NEW row \in Row
  PROVE  /\ Upserted(row) \in Row
         /\ Upserted(row).status = "PENDING"
         /\ Upserted(row).retry = 0
         /\ row.status # "absent" =>
              Upserted(row).hash = row.hash /\ Upserted(row).success = row.success
         /\ row.status = "absent" =>
              Upserted(row).hash = 0 /\ Upserted(row).success = 0
<1>1. Created \in Nat
  <2>1. {m \in Messages : db[m].status # "absent"} \in SUBSET Messages
    OBVIOUS
  <2> QED BY <2>1, MessagesFinite, FS_Subset, FS_CardinalityType DEF Created
<1>2. Upserted(row) \in Row
  <2> DEFINE r == 0
             c == Created + 1
             new == [status |-> "PENDING", retry |-> r, hash |-> r, success |-> r,
                     recent |-> TRUE, created |-> c]
  <2>1. r \in 0 .. MaxRetries /\ r \in Nat /\ c \in Nat
    BY <1>1 DEF MaxRetries
  <2> HIDE DEF r, c
  <2>3. new \in Row
    BY <2>1 DEF Row
  <2>4. [row EXCEPT !.status = "PENDING", !.retry = r, !.recent = TRUE] \in Row
    BY <2>1 DEF Row
  <2> QED BY <2>3, <2>4 DEF Upserted, r, c
<1>3. Upserted(row).status = "PENDING" /\ Upserted(row).retry = 0
  BY DEF Upserted, Row
<1>4. row.status # "absent" =>
        Upserted(row).hash = row.hash /\ Upserted(row).success = row.success
  BY DEF Upserted, Row
<1>5. row.status = "absent" => Upserted(row).hash = 0 /\ Upserted(row).success = 0
  BY DEF Upserted
<1> QED BY <1>2, <1>3, <1>4, <1>5

LEMMA MarkedLemma ==
  ASSUME NEW row \in Row, seen \in Nat
  PROVE  /\ Marked(row) \in Row
         /\ Marked(row).status = "SUCCESS"
         /\ Marked(row).retry = row.retry
         /\ Marked(row).hash = row.hash
         /\ Marked(row).success = seen + 1
<1>1. Marked(row) \in Row
  <2> DEFINE x == seen + 1
  <2>1. x \in Nat
    OBVIOUS
  <2> HIDE DEF x
  <2>2. [row EXCEPT !.status = "SUCCESS", !.success = x, !.recent = TRUE] \in Row
    BY <2>1 DEF Row
  <2> QED BY <2>2 DEF Marked, x
<1>2. Marked(row).status = "SUCCESS" /\ Marked(row).retry = row.retry
  BY DEF Marked, Row
<1>3. Marked(row).hash = row.hash /\ Marked(row).success = seen + 1
  BY DEF Marked, Row
<1> QED BY <1>1, <1>2, <1>3

LEMMA FailedLemma ==
  ASSUME NEW row \in Row
  PROVE  /\ Failed(row) \in Row
         /\ Failed(row).status = "FAILED"
         /\ Failed(row).retry = row.retry
         /\ Failed(row).hash = row.hash
         /\ Failed(row).success = row.success
BY DEF Failed, Row

(* The cron's copy of a row once its transaction is built.                 *)
LEMMA BuiltLemma ==
  ASSUME NEW row \in Row, NEW s \in Nat, NEW r \in 0 .. MaxRetries - 1, NEW h \in Nat
  PROVE  /\ WithTx(row, s, r, h) \in Row
         /\ WithTx(row, s, r, h).status = row.status
         /\ WithTx(row, s, r, h).retry = r + 1
         /\ WithTx(row, s, r, h).hash = h
         /\ WithTx(row, s, r, h).success = s
<1> DEFINE q == r + 1
<1>1. q \in 0 .. MaxRetries
  BY DEF MaxRetries
<1> HIDE DEF q
<1> DEFINE new == [row EXCEPT !.retry = q, !.success = s, !.hash = h]
<1>2. new \in Row
  BY <1>1 DEF Row
<1>3. new.status = row.status /\ new.retry = q
  BY DEF Row
<1>4. new.hash = h /\ new.success = s
  BY DEF Row
<1> HIDE DEF new
<1>5. WithTx(row, s, r, h) = new
  BY DEF WithTx, new, q
<1> QED BY <1>2, <1>3, <1>4, <1>5 DEF q

(* The cron's copy of a row that fails for lack of gas.                    *)
LEMMA NoGasLemma ==
  ASSUME NEW row \in Row, NEW s \in Nat
  PROVE  LET new == [Failed(row) EXCEPT !.retry = MaxRetries, !.success = s]
         IN  /\ new \in Row
             /\ new.status = "FAILED"
             /\ new.retry = MaxRetries
             /\ new.hash = row.hash
             /\ new.success = s
<1> DEFINE new == [Failed(row) EXCEPT !.retry = MaxRetries, !.success = s]
<1>1. new \in Row
  <2> DEFINE q == MaxRetries
  <2>1. q \in 0 .. MaxRetries /\ Failed(row) \in Row
    BY DEF MaxRetries, Failed, Row
  <2> HIDE DEF q
  <2>2. [Failed(row) EXCEPT !.retry = q, !.success = s] \in Row
    BY <2>1 DEF Row
  <2> QED BY <2>2 DEF q
<1>2. new.status = "FAILED" /\ new.retry = MaxRetries
  BY DEF Failed, Row, MaxRetries
<1>3. new.hash = row.hash /\ new.success = s
  BY DEF Failed, Row, MaxRetries
<1> QED BY <1>1, <1>2, <1>3

LEMMA AbsentLemma == Absent \in Row /\ Absent.status = "absent"
BY DEF Absent, Row, MaxRetries

------------------------------------------------------------------------------
(* Type correctness. It rests on this: the retry count of an entry whose   *)
(* transaction is built was incremented, so that of an unsent one can be   *)
(* decremented.                                                            *)

BuiltCounted == \A m \in built : local[m].retry > 0

TypeInv == TypeOK /\ BuiltCounted

LEMMA TypeInit == Init => TypeInv
<1> SUFFICES ASSUME Init PROVE TypeInv
  OBVIOUS
<1>1. <<>> \in Seq(Tx)
  BY EmptySeq
<1> QED BY <1>1, AbsentLemma DEF Init, TypeOK, TypeInv, BuiltCounted

(* Processing an entry replaces the cron's copy of its row.                *)
LEMMA DoneType ==
  ASSUME TypeInv, NEW m \in Messages, NEW row \in Row, Done(m, row)
  PROVE  /\ todo' \subseteq Messages /\ local' \in [Messages -> Row]
         /\ \A n \in Messages : local'[n] = IF n = m THEN row ELSE local[n]
BY DEF TypeInv, TypeOK, Done

LEMMA DropBatchType ==
  ASSUME DropBatch
  PROVE  /\ todo' = {} /\ built' = {} /\ toUpdate' = {} /\ pc' = "fetch"
         /\ local' \in [Messages -> Row]
         /\ \A n \in Messages : local'[n] = Absent
BY AbsentLemma DEF DropBatch

LEMMA ReportType ==
  ASSUME TypeInv, NEW m \in Messages, Report(m)
  PROVE  /\ reports' \in [Messages -> Nat]
         /\ \A n \in Messages : reports'[n] = IF n = m THEN reports[n] + 1 ELSE reports[n]
<1>1. reports[m] + 1 \in Nat
  BY DEF TypeInv, TypeOK
<1>2. reports' = [reports EXCEPT ![m] = reports[m] + 1]
  BY DEF Report
<1> QED BY <1>1, <1>2 DEF TypeInv, TypeOK

(* What becomes of the cron's copy of a row whose transaction is built.    *)
LEMMA BuildTxLemma ==
  ASSUME TypeInv, NEW m \in Messages, BuildTx(m)
  PROVE  \E row \in Row :
           /\ Done(m, row)
           /\ row.status = local[m].status
           /\ row.retry > local[m].retry
           /\ row.hash = Len(chain[m]) + 1
           /\ row.success \in Awaited(m)
<1>1. PICK s \in Awaited(m), r \in RetryBase(m) :
        Done(m, WithTx(local[m], s, r, Len(chain[m]) + 1))
  BY DEF BuildTx
<1>2. PICK h \in Nat : h = Len(chain[m]) + 1
  BY LenProperties DEF TypeInv, TypeOK
<1>3. local[m] \in Row /\ s \in Nat
  BY AwaitedLemma DEF TypeInv, TypeOK
<1>4. local[m].retry \in 0 .. MaxRetries - 1
  BY <1>3 DEF BuildTx, Buildable, Exhausted, Row, MaxRetries
<1>5. r \in 0 .. MaxRetries - 1 /\ r + 1 > local[m].retry
  BY <1>1, <1>4 DEF RetryBase, MaxRetries
<1>6. /\ WithTx(local[m], s, r, h) \in Row
      /\ WithTx(local[m], s, r, h).status = local[m].status
      /\ WithTx(local[m], s, r, h).retry = r + 1
      /\ WithTx(local[m], s, r, h).hash = h
      /\ WithTx(local[m], s, r, h).success = s
  <2> DEFINE old == local[m]
  <2>1. old \in Row /\ s \in Nat /\ r \in 0 .. MaxRetries - 1 /\ h \in Nat
    BY <1>2, <1>3, <1>5
  <2> HIDE DEF old
  <2>2. /\ WithTx(old, s, r, h) \in Row
        /\ WithTx(old, s, r, h).status = old.status
        /\ WithTx(old, s, r, h).retry = r + 1
        /\ WithTx(old, s, r, h).hash = h
        /\ WithTx(old, s, r, h).success = s
    BY <2>1, BuiltLemma
  <2> QED BY <2>2 DEF old
<1> QED BY <1>1, <1>2, <1>5, <1>6

(* What becomes of the cron's copy of a row there is not enough gas for.   *)
LEMMA NotEnoughGasLemma ==
  ASSUME TypeInv, NEW m \in Messages, NotEnoughGas(m)
  PROVE  \E row \in Row :
           /\ Done(m, row)
           /\ row.status = "FAILED"
           /\ row.retry = MaxRetries
           /\ row.hash = local[m].hash
           /\ row.success \in Awaited(m)
<1>1. PICK s \in Awaited(m) :
        Done(m, [Failed(local[m]) EXCEPT !.retry = MaxRetries, !.success = s])
  BY DEF NotEnoughGas
<1>2. local[m] \in Row /\ s \in Nat
  BY AwaitedLemma DEF TypeInv, TypeOK
<1> DEFINE row == [Failed(local[m]) EXCEPT !.retry = MaxRetries, !.success = s]
<1>3. row \in Row /\ row.status = "FAILED" /\ row.retry = MaxRetries
      /\ row.hash = local[m].hash /\ row.success = s
  BY <1>2, NoGasLemma
<1> HIDE DEF row
<1>4. Done(m, row)
  BY <1>1 DEF row
<1> QED BY <1>1, <1>3, <1>4

LEMMA TypeStep == TypeInv /\ [Next]_vars => TypeInv'
<1> SUFFICES ASSUME TypeInv, [Next]_vars PROVE TypeInv'
  OBVIOUS
<1> USE DEF TypeInv, TypeOK, BuiltCounted
<1>1. CASE Fetch
  <2>1. local' \in [Messages -> Row]
    BY <1>1, AbsentLemma DEF Fetch
  <2> QED BY <1>1, <2>1 DEF Fetch, Page, Eligible, gateway
<1>2. CASE Send
  <2>1. PICK S \in SUBSET built :
          /\ IF S = built THEN UNCHANGED <<faults, throws>> ELSE Fault
          /\ Accept(S)
          /\ local' = [m \in Messages |->
                         IF m \in built \ S THEN Unsent(local[m]) ELSE local[m]]
    BY <1>2 DEF Send
  <2>2. ASSUME NEW m \in built
        PROVE  Unsent(local[m]) \in Row /\ Unsent(local[m]).retry > 0
    <3>1. local[m] \in Row /\ local[m].retry > 0 /\ local[m].retry \in Nat
      BY DEF Row
    <3>2. /\ Unsent(local[m]) \in Row
          /\ Unsent(local[m]).retry = IF local[m].retry = 1 THEN 1 ELSE local[m].retry - 1
      BY <3>1, UnsentLemma
    <3> QED BY <3>1, <3>2
  <2>3. local' \in [Messages -> Row] /\ \A m \in built : local'[m].retry > 0
    BY <2>1, <2>2
  <2>4. chain' \in [Messages -> Seq(Tx)]
    BY <2>1, AcceptLemma
  <2>5. faults' \in Nat /\ throws' \in Nat
    BY <2>1 DEF Fault
  <2> QED BY <1>2, <2>3, <2>4, <2>5 DEF Send, gateway
<1>3. CASE SendNull
  <2>1. PICK S \in SUBSET built : Accept(S)
    BY <1>3 DEF SendNull
  <2>2. chain' \in [Messages -> Seq(Tx)]
    BY <2>1, AcceptLemma
  <2> QED BY <1>3, <2>2 DEF SendNull, Fault, gateway
<1>4. CASE Update
  <2>1. \A m \in Messages : Written(db[m], local[m]) \in Row
    BY WrittenLemma
  <2>2. db' \in [Messages -> Row]
    BY <1>4, <2>1 DEF Update
  <2> QED BY <1>4, <2>2, DropBatchType DEF Update, gateway
<1>5. CASE UpdateThrows
  BY <1>5, DropBatchType DEF UpdateThrows, Fault, gateway
<1>6. CASE Crash
  BY <1>6, DropBatchType DEF Crash, Fault
<1>7. ASSUME NEW m \in Messages, ExecuteTask(m) PROVE TypeInv'
  <2>1. Upserted(db[m]) \in Row
    BY UpsertedLemma
  <2> QED BY <1>7, <2>1 DEF ExecuteTask, batch, gateway
<1>8. ASSUME NEW m \in Messages, Age(m) PROVE TypeInv'
  <2> DEFINE old == db[m]
             row == [old EXCEPT !.recent = FALSE]
  <2>1. row \in Row
    <3>1. old \in Row
      OBVIOUS
    <3> DEFINE new == FALSE
    <3>2. new \in BOOLEAN
      OBVIOUS
    <3> HIDE DEF old, new
    <3>3. [old EXCEPT !.recent = new] \in Row
      BY <3>1, <3>2 DEF Row
    <3> QED BY <3>3 DEF new
  <2>2. db' = [db EXCEPT ![m] = row]
    BY <1>8 DEF Age
  <2> HIDE DEF row
  <2>3. db' \in [Messages -> Row]
    BY <2>1, <2>2
  <2> QED BY <1>8, <2>3 DEF Age, batch, gateway
<1>9. ASSUME NEW m \in Messages, GiveUp(m) PROVE TypeInv'
  <2> DEFINE row == Failed(local[m])
  <2>1. row \in Row /\ row.retry = local[m].retry
    BY FailedLemma
  <2>2. /\ Done(m, row) /\ Report(m)
        /\ toUpdate' = toUpdate \cup {m}
        /\ UNCHANGED <<db, pc, built, chain, gateway, intake, faults, throws>>
    BY <1>9 DEF GiveUp
  <2> HIDE DEF row
  <2>3. /\ todo' \subseteq Messages /\ local' \in [Messages -> Row]
        /\ \A n \in Messages : local'[n] = IF n = m THEN row ELSE local[n]
    BY <2>1, <2>2, DoneType
  <2>4. reports' \in [Messages -> Nat]
    BY <2>2, ReportType
  <2> QED BY <2>1, <2>2, <2>3, <2>4 DEF gateway
<1>10. ASSUME NEW m \in Messages, EmptyPayload(m) PROVE TypeInv'
  <2>1. Failed(local[m]) \in Row /\ Failed(local[m]).retry = local[m].retry
    BY FailedLemma
  <2> QED BY <1>10, <2>1, DoneType DEF EmptyPayload, gateway
<1>11. ASSUME NEW m \in Messages, BuildTx(m) PROVE TypeInv'
  <2>1. PICK row \in Row : Done(m, row) /\ row.retry > local[m].retry
    BY <1>11, BuildTxLemma
  <2>2. row.retry > 0
    BY <2>1 DEF Row
  <2> QED BY <1>11, <2>1, <2>2, DoneType DEF BuildTx, gateway
<1>12. ASSUME NEW m \in Messages, NotEnoughGas(m) PROVE TypeInv'
  <2>1. PICK row \in Row : Done(m, row) /\ row.retry = MaxRetries
    BY <1>12, NotEnoughGasLemma
  <2>2. /\ todo' \subseteq Messages /\ local' \in [Messages -> Row]
        /\ \A n \in Messages : local'[n] = IF n = m THEN row ELSE local[n]
    BY <2>1, DoneType
  <2>3. reports' \in [Messages -> Nat]
    BY <1>12, ReportType DEF NotEnoughGas
  <2>4. row.retry > 0
    BY <2>1 DEF MaxRetries
  <2>5. /\ toUpdate' = toUpdate \cup {m}
        /\ UNCHANGED <<db, pc, built, chain, gateway, intake, faults, throws>>
    BY <1>12 DEF NotEnoughGas
  <2> QED BY <2>2, <2>3, <2>4, <2>5 DEF gateway
<1>13. ASSUME NEW m \in Messages, Abort(m) PROVE TypeInv'
  <2>1. reports' \in [Messages -> Nat]
    BY <1>13, ReportType DEF Abort
  <2> QED BY <1>13, <2>1, DropBatchType DEF Abort, Fault, gateway
<1>14. ASSUME NEW m \in Messages, Garbled(m) PROVE TypeInv'
  BY <1>14, DropBatchType DEF Garbled, gateway
<1>15. ASSUME NEW m \in Messages, TxFails(m) PROVE TypeInv'
  <2>1. chain' \in [Messages -> Seq(Tx)]
    BY <1>15, SettleLemma DEF TxFails
  <2> QED BY <1>15, <2>1 DEF TxFails, batch, gateway
<1>16. ASSUME NEW m \in Messages, TxSucceeds(m) PROVE TypeInv'
  <2>1. chain' \in [Messages -> Seq(Tx)]
    BY <1>16, SettleLemma DEF TxSucceeds
  <2>2. events' \subseteq Messages
    BY <1>16 DEF TxSucceeds
  <2> QED BY <1>16, <2>1, <2>2 DEF TxSucceeds, batch
<1>17. ASSUME NEW m \in Messages, ExecutedEventRead(m) PROVE TypeInv'
  BY <1>17 DEF ExecutedEventRead, Row, batch
<1>18. ASSUME NEW m \in Messages, ExecutedEventWrite(m) PROVE TypeInv'
  <2>1. Marked(db[m]) \in Row
    BY MarkedLemma
  <2> QED BY <1>18, <2>1 DEF ExecutedEventWrite, Fault, batch
<1>19. CASE UNCHANGED vars
  BY <1>19 DEF vars, batch, gateway
<1> QED
  BY <1>1, <1>2, <1>3, <1>4, <1>5, <1>6, <1>7, <1>8, <1>9, <1>10, <1>11, <1>12,
     <1>13, <1>14, <1>15, <1>16, <1>17, <1>18, <1>19 DEF Next

LEMMA TypeInvariant == Spec => []TypeInv
BY TypeInit, TypeStep, PTL DEF Spec

(* Every variable keeps its type; in particular no retry count ever passes *)
(* MAX_NUMBER_OF_RETRIES nor falls below 0.                                *)
THEOREM TypeCorrect == Spec => []TypeOK
<1>1. TypeInv => TypeOK
  BY DEF TypeInv
<1> QED BY <1>1, TypeInvariant, PTL
==============================================================================
