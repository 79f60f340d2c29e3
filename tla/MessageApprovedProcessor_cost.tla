---------------------- MODULE MessageApprovedProcessor_cost ----------------------
(***************************************************************************)
(* The issue cost of a token deployment, which the relayer must attach to  *)
(* the second transaction of a message and never to the first: proved for  *)
(* every set of messages and every value of the other constants.           *)
(***************************************************************************)
EXTENDS MessageApprovedProcessor_safety

(* The hash in a row names a transaction of the message that was accepted, *)
(* or, while the cron has only built it, the next one to be.               *)
HashRow(m) ==
  /\ db[m].hash <= Len(chain[m])
  /\ m \in built /\ pc = "build" => local[m].hash = Len(chain[m]) + 1
  /\ m \notin built \/ m \in toUpdate => local[m].hash <= Len(chain[m])

(* A successTimes above 0, and an executed event, stand for a success.     *)
SuccessRow(m) ==
  \/ db[m].success > 0 \/ local[m].success > 0 \/ m \in events \cup handling
  => Succeeded(m)

ValueRow(m) ==
  \A i \in 1 .. Len(chain[m]) :
    chain[m][i].value => \E j \in 1 .. i - 1 : chain[m][j].state = "success"

CostRow(m) == HashRow(m) /\ SuccessRow(m) /\ ValueRow(m)

CostInv == \A m \in Messages : CostRow(m)

LEMMA AbsentFields == Absent.hash = 0 /\ Absent.success = 0 /\ Absent.status = "absent"
BY DEF Absent

LEMMA CostInit == Init => CostInv
<1> SUFFICES ASSUME Init, NEW m \in Messages PROVE CostRow(m)
  BY DEF CostInv
<1>1. chain[m] = <<>> /\ Len(chain[m]) = 0
  BY EmptySeq DEF Init
<1>2. db[m] = Absent /\ local[m] = Absent /\ events = {} /\ handling = {} /\ built = {}
  BY DEF Init
<1>3. HashRow(m)
  BY <1>1, <1>2, AbsentFields DEF HashRow
<1>4. SuccessRow(m)
  BY <1>2, AbsentFields DEF SuccessRow
<1>5. ValueRow(m)
  BY <1>1 DEF ValueRow
<1> QED BY <1>3, <1>4, <1>5 DEF CostRow

LEMMA FieldTypes ==
  ASSUME TypeInv, NEW m \in Messages
  PROVE  /\ db[m] \in Row /\ local[m] \in Row
         /\ db[m].hash \in Nat /\ db[m].success \in Nat
         /\ local[m].hash \in Nat /\ local[m].success \in Nat
         /\ chain[m] \in Seq(Tx) /\ Len(chain[m]) \in Nat
<1>1. db[m] \in Row /\ local[m] \in Row /\ chain[m] \in Seq(Tx)
  BY DEF TypeInv, TypeOK
<1>2. db[m].hash \in Nat /\ db[m].success \in Nat
  BY <1>1 DEF Row
<1>3. local[m].hash \in Nat /\ local[m].success \in Nat
  BY <1>1 DEF Row
<1> QED BY <1>1, <1>2, <1>3, LenProperties

------------------------------------------------------------------------------
(* What the steps do to the transactions: those there are keep their value *)
(* and a success, new ones come after them.                                *)

Kept(m) ==
  /\ Len(chain'[m]) \in Nat /\ Len(chain'[m]) >= Len(chain[m])
  /\ \A j \in 1 .. Len(chain[m]) :
       /\ chain'[m][j].value = chain[m][j].value
       /\ chain[m][j].state = "success" => chain'[m][j].state = "success"

LEMMA KeptSuccess ==
  ASSUME TypeInv, NEW m \in Messages, Kept(m), Succeeded(m)
  PROVE  Succeeded(m)'
<1>1. PICK i \in 1 .. Len(chain[m]) : chain[m][i].state = "success"
  BY DEF Succeeded
<1>2. i \in 1 .. Len(chain'[m]) /\ chain'[m][i].state = "success"
  BY <1>1, FieldTypes DEF Kept
<1> QED BY <1>2 DEF Succeeded

LEMMA KeptValue ==
  ASSUME TypeInv, NEW m \in Messages, Kept(m), ValueRow(m),
         \A i \in (Len(chain[m]) + 1) .. Len(chain'[m]) : chain'[m][i].value => Succeeded(m)
  PROVE  ValueRow(m)'
<1> SUFFICES ASSUME NEW i \in 1 .. Len(chain'[m]), chain'[m][i].value
             PROVE  \E j \in 1 .. i - 1 : chain'[m][j].state = "success"
  BY DEF ValueRow
<1>1. Len(chain[m]) \in Nat /\ Len(chain'[m]) \in Nat
  BY FieldTypes DEF Kept
<1>2. CASE i \in 1 .. Len(chain[m])
  <2>1. PICK j \in 1 .. i - 1 : chain[m][j].state = "success"
    BY <1>2 DEF Kept, ValueRow
  <2>2. j \in 1 .. Len(chain[m])
    BY <1>1, <1>2
  <2> QED BY <2>1, <2>2 DEF Kept
<1>3. CASE i \notin 1 .. Len(chain[m])
  <2>1. i \in (Len(chain[m]) + 1) .. Len(chain'[m])
    BY <1>1, <1>3
  <2>2. PICK j \in 1 .. Len(chain[m]) : chain[m][j].state = "success"
    BY <2>1 DEF Succeeded
  <2>3. j \in 1 .. i - 1
    BY <1>1, <2>1
  <2> QED BY <2>2, <2>3 DEF Kept
<1> QED BY <1>2, <1>3

LEMMA UnchangedKept ==
  ASSUME TypeInv, NEW m \in Messages, chain'[m] = chain[m]
  PROVE  Kept(m)
<1>1. Len(chain[m]) \in Nat
  BY FieldTypes
<1> QED BY <1>1 DEF Kept

(* A transaction is accepted with value only when a success is recorded.   *)
LEMMA AcceptKept ==
  ASSUME TypeInv, NEW m \in Messages, SuccessRow(m), ValueRow(m),
         NEW S \in SUBSET Messages, Accept(S)
  PROVE  /\ Kept(m) /\ ValueRow(m)'
         /\ Len(chain'[m]) = Len(chain[m]) + (IF m \in S THEN 1 ELSE 0)
<1>1. chain \in [Messages -> Seq(Tx)] /\ Len(chain[m]) \in Nat
  BY FieldTypes DEF TypeInv, TypeOK
<1>2. /\ Len(chain'[m]) = Len(chain[m]) + (IF m \in S THEN 1 ELSE 0)
      /\ \A j \in 1 .. Len(chain[m]) : chain'[m][j] = chain[m][j]
      /\ m \in S => chain'[m][Len(chain[m]) + 1].value = HasValue(m)
  BY <1>1, AcceptLemma
<1>3. Len(chain'[m]) \in Nat /\ Len(chain'[m]) >= Len(chain[m])
  BY <1>1, <1>2
<1>4. Kept(m)
  BY <1>2, <1>3 DEF Kept
<1>5. ASSUME NEW i \in (Len(chain[m]) + 1) .. Len(chain'[m]), chain'[m][i].value
      PROVE  Succeeded(m)
  <2>1. m \in S /\ i = Len(chain[m]) + 1
    BY <1>1, <1>2
  <2>2. local[m].success = 1
    BY <1>2, <1>5, <2>1 DEF HasValue
  <2> QED BY <2>2 DEF SuccessRow
<1> QED BY <1>2, <1>4, <1>5, KeptValue

LEMMA SettleKept ==
  ASSUME TypeInv, NEW m \in Messages, NEW i \in 1 .. Len(chain[m]),
         NEW s \in {"success", "failed"}, Settle(m, i, s),
         NEW n \in Messages, ValueRow(n)
  PROVE  /\ Kept(n) /\ ValueRow(n)' /\ Len(chain'[n]) = Len(chain[n])
         /\ s = "success" => Succeeded(m)'
<1>1. chain \in [Messages -> Seq(Tx)] /\ Len(chain[n]) \in Nat
  BY FieldTypes DEF TypeInv, TypeOK
<1>2. /\ \A k \in Messages : Len(chain'[k]) = Len(chain[k])
      /\ \A k \in Messages : \A j \in 1 .. Len(chain[k]) :
           /\ chain'[k][j].value = chain[k][j].value
           /\ chain[k][j].state # "pending" => chain'[k][j] = chain[k][j]
      /\ chain'[m][i].state = s
  BY <1>1, SettleLemma
<1>3. Kept(n)
  BY <1>1, <1>2 DEF Kept
<1>4. \A j \in (Len(chain[n]) + 1) .. Len(chain'[n]) : chain'[n][j].value => Succeeded(n)
  BY <1>1, <1>2
<1>5. ValueRow(n)'
  BY <1>3, <1>4, KeptValue
<1>6. s = "success" => Succeeded(m)'
  BY <1>2 DEF Succeeded
<1> QED BY <1>2, <1>3, <1>5, <1>6

(* What awaitSuccess answers true for is a success of the same message.    *)
LEMMA AwaitedSuccess ==
  ASSUME TypeInv, BatchInv, NEW m \in Messages, m \in todo, CostRow(m),
         NEW s \in Awaited(m), s > 0
  PROVE  Succeeded(m)
<1>1. /\ local[m].hash \in Nat /\ local[m].success \in Nat /\ Len(chain[m]) \in Nat
      /\ local[m].hash <= Len(chain[m])
  BY FieldTypes DEF BatchInv, BatchShape, CostRow, HashRow
<1>2. CASE Kind[m] # "plain" /\ local[m].hash # 0 /\ local[m].success = 0
  <2>1. s = 1 /\ chain[m][local[m].hash].state = "success"
    BY <1>2 DEF Awaited
  <2>2. local[m].hash \in 1 .. Len(chain[m])
    BY <1>1, <1>2
  <2> QED BY <2>1, <2>2 DEF Succeeded
<1>3. CASE ~(Kind[m] # "plain" /\ local[m].hash # 0 /\ local[m].success = 0)
  <2>1. s = local[m].success
    BY <1>3 DEF Awaited
  <2> QED BY <2>1 DEF CostRow, SuccessRow
<1> QED BY <1>2, <1>3

------------------------------------------------------------------------------

LEMMA CostStep == TypeInv /\ BatchInv /\ CostInv /\ [Next]_vars => CostInv'
<1> SUFFICES ASSUME TypeInv, BatchInv, CostInv, [Next]_vars,
                    NEW n \in Messages
             PROVE  CostRow(n)'
  BY DEF CostInv
<1>c. CostRow(n) /\ HashRow(n) /\ SuccessRow(n) /\ ValueRow(n)
  BY DEF CostInv, CostRow
<1>t. /\ db[n].hash \in Nat /\ db[n].success \in Nat
      /\ local[n].hash \in Nat /\ local[n].success \in Nat
      /\ Len(chain[n]) \in Nat
  BY FieldTypes
<1>s. BatchShape /\ BatchRow(n)
  BY DEF BatchInv
<1>k. chain'[n] = chain[n] =>
        Kept(n) /\ ValueRow(n)' /\ (Succeeded(n) => Succeeded(n)') /\ Len(chain'[n]) = Len(chain[n])
  <2> SUFFICES ASSUME chain'[n] = chain[n]
               PROVE  Kept(n) /\ ValueRow(n)' /\ (Succeeded(n) => Succeeded(n)')
    OBVIOUS
  <2>1. Kept(n)
    BY UnchangedKept
  <2>2. ValueRow(n)'
    BY <1>c DEF ValueRow
  <2> QED BY <2>1, <2>2, KeptSuccess
<1>1. CASE Fetch
  <2>1. /\ built' = {} /\ toUpdate' = {} /\ UNCHANGED <<db, chain, events, handling>>
        /\ local'[n] = db[n] \/ local'[n] = Absent
    BY <1>1, FetchEffect
  <2>2. HashRow(n)'
    BY <1>c, <1>t, <2>1, AbsentFields DEF HashRow
  <2>3. SuccessRow(n)'
    BY <1>c, <1>k, <2>1, AbsentFields DEF SuccessRow
  <2> QED BY <1>k, <2>1, <2>2, <2>3 DEF CostRow
<1>2. CASE Send
  <2>1. /\ pc = "build" /\ pc' = "update" /\ toUpdate' = toUpdate \cup built
        /\ UNCHANGED <<db, built, events, handling>>
    BY <1>2, SendEffect
  <2>2. PICK S \in SUBSET built :
          /\ Accept(S)
          /\ \A m \in Messages :
               /\ local'[m].success = local[m].success
               /\ m \notin built \ S => local'[m] = local[m]
               /\ m \in built \ S => local'[m].hash = 0
    BY <1>2, SendEffect
  <2>3. /\ Kept(n) /\ ValueRow(n)'
        /\ Len(chain'[n]) = Len(chain[n]) + (IF n \in S THEN 1 ELSE 0)
    BY <1>c, <2>2, AcceptKept DEF TypeInv, TypeOK
  <2>4. HashRow(n)'
    <3>g. Len(chain'[n]) >= Len(chain[n]) /\ Len(chain'[n]) \in Nat
      BY <2>3 DEF Kept
    <3>1. db[n].hash <= Len(chain'[n])
      BY <1>c, <1>t, <3>g DEF HashRow
    <3>2. local'[n].hash <= Len(chain'[n])
      <4>1. CASE n \in built \ S
        <5>1. local'[n].hash = 0
          BY <2>2, <4>1
        <5> QED BY <3>g, <5>1
      <4>2. CASE n \in S
        <5>1. local'[n] = local[n] /\ local[n].hash = Len(chain[n]) + 1
          BY <1>c, <2>1, <2>2, <4>2 DEF HashRow
        <5> QED BY <1>t, <2>3, <4>2, <5>1
      <4>3. CASE n \notin built
        <5>1. local'[n] = local[n] /\ local[n].hash <= Len(chain[n])
          BY <1>c, <2>2, <4>3 DEF HashRow
        <5> QED BY <1>t, <3>g, <5>1
      <4> QED BY <4>1, <4>2, <4>3
    <3> QED BY <2>1, <3>1, <3>2 DEF HashRow
  <2>5. SuccessRow(n)'
    BY <1>c, <2>1, <2>2, <2>3, KeptSuccess DEF SuccessRow
  <2> QED BY <2>3, <2>4, <2>5 DEF CostRow
<1>3. CASE SendNull
  <2>1. /\ pc = "build" /\ pc' = "update"
        /\ UNCHANGED <<db, local, built, toUpdate, events, handling>>
    BY <1>3 DEF SendNull, gateway
  <2>2. PICK S \in SUBSET built : Accept(S)
    BY <1>3 DEF SendNull
  <2>3. /\ Kept(n) /\ ValueRow(n)'
        /\ Len(chain'[n]) = Len(chain[n]) + (IF n \in S THEN 1 ELSE 0)
    BY <1>c, <2>2, AcceptKept DEF TypeInv, TypeOK
  <2>4. Len(chain'[n]) >= Len(chain[n]) /\ Len(chain'[n]) \in Nat
    BY <2>3 DEF Kept
  <2>5. HashRow(n)'
    <3>1. db'[n].hash <= Len(chain'[n])
      BY <1>c, <1>t, <2>1, <2>4 DEF HashRow
    <3>2. n \notin built \/ n \in toUpdate => local[n].hash <= Len(chain'[n])
      BY <1>c, <1>t, <2>4 DEF HashRow
    <3> QED BY <2>1, <3>1, <3>2 DEF HashRow
  <2>6. SuccessRow(n)'
    BY <1>c, <2>1, <2>3, KeptSuccess DEF SuccessRow
  <2> QED BY <2>3, <2>5, <2>6 DEF CostRow
<1>4. CASE Update
  <2>1. /\ UNCHANGED <<chain, events, handling>> /\ local'[n] = Absent /\ built' = {}
        /\ n \in toUpdate => db'[n].hash = local[n].hash /\ db'[n].success = local[n].success
        /\ n \notin toUpdate => db'[n] = db[n]
    BY <1>4, UpdateEffect, DropBatchType
  <2>2. HashRow(n)'
    BY <1>c, <1>t, <2>1, AbsentFields DEF HashRow
  <2>3. SuccessRow(n)'
    BY <1>c, <1>k, <2>1, AbsentFields DEF SuccessRow
  <2> QED BY <1>k, <2>1, <2>2, <2>3 DEF CostRow
<1>5. CASE BatchDropped
  <2>1. /\ UNCHANGED <<db, chain, events>> /\ local'[n] = Absent /\ built' = {}
        /\ handling' \subseteq handling
    BY <1>5, DropEffect, DropBatchType
  <2>2. HashRow(n)'
    BY <1>c, <1>t, <2>1, AbsentFields DEF HashRow
  <2>3. SuccessRow(n)'
    BY <1>c, <1>k, <2>1, AbsentFields DEF SuccessRow
  <2> QED BY <1>k, <2>1, <2>2, <2>3 DEF CostRow
<1>6. ASSUME NEW m \in Messages, ExecuteTask(m) PROVE CostRow(n)'
  <2>1. /\ UNCHANGED <<pc, local, built, toUpdate, chain, events, handling>>
        /\ \/ db'[n].hash = db[n].hash /\ db'[n].success = db[n].success
           \/ db'[n].hash = 0 /\ db'[n].success = 0
    BY <1>6, IntakeEffect DEF batch
  <2>2. HashRow(n)'
    BY <1>c, <1>t, <2>1 DEF HashRow
  <2>3. SuccessRow(n)'
    BY <1>c, <1>k, <2>1 DEF SuccessRow
  <2> QED BY <1>k, <2>1, <2>2, <2>3 DEF CostRow
<1>7. ASSUME NEW m \in Messages, Age(m) PROVE CostRow(n)'
  <2>1. /\ UNCHANGED <<pc, local, built, toUpdate, chain, events, handling>>
        /\ db'[n].hash = db[n].hash /\ db'[n].success = db[n].success
    BY <1>7, AgeEffect DEF batch
  <2>2. HashRow(n)'
    BY <1>c, <2>1 DEF HashRow
  <2>3. SuccessRow(n)'
    BY <1>c, <1>k, <2>1 DEF SuccessRow
  <2> QED BY <1>k, <2>1, <2>2, <2>3 DEF CostRow
<1>8. ASSUME NEW m \in Messages, GiveUp(m) \/ EmptyPayload(m) \/ NotEnoughGas(m)
      PROVE  CostRow(n)'
  <2>1. /\ UNCHANGED <<db, pc, built, chain, events, handling>> /\ m \in todo
        /\ toUpdate' = toUpdate \cup {m}
        /\ n # m => local'[n] = local[n]
        /\ local'[m].hash = local[m].hash /\ local'[m].success \in Awaited(m)
    BY <1>8, FailEffect
  <2>2. m \notin built
    BY <1>s, <2>1 DEF BatchShape
  <2>3. HashRow(n)'
    BY <1>c, <2>1, <2>2 DEF HashRow
  <2>4. local'[n].success > 0 => Succeeded(n)
    BY <1>c, <2>1, AwaitedSuccess DEF SuccessRow
  <2>5. SuccessRow(n)'
    BY <1>c, <1>k, <2>1, <2>4 DEF SuccessRow
  <2> QED BY <1>k, <2>1, <2>3, <2>5 DEF CostRow
<1>9. ASSUME NEW m \in Messages, BuildTx(m) PROVE CostRow(n)'
  <2>1. /\ UNCHANGED <<db, pc, toUpdate, chain, events, handling>> /\ m \in todo
        /\ built' = built \cup {m}
        /\ n # m => local'[n] = local[n]
        /\ local'[m].hash = Len(chain[m]) + 1 /\ local'[m].success \in Awaited(m)
    BY <1>9, BuildEffect
  <2>2. m \notin toUpdate
    BY <1>s, <2>1 DEF BatchShape
  <2>3. HashRow(n)'
    BY <1>c, <2>1, <2>2 DEF HashRow
  <2>4. local'[n].success > 0 => Succeeded(n)
    BY <1>c, <2>1, AwaitedSuccess DEF SuccessRow
  <2>5. SuccessRow(n)'
    BY <1>c, <1>k, <2>1, <2>4 DEF SuccessRow
  <2> QED BY <1>k, <2>1, <2>3, <2>5 DEF CostRow
<1>10. ASSUME NEW m \in Messages, TxFails(m) \/ TxSucceeds(m) PROVE CostRow(n)'
  <2>1. PICK i \in 1 .. Len(chain[m]), s \in {"success", "failed"} :
          /\ Settle(m, i, s)
          /\ events' = events \/ (s = "success" /\ events' \subseteq events \cup {m})
    BY <1>10 DEF TxFails, TxSucceeds, gateway
  <2>2. UNCHANGED <<db, pc, local, built, toUpdate, handling>>
    BY <1>10 DEF TxFails, TxSucceeds, batch, gateway
  <2>3. /\ Kept(n) /\ ValueRow(n)' /\ Len(chain'[n]) = Len(chain[n])
        /\ s = "success" => Succeeded(m)'
    BY <1>c, <2>1, SettleKept
  <2>4. HashRow(n)'
    BY <1>c, <2>2, <2>3 DEF HashRow
  <2>5. Succeeded(n) => Succeeded(n)'
    BY <2>3, KeptSuccess
  <2>6. SuccessRow(n)'
    BY <1>c, <2>1, <2>2, <2>3, <2>5 DEF SuccessRow
  <2> QED BY <2>3, <2>4, <2>6 DEF CostRow
<1>11. ASSUME NEW m \in Messages, ExecutedEventRead(m) PROVE CostRow(n)'
  <2>1. UNCHANGED <<db, pc, local, built, toUpdate, chain, events>> /\ handling' \subseteq events
    BY <1>11 DEF ExecutedEventRead, batch
  <2>2. HashRow(n)'
    BY <1>c, <2>1 DEF HashRow
  <2>3. SuccessRow(n)'
    BY <1>c, <1>k, <2>1 DEF SuccessRow
  <2> QED BY <1>k, <2>1, <2>2, <2>3 DEF CostRow
<1>12. ASSUME NEW m \in Messages, ExecutedEventWrite(m) PROVE CostRow(n)'
  <2>1. /\ UNCHANGED <<pc, local, built, toUpdate, chain>>
        /\ m \in handling /\ handling' = {} /\ events' \subseteq events
        /\ n # m => db'[n] = db[n]
        /\ db'[m].hash = db[m].hash
    BY <1>12, MarkEffect DEF batch
  <2>2. HashRow(n)'
    BY <1>c, <2>1 DEF HashRow
  <2>3. SuccessRow(n)'
    BY <1>c, <1>k, <2>1 DEF SuccessRow
  <2> QED BY <1>k, <2>1, <2>2, <2>3 DEF CostRow
<1>13. CASE UNCHANGED vars
  <2>1. UNCHANGED <<db, pc, local, built, toUpdate, chain, events, handling>>
    BY <1>13 DEF vars, batch, gateway
  <2>2. HashRow(n)'
    BY <1>c, <2>1 DEF HashRow
  <2>3. SuccessRow(n)'
    BY <1>c, <1>k, <2>1 DEF SuccessRow
  <2> QED BY <1>k, <2>1, <2>2, <2>3 DEF CostRow
<1> QED
  BY <1>1, <1>2, <1>3, <1>4, <1>5, <1>6, <1>7, <1>8, <1>9, <1>10, <1>11, <1>12, <1>13
  DEF Next, BatchDropped

LEMMA CostInvariant == Spec => []CostInv
BY BatchInvariant, CostInit, CostStep, PTL DEF Spec

(* The token issue cost leaves the wallet only after an earlier            *)
(* transaction of the same message has succeeded on chain, whatever was    *)
(* unsent, lost, retried or delivered again in between.                    *)
THEOREM IssueCostIsEarned == Spec => []IssueCostAfterSuccess
<1>1. CostInv => IssueCostAfterSuccess
  BY DEF CostInv, CostRow, ValueRow, IssueCostAfterSuccess
<1> QED BY <1>1, CostInvariant, PTL
==============================================================================
