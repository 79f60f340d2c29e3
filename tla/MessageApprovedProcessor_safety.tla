-------------------- MODULE MessageApprovedProcessor_safety --------------------
(***************************************************************************)
(* The safety invariants of MessageApprovedProcessor, proved for every set *)
(* of messages and every value of the other constants. Each layer is       *)
(* inductive given the ones before it: TypeInv, BatchInv, then ReportsInv, *)
(* AttemptsInv, KeptInv and CalmInv.                                       *)
(***************************************************************************)
EXTENDS MessageApprovedProcessor_proofs

------------------------------------------------------------------------------
(* What the actions do to one message.                                     *)

LEMMA FailEffect ==
  ASSUME TypeInv, NEW m \in Messages, GiveUp(m) \/ EmptyPayload(m) \/ NotEnoughGas(m)
  PROVE  /\ pc = "build" /\ m \in todo
         /\ todo' = todo \ {m} /\ toUpdate' = toUpdate \cup {m}
         /\ UNCHANGED <<db, pc, built, chain, events, handling, seen, raced, intake, faults, throws>>
         /\ \A n \in Messages \ {m} : local'[n] = local[n] /\ reports'[n] = reports[n]
         /\ local'[m] \in Row
         /\ local'[m].status = "FAILED"
         /\ local'[m].retry >= local[m].retry
         /\ local'[m].hash = local[m].hash
         /\ local'[m].success \in Awaited(m)
         /\ \/ reports'[m] = reports[m] + 1
            \/ Kind[m] = "empty" /\ reports'[m] = reports[m]
<1>1. local[m] \in Row
  BY DEF TypeInv, TypeOK
<1>2. local[m].success \in Awaited(m)
  BY DEF Awaited
<1>3. CASE GiveUp(m)
  <2>1. Done(m, Failed(local[m])) /\ Report(m)
    BY <1>3 DEF GiveUp
  <2>2. /\ Failed(local[m]) \in Row /\ Failed(local[m]).status = "FAILED"
        /\ Failed(local[m]).retry = local[m].retry
        /\ Failed(local[m]).hash = local[m].hash
        /\ Failed(local[m]).success = local[m].success
    BY <1>1, FailedLemma
  <2>3. local'[m] = Failed(local[m]) /\ \A n \in Messages \ {m} : local'[n] = local[n]
    BY <2>1, <2>2, DoneType
  <2>4. reports'[m] = reports[m] + 1 /\ \A n \in Messages \ {m} : reports'[n] = reports[n]
    BY <2>1, ReportType
  <2>5. local'[m].retry >= local[m].retry
    BY <1>1, <2>2, <2>3 DEF Row
  <2> QED BY <1>2, <1>3, <2>1, <2>2, <2>3, <2>4, <2>5 DEF GiveUp, Turn, Done, gateway
<1>4. CASE EmptyPayload(m)
  <2>1. Done(m, Failed(local[m])) /\ reports' = reports /\ Kind[m] = "empty"
    BY <1>4 DEF EmptyPayload
  <2>2. /\ Failed(local[m]) \in Row /\ Failed(local[m]).status = "FAILED"
        /\ Failed(local[m]).retry = local[m].retry
        /\ Failed(local[m]).hash = local[m].hash
        /\ Failed(local[m]).success = local[m].success
    BY <1>1, FailedLemma
  <2>3. local'[m] = Failed(local[m]) /\ \A n \in Messages \ {m} : local'[n] = local[n]
    BY <2>1, <2>2, DoneType
  <2>5. local'[m].retry >= local[m].retry
    BY <1>1, <2>2, <2>3 DEF Row
  <2> QED BY <1>2, <1>4, <2>1, <2>2, <2>3, <2>5 DEF EmptyPayload, Turn, Done, gateway
<1>5. CASE NotEnoughGas(m)
  <2>1. PICK row \in Row : /\ Done(m, row)
                           /\ row.status = "FAILED"
                           /\ row.retry = MaxRetries
                           /\ row.hash = local[m].hash
                           /\ row.success \in Awaited(m)
    BY <1>5, NotEnoughGasLemma
  <2>2. local'[m] = row /\ \A n \in Messages \ {m} : local'[n] = local[n]
    BY <2>1, DoneType
  <2>3. reports'[m] = reports[m] + 1 /\ \A n \in Messages \ {m} : reports'[n] = reports[n]
    BY <1>5, ReportType DEF NotEnoughGas
  <2>4. row.retry >= local[m].retry
    BY <1>1, <2>1 DEF Row
  <2>5. /\ todo' = todo \ {m} /\ toUpdate' = toUpdate \cup {m}
        /\ UNCHANGED <<db, pc, built, chain, gateway, intake, faults, throws>>
        /\ pc = "build" /\ m \in todo
    BY <1>5, <2>1 DEF NotEnoughGas, Buildable, Turn, Done
  <2> QED BY <2>1, <2>2, <2>3, <2>4, <2>5 DEF gateway
<1> QED BY <1>3, <1>4, <1>5

LEMMA BuildEffect ==
  ASSUME TypeInv, NEW m \in Messages, BuildTx(m)
  PROVE  /\ pc = "build" /\ m \in todo
         /\ todo' = todo \ {m} /\ built' = built \cup {m}
         /\ UNCHANGED <<db, pc, toUpdate, chain, events, handling, seen, raced, reports, intake, faults, throws>>
         /\ \A n \in Messages \ {m} : local'[n] = local[n]
         /\ local'[m].status = local[m].status
         /\ local'[m].retry >= local[m].retry + 1
         /\ local'[m].hash = Len(chain[m]) + 1
         /\ local'[m].success \in Awaited(m)
<1>1. PICK row \in Row : /\ Done(m, row)
                         /\ row.status = local[m].status
                         /\ row.retry > local[m].retry
                         /\ row.hash = Len(chain[m]) + 1
                         /\ row.success \in Awaited(m)
  BY BuildTxLemma
<1>2. local'[m] = row /\ \A n \in Messages \ {m} : local'[n] = local[n]
  BY <1>1, DoneType
<1>3. /\ todo' = todo \ {m} /\ built' = built \cup {m}
      /\ UNCHANGED <<db, pc, toUpdate, chain, gateway, reports, intake, faults, throws>>
      /\ pc = "build" /\ m \in todo
  BY <1>1 DEF BuildTx, Buildable, Turn, Done
<1>4. local[m] \in Row
  BY DEF TypeInv, TypeOK
<1>5. row.retry >= local[m].retry + 1
  BY <1>1, <1>4 DEF Row
<1> QED BY <1>1, <1>2, <1>3, <1>5 DEF gateway

LEMMA SendEffect ==
  ASSUME TypeInv, Send
  PROVE  /\ pc = "build" /\ todo = {}
         /\ pc' = "update" /\ toUpdate' = toUpdate \cup built
         /\ UNCHANGED <<db, todo, built, events, handling, seen, raced, reports, intake, throws>>
         /\ \E S \in SUBSET built :
              /\ faults' = IF S = built THEN faults ELSE faults + 1
              /\ Accept(S)
              /\ \A m \in Messages :
                   /\ local'[m].status = local[m].status
                   /\ local'[m].success = local[m].success
                   /\ m \notin built \ S => local'[m] = local[m]
                   /\ m \in built \ S => /\ local'[m].retry >= local[m].retry - 1
                                         /\ local'[m].hash = 0
<1>1. PICK S \in SUBSET built :
        /\ IF S = built THEN UNCHANGED <<faults, throws>> ELSE Fault
        /\ Accept(S)
        /\ local' = [m \in Messages |->
                       IF m \in built \ S THEN Unsent(local[m]) ELSE local[m]]
  BY DEF Send
<1>2. ASSUME NEW m \in Messages, m \in built \ S
      PROVE  /\ local'[m].status = local[m].status
             /\ local'[m].success = local[m].success
             /\ local'[m].retry >= local[m].retry - 1
             /\ local'[m].hash = 0
  <2>1. local[m] \in Row /\ local[m].retry > 0
    BY <1>2 DEF TypeInv, TypeOK, BuiltCounted
  <2>2. /\ Unsent(local[m]).status = local[m].status
        /\ Unsent(local[m]).success = local[m].success
        /\ Unsent(local[m]).retry = IF local[m].retry = 1 THEN 1 ELSE local[m].retry - 1
        /\ Unsent(local[m]).hash = 0
    BY <2>1, UnsentLemma
  <2>3. local'[m] = Unsent(local[m])
    BY <1>1, <1>2
  <2>4. local[m].retry \in Nat
    BY <2>1 DEF Row
  <2> QED BY <2>2, <2>3, <2>4
<1>3. ASSUME NEW m \in Messages, m \notin built \ S PROVE local'[m] = local[m]
  BY <1>1, <1>3
<1>4. faults' = (IF S = built THEN faults ELSE faults + 1) /\ throws' = throws
  BY <1>1 DEF Fault
<1>5. /\ pc = "build" /\ todo = {}
      /\ pc' = "update" /\ toUpdate' = toUpdate \cup built
      /\ UNCHANGED <<db, todo, built, gateway, reports, intake>>
  BY DEF Send
<1> QED BY <1>1, <1>2, <1>3, <1>4, <1>5 DEF gateway

LEMMA UpdateEffect ==
  ASSUME TypeInv, Update
  PROVE  /\ pc = "update" /\ DropBatch
         /\ UNCHANGED <<chain, events, handling, seen, raced, reports, intake, faults, throws>>
         /\ \A m \in Messages : IF m \in toUpdate
                                THEN /\ db'[m].status = local[m].status
                                     /\ db'[m].retry = local[m].retry
                                     /\ db'[m].hash = local[m].hash
                                     /\ db'[m].success = local[m].success
                                     /\ db'[m].recent = TRUE
                                ELSE db'[m] = db[m]
<1>1. \A m \in Messages : db[m] \in Row /\ local[m] \in Row
  BY DEF TypeInv, TypeOK
<1>2. \A m \in Messages : db'[m] = IF m \in toUpdate THEN Written(db[m], local[m]) ELSE db[m]
  BY DEF Update
<1>3. ASSUME NEW m \in toUpdate
      PROVE  /\ db'[m].status = local[m].status
             /\ db'[m].retry = local[m].retry
             /\ db'[m].hash = local[m].hash
             /\ db'[m].success = local[m].success
             /\ db'[m].recent = TRUE
  <2>1. m \in Messages
    BY DEF TypeInv, TypeOK
  <2>2. db[m] \in Row /\ local[m] \in Row /\ db'[m] = Written(db[m], local[m])
    BY <1>1, <1>2, <2>1
  <2>3. /\ Written(db[m], local[m]).status = local[m].status
        /\ Written(db[m], local[m]).retry = local[m].retry
        /\ Written(db[m], local[m]).hash = local[m].hash
        /\ Written(db[m], local[m]).success = local[m].success
        /\ Written(db[m], local[m]).recent = TRUE
    BY <2>2, WrittenLemma
  <2> QED BY <2>2, <2>3
<1>4. /\ pc = "update" /\ DropBatch
      /\ UNCHANGED <<chain, gateway, reports, intake, faults, throws>>
  BY DEF Update
<1> QED BY <1>2, <1>3, <1>4 DEF gateway

(* A batch is dropped: by a fault, or at a garbled payload.                *)
BatchDropped ==
  UpdateThrows \/ Crash \/ \E m \in Messages : Abort(m) \/ Garbled(m)

LEMMA DropEffect ==
  ASSUME TypeInv, BatchDropped
  PROVE  /\ DropBatch
         /\ \/ faults' = faults + 1 /\ throws' = throws
            \/ faults' = faults /\ throws' = throws + 1 /\ pc = "build"
         /\ UNCHANGED <<db, chain, events, raced, intake>>
         /\ handling' \subseteq handling
         /\ \A n \in Messages : \/ reports'[n] = reports[n]
                                \/ n \in todo /\ reports'[n] = reports[n] + 1
<1>1. CASE UpdateThrows
  BY <1>1 DEF UpdateThrows, Fault, gateway
<1>2. CASE Crash
  BY <1>2 DEF Crash, Fault
<1>3. ASSUME NEW m \in Messages, Abort(m)
      PROVE  /\ DropBatch
             /\ faults' = faults + 1 /\ throws' = throws
             /\ UNCHANGED <<db, chain, gateway, intake>>
             /\ \A n \in Messages : \/ reports'[n] = reports[n]
                                    \/ n \in todo /\ reports'[n] = reports[n] + 1
  <2>1. Report(m) \/ UNCHANGED reports
    BY <1>3 DEF Abort
  <2>2. \A n \in Messages : reports'[n] = reports[n] \/ (n = m /\ reports'[n] = reports[n] + 1)
    BY <2>1, ReportType
  <2>3. m \in todo
    BY <1>3 DEF Abort, Turn
  <2> QED BY <1>3, <2>2, <2>3 DEF Abort, Fault
<1>4. ASSUME NEW m \in Messages, Garbled(m)
      PROVE  /\ DropBatch /\ pc = "build"
             /\ faults' = faults /\ throws' = throws + 1
             /\ UNCHANGED <<db, chain, gateway, reports, intake>>
  BY <1>4 DEF Garbled, Turn
<1> QED BY <1>1, <1>2, <1>3, <1>4 DEF BatchDropped, gateway

LEMMA IntakeEffect ==
  ASSUME TypeInv, NEW m \in Messages, ExecuteTask(m)
  PROVE  /\ UNCHANGED <<batch, chain, events, handling, seen, raced, reports, faults, throws>>
         /\ \A n \in Messages \ {m} : db'[n] = db[n] /\ intake'[n] = intake[n]
         /\ intake'[m] = intake[m] + 1
         /\ db'[m].status = "PENDING" /\ db'[m].retry = 0
         /\ db[m].status # "absent" => db'[m].hash = db[m].hash /\ db'[m].success = db[m].success
         /\ db[m].status = "absent" => db'[m].hash = 0 /\ db'[m].success = 0
<1>1. /\ db[m] \in Row /\ db'[m] = Upserted(db[m])
      /\ \A n \in Messages \ {m} : db'[n] = db[n]
  BY DEF TypeInv, TypeOK, ExecuteTask
<1>2. intake'[m] = intake[m] + 1 /\ \A n \in Messages \ {m} : intake'[n] = intake[n]
  BY DEF TypeInv, TypeOK, ExecuteTask
<1>3. UNCHANGED <<batch, chain, gateway, reports, faults, throws>>
  BY DEF ExecuteTask
<1> QED BY <1>1, <1>2, <1>3, UpsertedLemma DEF gateway

LEMMA AgeEffect ==
  ASSUME TypeInv, NEW m \in Messages, Age(m)
  PROVE  /\ UNCHANGED <<batch, chain, events, handling, seen, raced, reports, intake, faults, throws>>
         /\ Timely => ~Unsettled(m)
         /\ \A n \in Messages \ {m} : db'[n] = db[n]
         /\ \A n \in Messages : /\ db'[n].status = db[n].status
                                /\ db'[n].retry = db[n].retry
                                /\ db'[n].hash = db[n].hash
                                /\ db'[n].success = db[n].success
<1>1. db[m] \in Row /\ db' = [db EXCEPT ![m] = [db[m] EXCEPT !.recent = FALSE]]
  BY DEF TypeInv, TypeOK, Age
<1> DEFINE row == [db[m] EXCEPT !.recent = FALSE]
<1>2. /\ row.status = db[m].status /\ row.retry = db[m].retry
      /\ row.hash = db[m].hash /\ row.success = db[m].success
  BY <1>1 DEF Row
<1> HIDE DEF row
<1>3. \A n \in Messages : db'[n] = IF n = m THEN row ELSE db[n]
  BY <1>1 DEF TypeInv, TypeOK, row
<1> QED BY <1>2, <1>3 DEF Age, gateway

LEMMA MarkEffect ==
  ASSUME TypeInv, NEW m \in Messages, ExecutedEventWrite(m)
  PROVE  /\ m \in handling /\ handling' = {} /\ events' \subseteq events
         /\ UNCHANGED <<batch, chain, reports, intake>>
         /\ raced \subseteq raced'
         /\ local[m].status # "absent" => m \in raced'
         /\ faults' \in {faults, faults + 1} /\ throws' = throws
         /\ \A n \in Messages \ {m} : db'[n] = db[n]
         /\ db'[m].status = "SUCCESS"
         /\ db'[m].retry = db[m].retry
         /\ db'[m].hash = db[m].hash
<1>1. db[m] \in Row /\ seen \in Nat /\ faults \in Nat
  BY DEF TypeInv, TypeOK
<1>2. db'[m] = Marked(db[m]) /\ \A n \in Messages \ {m} : db'[n] = db[n]
  BY DEF TypeInv, TypeOK, ExecutedEventWrite
<1>3. /\ Marked(db[m]).status = "SUCCESS" /\ Marked(db[m]).retry = db[m].retry
      /\ Marked(db[m]).hash = db[m].hash
  BY <1>1, MarkedLemma
<1>4. raced' = raced \cup ({m} \cap InFlight)
  BY DEF ExecutedEventWrite
<1>5. raced \subseteq raced' /\ (local[m].status # "absent" => m \in raced')
  BY <1>4 DEF InFlight
<1> QED BY <1>1, <1>2, <1>3, <1>5 DEF ExecutedEventWrite, Fault

LEMMA FetchEffect ==
  ASSUME TypeInv, Fetch
  PROVE  /\ pc = "fetch" /\ pc' = "build" /\ built' = {} /\ toUpdate' = {}
         /\ UNCHANGED <<db, chain, events, handling, seen, raced, reports, intake, faults, throws>>
         /\ \A m \in Messages : /\ m \in todo' => db[m].status = "PENDING"
                                /\ local'[m] = IF m \in todo' THEN db[m] ELSE Absent
BY DEF Fetch, Page, Eligible, gateway

(* The steps that change no status, no retry count, and nothing of a batch. *)
Quiet ==
  /\ UNCHANGED <<pc, todo, local, built, toUpdate, reports, intake, faults, throws>>
  /\ \A n \in Messages : /\ db'[n].status = db[n].status
                         /\ db'[n].retry = db[n].retry
                         /\ db'[n].hash = db[n].hash
                         /\ db'[n].success = db[n].success
                         /\ Len(chain'[n]) = Len(chain[n])

LEMMA QuietEffect ==
  ASSUME TypeInv,
         \/ UNCHANGED vars
         \/ \E m \in Messages : Age(m) \/ TxFails(m) \/ TxSucceeds(m) \/ ExecutedEventRead(m)
  PROVE  Quiet
<1> USE DEF Quiet
<1>1. CASE UNCHANGED vars
  BY <1>1 DEF vars, batch
<1>2. ASSUME NEW m \in Messages, Age(m) PROVE Quiet
  BY <1>2, AgeEffect DEF batch
<1>3. ASSUME NEW m \in Messages, TxFails(m) \/ TxSucceeds(m) PROVE Quiet
  <2>1. PICK i \in 1 .. Len(chain[m]), s \in {"success", "failed"} : Settle(m, i, s)
    BY <1>3 DEF TxFails, TxSucceeds
  <2>2. \A n \in Messages : Len(chain'[n]) = Len(chain[n])
    BY <2>1, SettleLemma DEF TypeInv, TypeOK
  <2> QED BY <1>3, <2>2 DEF TxFails, TxSucceeds, batch
<1>4. ASSUME NEW m \in Messages, ExecutedEventRead(m) PROVE Quiet
  BY <1>4 DEF ExecutedEventRead, batch
<1> QED BY <1>1, <1>2, <1>3, <1>4

------------------------------------------------------------------------------
(* The entries of a batch: each is not processed yet, has a transaction or *)
(* failed, and failed entries are saved before the next page is read.      *)

BatchShape ==
  /\ pc = "fetch" => todo = {} /\ built = {} /\ toUpdate = {}
  /\ pc = "build" => built \cap toUpdate = {}
  /\ pc = "update" => todo = {}
  /\ todo \cap (built \cup toUpdate) = {}

BatchRow(m) ==
  /\ local[m].status \in {"absent", "PENDING", "FAILED"}
  /\ pc = "fetch" => local[m].status = "absent"
  /\ m \in todo \cup built => local[m].status = "PENDING"
  /\ m \in toUpdate => local[m].status # "absent"
  /\ local[m].status = "FAILED" => m \in toUpdate
  /\ local[m].status # "absent" => db[m].status # "absent"
  /\ db[m].status # "absent" => intake[m] > 0
  /\ chain[m] # <<>> \/ m \in events \cup handling => db[m].status # "absent"

BatchInv == BatchShape /\ \A m \in Messages : BatchRow(m)

LEMMA BatchInit == Init => BatchInv
BY AbsentLemma DEF Init, BatchInv, BatchShape, BatchRow

LEMMA BatchStep == TypeInv /\ BatchInv /\ [Next]_vars => BatchInv'
<1> SUFFICES ASSUME TypeInv, BatchInv, [Next]_vars PROVE BatchInv'
  OBVIOUS
<1>t. /\ todo \subseteq Messages /\ built \subseteq Messages /\ toUpdate \subseteq Messages
      /\ chain \in [Messages -> Seq(Tx)]
      /\ intake \in [Messages -> Nat]
  BY DEF TypeInv, TypeOK
<1>s. BatchShape /\ \A m \in Messages : BatchRow(m)
  BY DEF BatchInv
<1>1. CASE Fetch
  <2>1. /\ \A m \in Messages : m \in todo' => db[m].status = "PENDING"
        /\ \A m \in Messages : local'[m] = IF m \in todo' THEN db[m] ELSE Absent
        /\ pc' = "build" /\ built' = {} /\ toUpdate' = {}
        /\ UNCHANGED <<db, chain, events, handling, intake>>
    BY <1>1 DEF Fetch, Page, Eligible, gateway
  <2>2. BatchShape'
    BY <2>1 DEF BatchShape
  <2>3. ASSUME NEW m \in Messages PROVE BatchRow(m)'
    BY <1>s, <2>1, AbsentLemma DEF BatchRow
  <2> QED BY <2>2, <2>3 DEF BatchInv
<1>2. CASE Send
  <2>1. /\ pc = "build" /\ todo = {} /\ todo' = {} /\ built' = built
        /\ pc' = "update" /\ toUpdate' = toUpdate \cup built
        /\ UNCHANGED <<db, events, handling, intake>>
    BY <1>2, SendEffect
  <2>2. PICK S \in SUBSET built : /\ Accept(S)
                                 /\ \A m \in Messages : local'[m].status = local[m].status
    BY <1>2, SendEffect
  <2>3. \A m \in Messages : m \notin S => chain'[m] = chain[m]
    BY <2>2 DEF Accept
  <2>4. BatchShape'
    BY <1>s, <2>1 DEF BatchShape
  <2>5. ASSUME NEW m \in Messages PROVE BatchRow(m)'
    BY <1>s, <2>1, <2>2, <2>3 DEF BatchRow
  <2> QED BY <2>4, <2>5 DEF BatchInv
<1>3. CASE SendNull
  <2>1. /\ pc = "build" /\ todo = {} /\ pc' = "update"
        /\ UNCHANGED <<db, todo, local, built, toUpdate, events, handling, intake>>
    BY <1>3 DEF SendNull, gateway
  <2>2. PICK S \in SUBSET built : Accept(S)
    BY <1>3 DEF SendNull
  <2>3. \A m \in Messages : m \notin S => chain'[m] = chain[m]
    BY <2>2 DEF Accept
  <2>4. BatchShape'
    BY <1>s, <2>1 DEF BatchShape
  <2>5. ASSUME NEW m \in Messages PROVE BatchRow(m)'
    BY <1>s, <2>1, <2>2, <2>3 DEF BatchRow
  <2> QED BY <2>4, <2>5 DEF BatchInv
<1>4. CASE Update
  <2>1. /\ DropBatch
        /\ UNCHANGED <<chain, events, handling, intake>>
        /\ \A m \in Messages : db'[m].status = IF m \in toUpdate THEN local[m].status
                                                            ELSE db[m].status
    BY <1>4, UpdateEffect
  <2>2. BatchShape'
    BY <2>1, DropBatchType DEF BatchShape
  <2>3. ASSUME NEW m \in Messages PROVE BatchRow(m)'
    BY <1>s, <2>1, DropBatchType, AbsentLemma DEF BatchRow
  <2> QED BY <2>2, <2>3 DEF BatchInv
<1>5. CASE BatchDropped
  <2>1. DropBatch /\ UNCHANGED <<db, chain, events, intake>> /\ handling' \subseteq handling
    BY <1>5, DropEffect
  <2>2. BatchShape'
    BY <2>1, DropBatchType DEF BatchShape
  <2>3. ASSUME NEW m \in Messages PROVE BatchRow(m)'
    BY <1>s, <2>1, DropBatchType, AbsentLemma DEF BatchRow
  <2> QED BY <2>2, <2>3 DEF BatchInv
<1>6. ASSUME NEW m \in Messages, ExecuteTask(m) PROVE BatchInv'
  <2>1. /\ UNCHANGED <<pc, todo, local, built, toUpdate, chain, events, handling>>
        /\ \A n \in Messages \ {m} : db'[n] = db[n] /\ intake'[n] = intake[n]
        /\ db'[m].status = "PENDING"
        /\ intake'[m] = intake[m] + 1
    BY <1>6, IntakeEffect DEF batch
  <2>2. intake'[m] > 0
    BY <1>t, <2>1
  <2>3. BatchShape'
    BY <1>s, <2>1 DEF BatchShape
  <2>4. ASSUME NEW n \in Messages PROVE BatchRow(n)'
    BY <1>s, <2>1, <2>2 DEF BatchRow
  <2> QED BY <2>3, <2>4 DEF BatchInv
<1>7. ASSUME NEW m \in Messages, Age(m) PROVE BatchInv'
  <2>1. /\ UNCHANGED <<pc, todo, local, built, toUpdate, chain, events, handling, intake>>
        /\ \A n \in Messages : db'[n].status = db[n].status
    BY <1>7, AgeEffect DEF batch
  <2>2. BatchShape'
    BY <1>s, <2>1 DEF BatchShape
  <2>3. ASSUME NEW n \in Messages PROVE BatchRow(n)'
    BY <1>s, <2>1 DEF BatchRow
  <2> QED BY <2>2, <2>3 DEF BatchInv
<1>8. ASSUME NEW m \in Messages, GiveUp(m) \/ EmptyPayload(m) \/ NotEnoughGas(m)
      PROVE  BatchInv'
  <2>1. /\ pc = "build" /\ m \in todo
        /\ todo' = todo \ {m} /\ toUpdate' = toUpdate \cup {m}
        /\ UNCHANGED <<db, pc, built, chain, events, handling, intake>>
        /\ \A n \in Messages \ {m} : local'[n] = local[n]
        /\ local'[m].status = "FAILED"
    BY <1>8, FailEffect
  <2>2. BatchShape'
    BY <1>s, <2>1 DEF BatchShape
  <2>3. ASSUME NEW n \in Messages PROVE BatchRow(n)'
    BY <1>s, <2>1 DEF BatchRow, BatchShape
  <2> QED BY <2>2, <2>3 DEF BatchInv
<1>9. ASSUME NEW m \in Messages, BuildTx(m) PROVE BatchInv'
  <2>1. /\ pc = "build" /\ m \in todo
        /\ todo' = todo \ {m} /\ built' = built \cup {m}
        /\ UNCHANGED <<db, pc, toUpdate, chain, events, handling, intake>>
        /\ \A n \in Messages : local'[n].status = local[n].status
    BY <1>9, BuildEffect
  <2>2. BatchShape'
    BY <1>s, <2>1 DEF BatchShape
  <2>3. ASSUME NEW n \in Messages PROVE BatchRow(n)'
    BY <1>s, <2>1 DEF BatchRow, BatchShape
  <2> QED BY <2>2, <2>3 DEF BatchInv
<1>10. ASSUME NEW m \in Messages, TxFails(m) \/ TxSucceeds(m) PROVE BatchInv'
  <2>1. PICK i \in 1 .. Len(chain[m]), s \in {"success", "failed"} : Settle(m, i, s)
    BY <1>10 DEF TxFails, TxSucceeds
  <2>2. chain[m] # <<>> /\ \A n \in Messages : chain'[n] # <<>> => chain[n] # <<>>
    <3>1. \A n \in Messages : Len(chain'[n]) = Len(chain[n])
      BY <1>t, <2>1, SettleLemma
    <3>2. \A n \in Messages : n # m => chain'[n] = chain[n]
      BY <2>1 DEF Settle
    <3>3. chain[m] # <<>>
      BY <1>t, <2>1
    <3> QED BY <3>2, <3>3
  <2>3. /\ UNCHANGED <<db, pc, todo, local, built, toUpdate, handling, intake>>
        /\ events' \subseteq events \cup {m}
    BY <1>10 DEF TxFails, TxSucceeds, batch, gateway
  <2>4. BatchShape'
    BY <1>s, <2>3 DEF BatchShape
  <2>5. ASSUME NEW n \in Messages PROVE BatchRow(n)'
    BY <1>s, <2>2, <2>3 DEF BatchRow
  <2> QED BY <2>4, <2>5 DEF BatchInv
<1>11. ASSUME NEW m \in Messages, ExecutedEventRead(m) PROVE BatchInv'
  <2>1. /\ UNCHANGED <<db, pc, todo, local, built, toUpdate, chain, events, intake>>
        /\ handling' \subseteq events
    BY <1>11 DEF ExecutedEventRead, batch
  <2>2. BatchShape'
    BY <1>s, <2>1 DEF BatchShape
  <2>3. ASSUME NEW n \in Messages PROVE BatchRow(n)'
    BY <1>s, <2>1 DEF BatchRow
  <2> QED BY <2>2, <2>3 DEF BatchInv
<1>12. ASSUME NEW m \in Messages, ExecutedEventWrite(m) PROVE BatchInv'
  <2>1. /\ UNCHANGED <<pc, todo, local, built, toUpdate, chain, intake>>
        /\ m \in handling /\ handling' = {} /\ events' \subseteq events
        /\ \A n \in Messages \ {m} : db'[n] = db[n]
        /\ db'[m].status = "SUCCESS"
    BY <1>12, MarkEffect DEF batch
  <2>2. BatchShape'
    BY <1>s, <2>1 DEF BatchShape
  <2>3. ASSUME NEW n \in Messages PROVE BatchRow(n)'
    BY <1>s, <2>1 DEF BatchRow
  <2> QED BY <2>2, <2>3 DEF BatchInv
<1>13. CASE UNCHANGED vars
  <2>1. UNCHANGED <<db, pc, todo, local, built, toUpdate, chain, events, handling, intake>>
    BY <1>13 DEF vars, batch, gateway
  <2>2. BatchShape' = BatchShape
    BY <2>1 DEF BatchShape
  <2>3. ASSUME NEW n \in Messages PROVE BatchRow(n)'
    BY <1>s, <2>1 DEF BatchRow
  <2> QED BY <1>s, <2>2, <2>3 DEF BatchInv
<1> QED
  BY <1>1, <1>2, <1>3, <1>4, <1>5, <1>6, <1>7, <1>8, <1>9, <1>10, <1>11, <1>12, <1>13
  DEF Next, BatchDropped

------------------------------------------------------------------------------
(* Reports to Axelar. A delivery leaves room for one report, which the     *)
(* cron uses up when it holds the row as FAILED.                           *)

ReportsRow(m) ==
  /\ reports[m] <= intake[m] + faults + throws
  /\ db[m].status = "PENDING" /\ local[m].status # "FAILED"
       => reports[m] < intake[m] + faults + throws
  /\ local[m].status = "PENDING" => reports[m] < intake[m] + faults + throws

FailedRow(m) ==
  db[m].status = "FAILED" \/ local[m].status = "FAILED" => reports[m] > 0 \/ Kind[m] = "empty"

ReportsInv == \A m \in Messages : ReportsRow(m) /\ FailedRow(m)

LEMMA ReportsInit == Init => ReportsInv
BY AbsentLemma DEF Init, ReportsInv, ReportsRow, FailedRow

LEMMA ReportsStep == TypeInv /\ BatchInv /\ ReportsInv /\ [Next]_vars => ReportsInv'
<1> SUFFICES ASSUME TypeInv, BatchInv, ReportsInv, [Next]_vars,
                    NEW n \in Messages
             PROVE  (ReportsRow(n) /\ FailedRow(n))'
  BY DEF ReportsInv
<1>t. reports[n] \in Nat /\ intake[n] \in Nat /\ faults \in Nat /\ throws \in Nat
  BY DEF TypeInv, TypeOK
<1>s. BatchRow(n) /\ ReportsRow(n) /\ FailedRow(n)
  BY DEF BatchInv, ReportsInv
<1> USE DEF ReportsRow, FailedRow
<1>1. CASE Fetch
  <2>1. local[n].status = "absent"
    BY <1>1, <1>s, FetchEffect DEF BatchRow
  <2> QED BY <1>1, <1>t, <1>s, <2>1, FetchEffect, AbsentLemma
<1>2. CASE Send
  <2>1. faults' \in Nat /\ faults' >= faults
    BY <1>2, <1>t, SendEffect
  <2>2. UNCHANGED <<db, reports, intake, throws>> /\ local'[n].status = local[n].status
    BY <1>2, SendEffect
  <2> QED BY <1>t, <1>s, <2>1, <2>2
<1>3. CASE SendNull
  BY <1>3, <1>t, <1>s DEF SendNull, Fault
<1>4. CASE Update
  <2>1. /\ db'[n].status = IF n \in toUpdate THEN local[n].status ELSE db[n].status
        /\ local'[n].status = "absent"
        /\ UNCHANGED <<reports, intake, faults, throws>>
    BY <1>4, UpdateEffect, DropBatchType, AbsentLemma
  <2> QED BY <1>t, <1>s, <2>1 DEF BatchRow
<1>5. CASE BatchDropped
  <2>1. /\ UNCHANGED <<db, intake>>
        /\ \/ faults' = faults + 1 /\ throws' = throws
           \/ faults' = faults /\ throws' = throws + 1
        /\ local'[n].status = "absent"
        /\ \/ reports'[n] = reports[n]
           \/ n \in todo /\ reports'[n] = reports[n] + 1
    BY <1>5, DropEffect, DropBatchType, AbsentLemma
  <2>2. intake'[n] + faults' + throws' = intake[n] + faults + throws + 1
    BY <1>t, <2>1
  <2>3. n \in todo => local[n].status = "PENDING"
    BY <1>s DEF BatchRow
  <2>4. reports'[n] <= intake[n] + faults + throws /\ reports'[n] \in Nat
    BY <1>t, <1>s, <2>1, <2>3
  <2>5. ReportsRow(n)'
    BY <1>t, <2>1, <2>2, <2>4
  <2>6. FailedRow(n)'
    BY <1>t, <1>s, <2>1
  <2> QED BY <2>5, <2>6
<1>6. ASSUME NEW m \in Messages, ExecuteTask(m) PROVE (ReportsRow(n) /\ FailedRow(n))'
  <2>1. /\ UNCHANGED <<local, reports, faults, throws>>
        /\ n # m => db'[n] = db[n] /\ intake'[n] = intake[n]
        /\ n = m => db'[n].status = "PENDING" /\ intake'[n] = intake[n] + 1
    BY <1>6, IntakeEffect DEF batch
  <2> QED BY <1>t, <1>s, <2>1
<1>7. CASE \/ UNCHANGED vars
           \/ \E m \in Messages : Age(m) \/ TxFails(m) \/ TxSucceeds(m) \/ ExecutedEventRead(m)
  BY <1>7, <1>s, QuietEffect DEF Quiet
<1>8. ASSUME NEW m \in Messages, GiveUp(m) \/ EmptyPayload(m) \/ NotEnoughGas(m)
      PROVE  (ReportsRow(n) /\ FailedRow(n))'
  <2>1. /\ UNCHANGED <<db, intake, faults, throws>> /\ m \in todo
        /\ n # m => local'[n] = local[n] /\ reports'[n] = reports[n]
        /\ n = m => /\ local'[n].status = "FAILED"
                    /\ \/ reports'[n] = reports[n] + 1
                       \/ Kind[n] = "empty" /\ reports'[n] = reports[n]
    BY <1>8, FailEffect
  <2> QED BY <1>t, <1>s, <2>1 DEF BatchRow
<1>9. ASSUME NEW m \in Messages, BuildTx(m) PROVE (ReportsRow(n) /\ FailedRow(n))'
  <2>1. UNCHANGED <<db, reports, intake, faults, throws>> /\ local'[n].status = local[n].status
    BY <1>9, BuildEffect
  <2> QED BY <1>s, <2>1
<1>10. ASSUME NEW m \in Messages, ExecutedEventWrite(m) PROVE (ReportsRow(n) /\ FailedRow(n))'
  <2>1. /\ UNCHANGED <<local, reports, intake>>
        /\ faults' \in {faults, faults + 1} /\ throws' = throws
        /\ n = m => db'[n].status = "SUCCESS"
        /\ n # m => db'[n] = db[n]
    BY <1>10, MarkEffect DEF batch
  <2> QED BY <1>t, <1>s, <2>1
<1> QED
  BY <1>1, <1>2, <1>3, <1>4, <1>5, <1>6, <1>7, <1>8, <1>9, <1>10 DEF Next, BatchDropped

LEMMA BatchInvariant == Spec => [](TypeInv /\ BatchInv)
<1>1. Init => TypeInv /\ BatchInv
  BY TypeInit, BatchInit
<1>2. TypeInv /\ BatchInv /\ [Next]_vars => (TypeInv /\ BatchInv)'
  BY TypeStep, BatchStep
<1> QED BY <1>1, <1>2, PTL DEF Spec

LEMMA ReportsInvariant == Spec => []ReportsInv
BY BatchInvariant, ReportsInit, ReportsStep, PTL DEF Spec

(* Axelar is told that a message cannot be executed at most once per       *)
(* delivery of its task and once more per batch lost to a fault or to a    *)
(* garbled payload, whatever races with the cron.                          *)
THEOREM ReportsAreBounded == Spec => []ReportsBounded
<1>1. ReportsInv => ReportsBounded
  BY DEF ReportsInv, ReportsRow, ReportsBounded
<1> QED BY <1>1, ReportsInvariant, PTL

(* No row is FAILED without Axelar having been told, unless it has no      *)
(* payload: a report that is not accepted leaves the row PENDING.          *)
THEOREM FailuresAreReported == Spec => []FailedIsReported
<1>1. ReportsInv => FailedIsReported
  BY DEF ReportsInv, FailedRow, FailedIsReported
<1> QED BY <1>1, ReportsInvariant, PTL

------------------------------------------------------------------------------
(* Transactions on the network. The retry count of a row covers the        *)
(* transactions of its last delivery, up to the faults: the row's own      *)
(* count lags while the cron saves a batch, the cron's copy is ahead       *)
(* between building a transaction and sending it.                          *)

Unsaved(m)    == IF pc = "update" /\ m \in built \cap toUpdate THEN 1 ELSE 0
Unaccepted(m) == IF pc = "build" /\ m \in built THEN 1 ELSE 0

Sent(m) == Len(chain[m])

Room(m) == (3 * intake[m] + faults) - (3 + Sent(m))

AttemptsRow(m) ==
  /\ db[m].status # "absent" => Room(m) + db[m].retry + Unsaved(m) >= 0
  /\ local[m].status # "absent" => Room(m) + local[m].retry >= Unaccepted(m)

AttemptsInv == \A m \in Messages : AttemptsRow(m)

LEMMA AttemptsInit == Init => AttemptsInv
BY AbsentLemma DEF Init, AttemptsInv, AttemptsRow

LEMMA RoomLemma ==
  ASSUME TypeInv, NEW n \in Messages
  PROVE  /\ Sent(n) \in Nat /\ intake[n] \in Nat /\ faults \in Nat
         /\ Room(n) \in Int
         /\ Unsaved(n) \in {0, 1} /\ Unaccepted(n) \in {0, 1}
         /\ db[n].retry \in 0 .. 3 /\ local[n].retry \in 0 .. 3
<1>1. db[n] \in Row /\ local[n] \in Row /\ chain[n] \in Seq(Tx)
      /\ intake[n] \in Nat /\ faults \in Nat
  BY DEF TypeInv, TypeOK
<1>2. db[n].retry \in 0 .. 3 /\ local[n].retry \in 0 .. 3
  BY <1>1 DEF Row, MaxRetries
<1>3. Sent(n) \in Nat
  BY <1>1, LenProperties DEF Sent
<1>4. Room(n) \in Int
  BY <1>1, <1>3 DEF Room
<1>5. Unsaved(n) \in {0, 1} /\ Unaccepted(n) \in {0, 1}
  BY DEF Unsaved, Unaccepted
<1> QED BY <1>1, <1>2, <1>3, <1>4, <1>5

LEMMA AttemptsStep == TypeInv /\ BatchInv /\ AttemptsInv /\ [Next]_vars => AttemptsInv'
<1> SUFFICES ASSUME TypeInv, BatchInv, AttemptsInv, [Next]_vars,
                    NEW n \in Messages
             PROVE  AttemptsRow(n)'
  BY DEF AttemptsInv
<1>t. /\ Room(n) \in Int
      /\ Unsaved(n) \in {0, 1} /\ Unaccepted(n) \in {0, 1}
      /\ db[n].retry \in 0 .. 3 /\ local[n].retry \in 0 .. 3
  BY RoomLemma
<1>u. /\ Room(n)' \in Int
      /\ Unsaved(n)' \in {0, 1} /\ Unaccepted(n)' \in {0, 1}
      /\ db'[n].retry \in 0 .. 3 /\ local'[n].retry \in 0 .. 3
  <2>1. /\ db'[n] \in Row /\ local'[n] \in Row /\ chain'[n] \in Seq(Tx)
        /\ intake'[n] \in Nat /\ faults' \in Nat
    BY TypeStep DEF TypeInv, TypeOK
  <2>2. db'[n].retry \in 0 .. 3 /\ local'[n].retry \in 0 .. 3
    BY <2>1 DEF Row, MaxRetries
  <2>3. Sent(n)' \in Nat
    BY <2>1, LenProperties DEF Sent
  <2>4. Room(n)' \in Int
    BY <2>1, <2>3 DEF Room, Sent
  <2>5. Unsaved(n)' \in {0, 1} /\ Unaccepted(n)' \in {0, 1}
    BY DEF Unsaved, Unaccepted
  <2> QED BY <2>2, <2>4, <2>5
<1>r. Sent(n) \in Nat /\ intake[n] \in Nat /\ faults \in Nat
  BY RoomLemma
<1>s. BatchShape /\ BatchRow(n) /\ AttemptsRow(n)
  BY DEF BatchInv, AttemptsInv
<1> USE DEF AttemptsRow
<1>1. CASE Fetch
  <2>1. /\ pc = "fetch" /\ pc' = "build" /\ built' = {}
        /\ UNCHANGED <<db, chain, intake, faults, throws>>
        /\ local'[n] = db[n] \/ local'[n].status = "absent"
    BY <1>1, FetchEffect, AbsentLemma
  <2>2. Room(n)' = Room(n) /\ Unsaved(n) = 0 /\ Unsaved(n)' = 0 /\ Unaccepted(n)' = 0
    BY <2>1 DEF Room, Sent, Unsaved, Unaccepted
  <2> QED BY <1>t, <1>s, <2>1, <2>2
<1>2. CASE Send
  <2>1. /\ pc = "build" /\ pc' = "update" /\ toUpdate' = toUpdate \cup built
        /\ UNCHANGED <<db, built, intake>>
    BY <1>2, SendEffect
  <2>2. PICK S \in SUBSET built :
          /\ faults' = IF S = built THEN faults ELSE faults + 1
          /\ Accept(S)
          /\ \A m \in Messages :
               /\ local'[m].status = local[m].status
               /\ m \notin built \ S => local'[m] = local[m]
               /\ m \in built \ S => local'[m].retry >= local[m].retry - 1
    BY <1>2, SendEffect
  <2>3. Sent(n)' = Sent(n) + (IF n \in S THEN 1 ELSE 0)
    BY <2>2, AcceptLemma DEF TypeInv, TypeOK, Sent
  <2>4. Unsaved(n) = 0 /\ Unaccepted(n)' = 0
        /\ Unaccepted(n) = (IF n \in built THEN 1 ELSE 0)
        /\ Unsaved(n)' = (IF n \in built THEN 1 ELSE 0)
    BY <2>1 DEF Unsaved, Unaccepted
  <2>5. Room(n)' >= Room(n) - (IF n \in S THEN 1 ELSE 0)
    BY <1>r, <2>1, <2>2, <2>3 DEF Room
  <2>6. db[n].status # "absent" => Room(n)' + db'[n].retry + Unsaved(n)' >= 0
    BY <1>t, <1>u, <1>s, <2>1, <2>4, <2>5
  <2>7. local[n].status # "absent" => Room(n)' + local'[n].retry >= 0
    <3>1. CASE n \in built \ S
      BY <1>t, <1>u, <1>s, <2>2, <2>4, <2>5, <3>1
    <3>2. CASE n \in S
      BY <1>t, <1>u, <1>s, <2>2, <2>4, <2>5, <3>2
    <3>3. CASE n \notin built
      BY <1>t, <1>u, <1>s, <2>2, <2>4, <2>5, <3>3
    <3> QED BY <3>1, <3>2, <3>3
  <2> QED BY <2>1, <2>2, <2>4, <2>6, <2>7
<1>3. CASE SendNull
  <2>1. /\ pc = "build" /\ pc' = "update" /\ faults' = faults + 1
        /\ UNCHANGED <<db, local, built, toUpdate, intake>>
    BY <1>3 DEF SendNull, Fault
  <2>2. PICK S \in SUBSET built : Accept(S)
    BY <1>3 DEF SendNull
  <2>3. Sent(n)' = Sent(n) + (IF n \in S THEN 1 ELSE 0)
    BY <2>2, AcceptLemma DEF TypeInv, TypeOK, Sent
  <2>4. Room(n)' >= Room(n)
    BY <1>r, <2>1, <2>3 DEF Room
  <2>5. Unsaved(n) = 0 /\ Unsaved(n)' = 0 /\ Unaccepted(n)' = 0
    BY <1>s, <2>1 DEF Unsaved, Unaccepted, BatchShape
  <2> QED BY <1>t, <1>u, <1>s, <2>1, <2>4, <2>5
<1>4. CASE Update
  <2>1. /\ n \in toUpdate => db'[n].status = local[n].status /\ db'[n].retry = local[n].retry
        /\ n \notin toUpdate => db'[n] = db[n]
        /\ local'[n].status = "absent" /\ pc = "update" /\ pc' = "fetch"
        /\ UNCHANGED <<chain, intake, faults, throws>>
    BY <1>4, UpdateEffect, DropBatchType, AbsentLemma
  <2>2. Room(n)' = Room(n) /\ Unsaved(n)' = 0 /\ (n \notin toUpdate => Unsaved(n) = 0)
    BY <2>1 DEF Room, Sent, Unsaved
  <2>3. CASE n \in toUpdate
    <3>1. local[n].status # "absent"
      BY <1>s, <2>3 DEF BatchRow
    <3> QED BY <1>t, <1>s, <2>1, <2>2, <2>3, <3>1
  <2>4. CASE n \notin toUpdate
    BY <1>t, <1>s, <2>1, <2>2, <2>4
  <2> QED BY <2>3, <2>4
<1>5. CASE BatchDropped
  <2>1. /\ UNCHANGED <<db, chain, intake>>
        /\ faults' = faults + 1 \/ (faults' = faults /\ pc = "build")
        /\ local'[n].status = "absent" /\ pc' = "fetch"
    BY <1>5, DropEffect, DropBatchType, AbsentLemma
  <2>2. Room(n)' = Room(n) + 1 \/ (Room(n)' = Room(n) /\ Unsaved(n) = 0)
    <3>1. Sent(n)' = Sent(n)
      BY <2>1 DEF Sent
    <3> QED BY <1>r, <2>1, <3>1 DEF Room, Unsaved
  <2>3. Unsaved(n)' = 0
    BY <2>1 DEF Unsaved
  <2> QED BY <1>t, <1>s, <2>1, <2>2, <2>3
<1>6. ASSUME NEW m \in Messages, ExecuteTask(m) PROVE AttemptsRow(n)'
  <2>1. /\ UNCHANGED <<pc, local, built, toUpdate, chain, faults, throws>>
        /\ n # m => db'[n] = db[n] /\ intake'[n] = intake[n]
        /\ n = m => db'[n].retry = 0 /\ intake'[n] = intake[n] + 1
    BY <1>6, IntakeEffect DEF batch
  <2>2. Unsaved(n)' = Unsaved(n) /\ Unaccepted(n)' = Unaccepted(n)
    BY <2>1 DEF Unsaved, Unaccepted
  <2>3. CASE n # m
    <3>1. Room(n)' = Room(n)
      BY <2>1, <2>3 DEF Room, Sent
    <3> QED BY <1>s, <2>1, <2>2, <2>3, <3>1
  <2>4. CASE n = m
    <3>1. Room(n)' = Room(n) + 3
      <4>1. Sent(n)' = Sent(n)
        BY <2>1 DEF Sent
      <4> QED BY <1>r, <2>1, <2>4, <4>1 DEF Room
    <3>2. db[n].status = "absent" => Room(n)' >= 0
      <4>1. db[n].status = "absent" => Sent(n) = 0 /\ Sent(n)' = 0
        BY <1>s, <2>1, EmptySeq DEF BatchRow, Sent
      <4> QED BY <1>r, <2>1, <2>4, <4>1 DEF Room
    <3>3. Room(n)' + 0 + Unsaved(n)' >= 0
      BY <1>t, <1>u, <1>s, <2>2, <3>1, <3>2
    <3>4. local[n].status # "absent" => Room(n)' + local'[n].retry >= Unaccepted(n)'
      BY <1>t, <1>s, <2>1, <2>2, <3>1
    <3> QED BY <2>1, <2>4, <3>3, <3>4
  <2> QED BY <2>3, <2>4
<1>7. CASE \/ UNCHANGED vars
           \/ \E m \in Messages : Age(m) \/ TxFails(m) \/ TxSucceeds(m) \/ ExecutedEventRead(m)
  <2>1. Quiet
    BY <1>7, QuietEffect
  <2>2. Room(n)' = Room(n) /\ Unsaved(n)' = Unsaved(n) /\ Unaccepted(n)' = Unaccepted(n)
    BY <2>1 DEF Quiet, Room, Sent, Unsaved, Unaccepted
  <2> QED BY <1>s, <2>1, <2>2 DEF Quiet
<1>8. ASSUME NEW m \in Messages, GiveUp(m) \/ EmptyPayload(m) \/ NotEnoughGas(m)
      PROVE  AttemptsRow(n)'
  <2>1. /\ UNCHANGED <<db, pc, built, chain, intake, faults, throws>> /\ m \in todo /\ pc = "build"
        /\ n # m => local'[n] = local[n]
        /\ n = m => local'[n].retry >= local[n].retry
    BY <1>8, FailEffect
  <2>2. n = m => local[n].status # "absent"
    BY <1>s, <2>1 DEF BatchRow
  <2>3. Room(n)' = Room(n) /\ Unsaved(n) = 0 /\ Unsaved(n)' = 0 /\ Unaccepted(n)' = Unaccepted(n)
    BY <2>1 DEF Room, Sent, Unsaved, Unaccepted
  <2> QED BY <1>t, <1>u, <1>s, <2>1, <2>2, <2>3
<1>9. ASSUME NEW m \in Messages, BuildTx(m) PROVE AttemptsRow(n)'
  <2>1. /\ UNCHANGED <<db, pc, chain, intake, faults, throws>> /\ m \in todo /\ pc = "build"
        /\ built' = built \cup {m}
        /\ n # m => local'[n] = local[n]
        /\ n = m => local'[n].retry >= local[n].retry + 1 /\ local'[n].status = local[n].status
    BY <1>9, BuildEffect
  <2>2. n = m => n \notin built
    BY <1>s, <2>1 DEF BatchShape
  <2>3. Room(n)' = Room(n) /\ Unsaved(n) = 0 /\ Unsaved(n)' = 0
    BY <2>1 DEF Room, Sent, Unsaved
  <2>4. /\ n # m => Unaccepted(n)' = Unaccepted(n)
        /\ n = m => Unaccepted(n) = 0 /\ Unaccepted(n)' = 1
    BY <2>1, <2>2 DEF Unaccepted
  <2>5. CASE n # m
    BY <1>s, <2>1, <2>3, <2>4, <2>5
  <2>6. CASE n = m
    BY <1>t, <1>u, <1>s, <2>1, <2>3, <2>4, <2>6
  <2> QED BY <2>5, <2>6
<1>10. ASSUME NEW m \in Messages, ExecutedEventWrite(m) PROVE AttemptsRow(n)'
  <2>1. /\ UNCHANGED <<pc, local, built, toUpdate, chain, intake>>
        /\ m \in handling
        /\ faults' \in {faults, faults + 1}
        /\ db'[n].retry = db[n].retry
        /\ n # m => db'[n] = db[n]
    BY <1>10, MarkEffect DEF batch
  <2>2. n = m => db[n].status # "absent"
    BY <1>s, <2>1 DEF BatchRow
  <2>3. Room(n)' >= Room(n) /\ Unsaved(n)' = Unsaved(n) /\ Unaccepted(n)' = Unaccepted(n)
    BY <1>r, <2>1 DEF Room, Sent, Unsaved, Unaccepted
  <2> QED BY <1>t, <1>u, <1>s, <2>1, <2>2, <2>3
<1> QED
  BY <1>1, <1>2, <1>3, <1>4, <1>5, <1>6, <1>7, <1>8, <1>9, <1>10 DEF Next, BatchDropped

LEMMA AttemptsInvariant == Spec => []AttemptsInv
BY BatchInvariant, AttemptsInit, AttemptsStep, PTL DEF Spec

(* The network never accepts more than MAX_NUMBER_OF_RETRIES transactions  *)
(* per delivery of a message, and one more per fault: the count survives   *)
(* batches that are partly sent, crashes and concurrent writes of the row. *)
THEOREM AttemptsAreBounded == Spec => []AttemptsBounded
<1>1. TypeInv /\ BatchInv /\ AttemptsInv => AttemptsBounded
  <2> SUFFICES ASSUME TypeInv, BatchInv, AttemptsInv, NEW n \in Messages
               PROVE  Sent(n) <= MaxRetries * intake[n] + faults
    BY DEF AttemptsBounded, Sent
  <2>1. BatchRow(n) /\ AttemptsRow(n)
    BY DEF BatchInv, AttemptsInv
  <2>2. /\ Sent(n) \in Nat /\ intake[n] \in Nat /\ faults \in Nat
        /\ Room(n) \in Int /\ db[n].retry \in 0 .. 3 /\ local[n].retry \in 0 .. 3
    BY RoomLemma
  <2>3. CASE db[n].status = "absent"
    <3>1. Sent(n) = 0
      BY <2>1, <2>3, EmptySeq DEF BatchRow, Sent
    <3> QED BY <2>2, <3>1 DEF MaxRetries
  <2>4. CASE db[n].status # "absent"
    <3>1. CASE pc = "update" /\ n \in toUpdate
      <4>1. Room(n) + local[n].retry >= 0
        BY <2>1, <3>1 DEF BatchRow, AttemptsRow, Unaccepted
      <4>2. Room(n) >= -3
        BY <2>2, <4>1
      <4> QED BY <2>2, <4>2 DEF Room, MaxRetries
    <3>2. CASE ~(pc = "update" /\ n \in toUpdate)
      <4>1. Unsaved(n) = 0
        BY <3>2 DEF Unsaved
      <4>2. Room(n) + db[n].retry + 0 >= 0
        BY <2>1, <2>4, <4>1 DEF AttemptsRow
      <4>3. Room(n) >= -3
        BY <2>2, <4>2
      <4> QED BY <2>2, <4>3 DEF Room, MaxRetries
    <3> QED BY <3>1, <3>2
  <2> QED BY <2>3, <2>4
<1> QED BY <1>1, BatchInvariant, AttemptsInvariant, PTL

------------------------------------------------------------------------------
(* The network, and the events it leaves for the gateway processor.        *)

HandlingInv == handling \subseteq events

Waiting(m) == \E i \in 1 .. Len(chain[m]) : chain[m][i].state = "pending"

(* A transaction that executes its message, see Executed.                  *)
Executes(tx, m) == tx.state = "success" /\ (Kind[m] = "deploy" => tx.value)

LEMMA UnsettledWaits ==
  ASSUME NEW m \in Messages
  PROVE  Unsettled(m) <=> m \in events \/ Waiting(m)
BY DEF Unsettled, Waiting

LEMMA KeptChain ==
  ASSUME NEW n \in Messages, chain'[n] = chain[n]
  PROVE  (Executed(n)' <=> Executed(n)) /\ (Waiting(n)' <=> Waiting(n))
BY DEF Executed, Waiting

LEMMA EmptyChain ==
  ASSUME NEW n \in Messages, chain[n] = <<>>
  PROVE  ~Executed(n) /\ ~Waiting(n)
<1>1. Len(chain[n]) = 0
  BY EmptySeq
<1> QED BY <1>1 DEF Executed, Waiting

(* A transaction the network accepts does not execute the message yet.     *)
LEMMA AcceptedIsPending ==
  ASSUME TypeInv, NEW S \in SUBSET Messages, Accept(S), NEW n \in Messages
  PROVE  /\ Executed(n)' => Executed(n)
         /\ n \notin S => chain'[n] = chain[n]
<1>1. /\ chain \in [Messages -> Seq(Tx)] /\ Len(chain[n]) \in Nat
  BY LenProperties DEF TypeInv, TypeOK
<1>2. n \notin S => chain'[n] = chain[n]
  BY DEF Accept
<1>3. ASSUME n \in S, Executed(n)' PROVE Executed(n)
  <2>1. /\ Len(chain'[n]) = Len(chain[n]) + 1
        /\ \A j \in 1 .. Len(chain[n]) : chain'[n][j] = chain[n][j]
        /\ chain'[n][Len(chain[n]) + 1].state = "pending"
    BY <1>1, <1>3, AcceptLemma
  <2>2. PICK i \in 1 .. Len(chain'[n]) : Executes(chain'[n][i], n)
    BY <1>3 DEF Executed, Executes
  <2>3. i # Len(chain[n]) + 1
    BY <2>1, <2>2 DEF Executes
  <2>4. i \in 1 .. Len(chain[n])
    BY <1>1, <2>1, <2>3
  <2>5. Executes(chain[n][i], n)
    BY <2>1, <2>2, <2>4
  <2> QED BY <2>4, <2>5 DEF Executed, Executes
<1> QED BY <1>2, <1>3, KeptChain

(* What the network decides: the fate of a pending transaction. A message  *)
(* becomes executed only together with its event.                          *)
LEMMA NetworkEffect ==
  ASSUME TypeInv, NEW m \in Messages, TxFails(m) \/ TxSucceeds(m), NEW n \in Messages
  PROVE  /\ UNCHANGED <<db, batch, handling, raced, reports, intake, faults, throws>>
         /\ events \subseteq events'
         /\ Unsettled(m)
         /\ n # m => chain'[n] = chain[n] /\ (n \in events' <=> n \in events)
         /\ Executed(n)' => Executed(n) \/ n \in events'
<1>1. PICK i \in 1 .. Len(chain[m]), s \in {"success", "failed"} :
        /\ Settle(m, i, s)
        /\ s = "success" => events' = IF Kind[m] # "deploy" \/ chain[m][i].value
                                      THEN events \cup {m} ELSE events
        /\ s = "failed" => events' = events
  BY DEF TxFails, TxSucceeds, gateway
<1>2. chain[m][i].state = "pending"
  BY <1>1 DEF Settle
<1>3. Unsettled(m)
  BY <1>2 DEF Unsettled
<1>4. \A k \in Messages : k # m => chain'[k] = chain[k]
  BY <1>1 DEF Settle
<1>5. /\ events \subseteq events' /\ events' \subseteq events \cup {m}
      /\ s = "success" /\ (Kind[m] # "deploy" \/ chain[m][i].value) => m \in events'
  BY <1>1
<1>6. ASSUME Executed(m)' PROVE Executed(m) \/ m \in events'
  <2>1. /\ Len(chain'[m]) = Len(chain[m])
        /\ \A j \in 1 .. Len(chain[m]) : chain'[m][j].value = chain[m][j].value
        /\ chain'[m][i].state = s
        /\ \A j \in 1 .. Len(chain[m]) : j # i => chain'[m][j] = chain[m][j]
    <3>1. chain \in [Messages -> Seq(Tx)]
      BY DEF TypeInv, TypeOK
    <3>2. \A j \in 1 .. Len(chain[m]) : j # i => chain'[m][j] = chain[m][j]
      BY <1>1, <3>1 DEF Settle
    <3> QED BY <1>1, <3>1, <3>2, SettleLemma
  <2>2. PICK j \in 1 .. Len(chain[m]) : Executes(chain'[m][j], m)
    BY <1>6, <2>1 DEF Executed, Executes
  <2>3. CASE j = i
    <3>1. s = "success"
      BY <2>1, <2>2, <2>3 DEF Executes
    <3>2. Kind[m] = "deploy" => chain[m][i].value
      BY <2>1, <2>2, <2>3 DEF Executes
    <3> QED BY <1>5, <3>1, <3>2
  <2>4. CASE j # i
    <3>1. Executes(chain[m][j], m)
      BY <2>1, <2>2, <2>4
    <3> QED BY <3>1 DEF Executed, Executes
  <2> QED BY <2>3, <2>4
<1>7. n # m => (Executed(n)' => Executed(n))
  BY <1>4, KeptChain
<1>8. UNCHANGED <<db, batch, handling, raced, reports, intake, faults, throws>>
  BY DEF TxFails, TxSucceeds, gateway
<1> QED BY <1>3, <1>4, <1>5, <1>6, <1>7, <1>8

LEMMA HandlingStep == TypeInv /\ HandlingInv /\ [Next]_vars => HandlingInv'
<1> SUFFICES ASSUME TypeInv, HandlingInv, [Next]_vars PROVE HandlingInv'
  OBVIOUS
<1> USE DEF HandlingInv
<1>1. CASE Fetch
  BY <1>1, FetchEffect
<1>2. CASE Send
  BY <1>2, SendEffect
<1>3. CASE SendNull
  BY <1>3 DEF SendNull, gateway
<1>4. CASE Update
  BY <1>4, UpdateEffect
<1>5. CASE BatchDropped
  BY <1>5, DropEffect
<1>6. ASSUME NEW m \in Messages, ExecuteTask(m) \/ Age(m) PROVE HandlingInv'
  BY <1>6, IntakeEffect, AgeEffect
<1>7. ASSUME NEW m \in Messages, GiveUp(m) \/ EmptyPayload(m) \/ NotEnoughGas(m)
      PROVE  HandlingInv'
  BY <1>7, FailEffect
<1>8. ASSUME NEW m \in Messages, BuildTx(m) PROVE HandlingInv'
  BY <1>8, BuildEffect
<1>9. ASSUME NEW m \in Messages, TxFails(m) \/ TxSucceeds(m) PROVE HandlingInv'
  BY <1>9, NetworkEffect
<1>10. ASSUME NEW m \in Messages, ExecutedEventRead(m) PROVE HandlingInv'
  BY <1>10 DEF ExecutedEventRead
<1>11. ASSUME NEW m \in Messages, ExecutedEventWrite(m) PROVE HandlingInv'
  BY <1>11, MarkEffect
<1>12. CASE UNCHANGED vars
  BY <1>12 DEF vars, gateway
<1> QED
  BY <1>1, <1>2, <1>3, <1>4, <1>5, <1>6, <1>7, <1>8, <1>9, <1>10, <1>11, <1>12
  DEF Next, BatchDropped

------------------------------------------------------------------------------
(* A message delivered once and never marked while the cron held a copy of *)
(* its row: its SUCCESS stays, since the cron copies PENDING rows only.    *)

Unraced(m) == intake[m] <= 1 /\ m \notin raced

KeptRow(m) ==
  /\ Executed(m) => m \in events \/ db[m].status = "SUCCESS"
  /\ db[m].status = "SUCCESS" => local[m].status = "absent"

KeptInv == \A m \in Messages : Unraced(m) => KeptRow(m)

LEMMA KeptInit == Init => KeptInv
<1> SUFFICES ASSUME Init, NEW n \in Messages PROVE KeptRow(n)
  BY DEF KeptInv
<1>1. chain[n] = <<>> /\ local[n].status = "absent"
  BY AbsentLemma DEF Init
<1> QED BY <1>1, EmptyChain DEF KeptRow

LEMMA KeptStep == TypeInv /\ BatchInv /\ KeptInv /\ [Next]_vars => KeptInv'
<1> SUFFICES ASSUME TypeInv, BatchInv, KeptInv, [Next]_vars, NEW n \in Messages, Unraced(n)'
             PROVE  KeptRow(n)'
  BY DEF KeptInv
<1>t. /\ intake[n] \in Nat /\ local[n] \in Row /\ db[n] \in Row
      /\ BatchShape /\ BatchRow(n)
  BY DEF TypeInv, TypeOK, BatchInv
<1>c. intake'[n] <= 1 /\ n \notin raced'
  BY DEF Unraced
<1>s. intake[n] <= 1 /\ n \notin raced => KeptRow(n)
  BY DEF KeptInv, Unraced
<1>k. chain'[n] = chain[n] => (Executed(n)' <=> Executed(n))
  BY KeptChain
<1>1. CASE Fetch
  <2>1. /\ UNCHANGED <<db, chain, events, raced, intake>>
        /\ n \in todo' => db[n].status = "PENDING"
        /\ local'[n] = IF n \in todo' THEN db[n] ELSE Absent
    BY <1>1, FetchEffect
  <2> QED BY <1>c, <1>s, <1>k, <2>1, AbsentLemma DEF KeptRow
<1>2. CASE Send
  <2>1. UNCHANGED <<db, events, raced, intake>> /\ local'[n].status = local[n].status
    BY <1>2, SendEffect
  <2>2. PICK S \in SUBSET built : Accept(S)
    BY <1>2, SendEffect
  <2>3. Executed(n)' => Executed(n)
    BY <2>2, AcceptedIsPending DEF TypeInv, TypeOK
  <2> QED BY <1>c, <1>s, <2>1, <2>3 DEF KeptRow
<1>3. CASE SendNull
  <2>1. UNCHANGED <<db, local, events, raced, intake>>
    BY <1>3 DEF SendNull, gateway
  <2>2. PICK S \in SUBSET built : Accept(S)
    BY <1>3 DEF SendNull
  <2>3. Executed(n)' => Executed(n)
    BY <2>2, AcceptedIsPending DEF TypeInv, TypeOK
  <2> QED BY <1>c, <1>s, <2>1, <2>3 DEF KeptRow
<1>4. CASE Update
  <2>1. /\ pc = "update" /\ local'[n].status = "absent"
        /\ UNCHANGED <<chain, events, raced, intake>>
        /\ n \notin toUpdate => db'[n] = db[n]
    BY <1>4, UpdateEffect, DropBatchType, AbsentLemma
  <2>2. n \in toUpdate => db[n].status # "SUCCESS"
    BY <1>t, <1>c, <1>s, <2>1 DEF BatchRow, KeptRow
  <2> QED BY <1>c, <1>s, <1>k, <2>1, <2>2 DEF KeptRow
<1>5. CASE BatchDropped
  <2>1. UNCHANGED <<db, chain, events, raced, intake>> /\ local'[n].status = "absent"
    BY <1>5, DropEffect, DropBatchType, AbsentLemma
  <2> QED BY <1>c, <1>s, <1>k, <2>1 DEF KeptRow
<1>6. ASSUME NEW m \in Messages, ExecuteTask(m) PROVE KeptRow(n)'
  <2>1. /\ UNCHANGED <<local, chain, events, raced>>
        /\ n # m => db'[n] = db[n] /\ intake'[n] = intake[n]
        /\ n = m => intake'[n] = intake[n] + 1 /\ db'[n].status = "PENDING"
    BY <1>6, IntakeEffect DEF batch
  <2>2. CASE n # m
    BY <1>c, <1>s, <1>k, <2>1, <2>2 DEF KeptRow
  <2>3. CASE n = m
    <3>1. chain[n] = <<>>
      BY <1>t, <1>c, <2>1, <2>3 DEF BatchRow
    <3> QED BY <1>k, <2>1, <2>3, <3>1, EmptyChain DEF KeptRow
  <2> QED BY <2>2, <2>3
<1>7. ASSUME NEW m \in Messages, Age(m) PROVE KeptRow(n)'
  <2>1. /\ UNCHANGED <<local, chain, events, raced, intake>>
        /\ db'[n].status = db[n].status
    BY <1>7, AgeEffect DEF batch
  <2> QED BY <1>c, <1>s, <1>k, <2>1 DEF KeptRow
<1>8. ASSUME NEW m \in Messages, GiveUp(m) \/ EmptyPayload(m) \/ NotEnoughGas(m)
      PROVE  KeptRow(n)'
  <2>1. /\ UNCHANGED <<db, chain, events, raced, intake>> /\ m \in todo /\ pc = "build"
        /\ n # m => local'[n] = local[n]
    BY <1>8, FailEffect
  <2>2. n = m => local[n].status # "absent"
    BY <1>t, <2>1 DEF BatchRow
  <2> QED BY <1>c, <1>s, <1>k, <2>1, <2>2 DEF KeptRow
<1>9. ASSUME NEW m \in Messages, BuildTx(m) PROVE KeptRow(n)'
  <2>1. /\ UNCHANGED <<db, chain, events, raced, intake>> /\ m \in Messages
        /\ local'[n].status = local[n].status
    BY <1>9, BuildEffect
  <2> QED BY <1>c, <1>s, <1>k, <2>1 DEF KeptRow
<1>10. ASSUME NEW m \in Messages, TxFails(m) \/ TxSucceeds(m) PROVE KeptRow(n)'
  <2>1. /\ UNCHANGED <<db, local, raced, intake>> /\ events \subseteq events'
        /\ Executed(n)' => Executed(n) \/ n \in events'
    BY <1>10, NetworkEffect DEF batch
  <2> QED BY <1>c, <1>s, <2>1 DEF KeptRow
<1>11. ASSUME NEW m \in Messages, ExecutedEventRead(m) PROVE KeptRow(n)'
  <2>1. UNCHANGED <<db, local, chain, events, raced, intake>>
    BY <1>11 DEF ExecutedEventRead, batch
  <2> QED BY <1>c, <1>s, <1>k, <2>1 DEF KeptRow
<1>12. ASSUME NEW m \in Messages, ExecutedEventWrite(m) PROVE KeptRow(n)'
  <2>1. /\ UNCHANGED <<local, chain, intake>> /\ raced \subseteq raced'
        /\ local[m].status # "absent" => m \in raced'
        /\ n # m => db'[n] = db[n] /\ (n \in events' <=> n \in events)
        /\ n = m => db'[n].status = "SUCCESS"
    BY <1>12, MarkEffect DEF batch, ExecutedEventWrite
  <2> QED BY <1>c, <1>s, <1>k, <2>1 DEF KeptRow
<1>13. CASE UNCHANGED vars
  <2>1. UNCHANGED <<db, local, chain, events, raced, intake>>
    BY <1>13 DEF vars, batch, gateway
  <2> QED BY <1>c, <1>s, <1>k, <2>1 DEF KeptRow
<1> QED
  BY <1>1, <1>2, <1>3, <1>4, <1>5, <1>6, <1>7, <1>8, <1>9, <1>10, <1>11, <1>12, <1>13
  DEF Next, BatchDropped

(* The SUCCESS that GatewayProcessor writes for a message delivered once   *)
(* stays, for every interleaving, fault and delay, unless it was written   *)
(* while the cron held a copy of the row: the cron copies PENDING rows     *)
(* only, and nothing else writes over a SUCCESS.                           *)
THEOREM SuccessesAreKept == Spec => []SuccessKeptUnlessRaced
<1>1. Spec => []KeptInv
  BY BatchInvariant, KeptInit, KeptStep, PTL DEF Spec
<1>2. KeptInv /\ TypeInv => SuccessKeptUnlessRaced
  BY DEF KeptInv, KeptRow, Unraced, SuccessKeptUnlessRaced
<1> QED BY <1>1, <1>2, BatchInvariant, PTL

------------------------------------------------------------------------------
(* A calm message: its transactions are settled and handled in the minute  *)
(* after an update, no batch was lost, its task was delivered once, and it *)
(* was not marked while the cron held a copy of its row.                   *)
(* The one minute of findPending then keeps the cron away from a message   *)
(* whose fate on the network is open or decided: a row it reads, or that   *)
(* it may read, is at rest, with no transaction pending or successful and  *)
(* no event to handle. A transaction it sends goes with a row that is then *)
(* written as recent.                                                      *)

Calm(m) == Timely /\ faults = 0 /\ throws = 0 /\ Unraced(m)

AtRest(m) == ~Unsettled(m) /\ ~Executed(m)

(* What findPending may select now, or after a minute without a write; and *)
(* the rows it never selects again.                                        *)
Due(row) == \/ row.status \in {"absent", "FAILED"}
            \/ row.status = "PENDING" /\ (row.retry = 0 \/ ~row.recent)

CalmRow(m) ==
  /\ Executed(m) => m \in events \/ db[m].status = "SUCCESS"
  /\ reports[m] > 0 => "FAILED" \in {db[m].status, local[m].status}
  /\ local[m].status # "absent" =>
       /\ db[m].status = "PENDING"
       /\ pc = "build" \/ local[m].status = "FAILED" => AtRest(m)
  /\ local[m].status = "PENDING" =>
       /\ pc = "build" => m \in todo \cup built
       /\ pc = "update" => m \in toUpdate /\ local[m].retry > 0
  /\ local[m].status = "absent" /\ Due(db[m]) => AtRest(m)

CalmInv == HandlingInv /\ \A m \in Messages : Calm(m) => CalmRow(m)

LEMMA CalmInit == Init => CalmInv
<1> SUFFICES ASSUME Init PROVE CalmInv
  OBVIOUS
<1>1. HandlingInv
  BY DEF Init, HandlingInv
<1>2. ASSUME NEW n \in Messages PROVE CalmRow(n)
  <2>1. chain[n] = <<>> /\ events = {} /\ reports[n] = 0 /\ local[n].status = "absent"
    BY AbsentLemma DEF Init
  <2>2. ~Executed(n) /\ AtRest(n)
    BY <2>1, EmptyChain, UnsettledWaits DEF AtRest
  <2> QED BY <2>1, <2>2 DEF CalmRow
<1> QED BY <1>1, <1>2 DEF CalmInv

LEMMA CalmStep == TypeInv /\ BatchInv /\ CalmInv /\ [Next]_vars => CalmInv'
<1> SUFFICES ASSUME TypeInv, BatchInv, CalmInv, [Next]_vars PROVE CalmInv'
  OBVIOUS
<1>h. HandlingInv'
  BY HandlingStep DEF CalmInv
<1> SUFFICES ASSUME NEW n \in Messages, Calm(n)' PROVE CalmRow(n)'
  BY <1>h DEF CalmInv
<1>t. /\ intake[n] \in Nat /\ reports[n] \in Nat /\ faults \in Nat /\ throws \in Nat
      /\ local[n] \in Row /\ db[n] \in Row
  BY DEF TypeInv, TypeOK
<1>s. /\ BatchShape /\ BatchRow(n) /\ HandlingInv
      /\ Calm(n) => CalmRow(n)
  BY DEF BatchInv, CalmInv
<1>c. Timely /\ faults' = 0 /\ throws' = 0 /\ intake'[n] <= 1 /\ n \notin raced'
  BY DEF Calm, Unraced
<1>k. /\ chain'[n] = chain[n] => (Executed(n)' <=> Executed(n)) /\ (Waiting(n)' <=> Waiting(n))
      /\ AtRest(n) <=> n \notin events /\ ~Waiting(n) /\ ~Executed(n)
      /\ AtRest(n)' <=> n \notin events' /\ ~Waiting(n)' /\ ~Executed(n)'
  <2>1. Unsettled(n)' <=> n \in events' \/ Waiting(n)'
    BY DEF Unsettled, Waiting
  <2> QED BY <2>1, KeptChain, UnsettledWaits DEF AtRest
<1>1. CASE Fetch
  <2>1. /\ pc = "fetch" /\ pc' = "build" /\ built' = {} /\ toUpdate' = {}
        /\ UNCHANGED <<db, chain, events, handling, raced, reports, intake, faults, throws>>
        /\ local'[n] = IF n \in todo' THEN db[n] ELSE Absent
    BY <1>1, FetchEffect
  <2>2. n \in todo' => db[n].status = "PENDING" /\ Due(db[n])
    BY <1>1 DEF Fetch, Page, Eligible, Due
  <2>3. local[n].status = "absent" /\ CalmRow(n)
    BY <1>s, <1>c, <2>1 DEF BatchRow, Calm, Unraced
  <2>4. local'[n].status = IF n \in todo' THEN "PENDING" ELSE "absent"
    BY <2>1, <2>2, AbsentLemma
  <2>5. n \in todo' => AtRest(n)
    BY <2>2, <2>3 DEF CalmRow
  <2> QED BY <1>k, <2>1, <2>2, <2>3, <2>4, <2>5 DEF CalmRow
<1>2. CASE Send
  <2>1. /\ pc = "build" /\ pc' = "update" /\ todo = {} /\ toUpdate' = toUpdate \cup built
        /\ UNCHANGED <<db, built, events, handling, raced, reports, intake, throws>>
    BY <1>2, SendEffect
  <2>2. PICK S \in SUBSET built :
          /\ faults' = IF S = built THEN faults ELSE faults + 1
          /\ Accept(S)
          /\ \A m \in Messages : m \notin built \ S => local'[m] = local[m]
    BY <1>2, SendEffect
  <2>3. S = built /\ faults' = faults
    BY <1>t, <1>c, <2>2
  <2>4. local'[n] = local[n] /\ CalmRow(n)
    BY <1>s, <1>c, <2>1, <2>2, <2>3 DEF Calm, Unraced
  <2>5. (Executed(n)' => Executed(n)) /\ (n \notin built => chain'[n] = chain[n])
    BY <2>2, <2>3, AcceptedIsPending DEF TypeInv, TypeOK
  <2>6. n \in built => local[n].status = "PENDING" /\ local[n].retry > 0
    BY <1>s DEF BatchRow, TypeInv, BuiltCounted
  <2> QED BY <1>k, <2>1, <2>4, <2>5, <2>6 DEF CalmRow
<1>3. CASE SendNull
  BY <1>3, <1>t, <1>c DEF SendNull, Fault
<1>4. CASE Update
  <2>1. /\ pc = "update" /\ pc' = "fetch" /\ local'[n].status = "absent"
        /\ UNCHANGED <<chain, events, handling, raced, reports, intake, faults, throws>>
    BY <1>4, UpdateEffect, DropBatchType, AbsentLemma
  <2>2. CalmRow(n)
    BY <1>s, <1>c, <2>1 DEF Calm, Unraced
  <2>3. CASE n \in toUpdate
    <3>1. /\ db'[n].status = local[n].status /\ db'[n].retry = local[n].retry
          /\ db'[n].recent = TRUE
      BY <1>4, <2>3, UpdateEffect
    <3>2. local[n].status \in {"PENDING", "FAILED"}
      BY <1>s, <2>3 DEF BatchRow
    <3>3. Executed(n)' => n \in events'
      BY <1>k, <2>1, <2>2, <3>2 DEF CalmRow
    <3>4. reports'[n] > 0 => db'[n].status = "FAILED"
      BY <2>1, <2>2, <3>1, <3>2 DEF CalmRow
    <3>5. ASSUME Due(db'[n]) PROVE AtRest(n)'
      <4>1. local[n].status = "FAILED"
        BY <1>t, <2>1, <2>2, <3>1, <3>2, <3>5 DEF CalmRow, Due, Row
      <4> QED BY <1>k, <2>1, <2>2, <4>1 DEF CalmRow
    <3> QED BY <2>1, <3>3, <3>4, <3>5 DEF CalmRow
  <2>4. CASE n \notin toUpdate
    <3>1. db'[n] = db[n]
      BY <1>4, <2>4, UpdateEffect
    <3>2. local[n].status = "absent"
      BY <1>s, <2>1, <2>2, <2>4 DEF BatchRow, CalmRow
    <3> QED BY <1>k, <2>1, <2>2, <3>1, <3>2 DEF CalmRow
  <2> QED BY <2>3, <2>4
<1>5. CASE BatchDropped
  BY <1>5, <1>t, <1>c, DropEffect
<1>6. ASSUME NEW m \in Messages, ExecuteTask(m) PROVE CalmRow(n)'
  <2>1. /\ UNCHANGED <<pc, todo, local, built, toUpdate, chain, events, handling, raced, reports, faults, throws>>
        /\ n # m => db'[n] = db[n] /\ intake'[n] = intake[n]
        /\ n = m => intake'[n] = intake[n] + 1
    BY <1>6, IntakeEffect DEF batch
  <2>2. CalmRow(n)
    BY <1>s, <1>t, <1>c, <2>1 DEF Calm, Unraced
  <2>3. CASE n # m
    BY <1>k, <2>1, <2>2, <2>3 DEF CalmRow
  <2>4. CASE n = m
    <3>1. db[n].status = "absent"
      BY <1>s, <1>t, <1>c, <2>1, <2>4 DEF BatchRow
    <3>2. local[n].status = "absent" /\ AtRest(n)
      BY <1>s, <2>2, <3>1 DEF BatchRow, CalmRow, Due
    <3>3. ~(reports[n] > 0)
      BY <2>2, <3>1, <3>2 DEF CalmRow
    <3> QED BY <1>k, <2>1, <3>2, <3>3 DEF CalmRow
  <2> QED BY <2>3, <2>4
<1>7. ASSUME NEW m \in Messages, Age(m) PROVE CalmRow(n)'
  <2>1. /\ UNCHANGED <<pc, todo, local, built, toUpdate, chain, events, handling, raced, reports, intake, faults, throws>>
        /\ n # m => db'[n] = db[n]
        /\ n = m => ~Unsettled(n) /\ db[n].status = "PENDING"
        /\ db'[n].status = db[n].status
    BY <1>7, <1>c, AgeEffect DEF batch, Age
  <2>2. CalmRow(n)
    BY <1>s, <1>c, <2>1 DEF Calm, Unraced
  <2>3. CASE n # m
    BY <1>k, <2>1, <2>2, <2>3 DEF CalmRow
  <2>4. CASE n = m
    <3>1. AtRest(n)
      BY <2>1, <2>2, <2>4, UnsettledWaits DEF CalmRow, AtRest
    <3> QED BY <1>k, <2>1, <2>2, <3>1 DEF CalmRow
  <2> QED BY <2>3, <2>4
<1>8. ASSUME NEW m \in Messages, GiveUp(m) \/ EmptyPayload(m) \/ NotEnoughGas(m)
      PROVE  CalmRow(n)'
  <2>1. /\ pc = "build" /\ m \in todo /\ todo' = todo \ {m} /\ toUpdate' = toUpdate \cup {m}
        /\ UNCHANGED <<db, pc, built, chain, events, handling, raced, intake, faults, throws>>
        /\ n # m => local'[n] = local[n] /\ reports'[n] = reports[n]
        /\ n = m => local'[n].status = "FAILED"
    BY <1>8, FailEffect
  <2>2. CalmRow(n)
    BY <1>s, <1>c, <2>1 DEF Calm, Unraced
  <2>3. CASE n # m
    BY <1>k, <2>1, <2>2, <2>3 DEF CalmRow
  <2>4. CASE n = m
    <3>1. local[n].status = "PENDING"
      BY <1>s, <2>1, <2>4 DEF BatchRow
    <3>2. db[n].status = "PENDING" /\ AtRest(n)
      BY <2>1, <2>2, <3>1 DEF CalmRow
    <3> QED BY <1>k, <2>1, <2>4, <3>2 DEF CalmRow
  <2> QED BY <2>3, <2>4
<1>9. ASSUME NEW m \in Messages, BuildTx(m) PROVE CalmRow(n)'
  <2>1. /\ pc = "build" /\ m \in todo /\ todo' = todo \ {m} /\ built' = built \cup {m}
        /\ UNCHANGED <<db, pc, toUpdate, chain, events, handling, raced, reports, intake, faults, throws>>
        /\ local'[n].status = local[n].status
    BY <1>9, BuildEffect
  <2>2. CalmRow(n)
    BY <1>s, <1>c, <2>1 DEF Calm, Unraced
  <2> QED BY <1>k, <2>1, <2>2 DEF CalmRow
<1>10. ASSUME NEW m \in Messages, TxFails(m) \/ TxSucceeds(m) PROVE CalmRow(n)'
  <2>1. /\ UNCHANGED <<db, pc, todo, local, built, toUpdate, handling, raced, reports, intake, faults, throws>>
        /\ events \subseteq events' /\ Unsettled(m)
        /\ n # m => chain'[n] = chain[n] /\ (n \in events' <=> n \in events)
        /\ Executed(n)' => Executed(n) \/ n \in events'
    BY <1>10, NetworkEffect DEF batch
  <2>2. CalmRow(n)
    BY <1>s, <1>c, <2>1 DEF Calm, Unraced
  <2>3. AtRest(n) => AtRest(n)'
    BY <1>k, <2>1 DEF AtRest
  <2> QED BY <2>1, <2>2, <2>3 DEF CalmRow
<1>11. ASSUME NEW m \in Messages, ExecutedEventRead(m) PROVE CalmRow(n)'
  <2>1. /\ UNCHANGED <<db, pc, todo, local, built, toUpdate, chain, events, raced, reports, intake, faults, throws>>
    BY <1>11 DEF ExecutedEventRead, batch
  <2>2. CalmRow(n)
    BY <1>s, <1>c, <2>1 DEF Calm, Unraced
  <2> QED BY <1>k, <2>1, <2>2 DEF CalmRow
<1>12. ASSUME NEW m \in Messages, ExecutedEventWrite(m) PROVE CalmRow(n)'
  <2>1. /\ UNCHANGED <<pc, todo, local, built, toUpdate, chain, reports, intake>>
        /\ m \in handling /\ handling' = {} /\ events' \subseteq events
        /\ raced \subseteq raced' /\ (local[m].status # "absent" => m \in raced')
        /\ faults' \in {faults, faults + 1} /\ throws' = throws
        /\ n # m => db'[n] = db[n]
        /\ n = m => db'[n].status = "SUCCESS"
    BY <1>12, MarkEffect DEF batch
  <2>2. n # m => (n \in events' <=> n \in events)
    BY <1>12 DEF ExecutedEventWrite
  <2>3. CalmRow(n)
    BY <1>s, <1>t, <1>c, <2>1 DEF Calm, Unraced
  <2>4. CASE n # m
    BY <1>k, <2>1, <2>2, <2>3, <2>4 DEF CalmRow
  <2>5. CASE n = m
    <3>1. local[n].status = "absent"
      BY <1>c, <2>1, <2>5
    <3>2. ~(reports[n] > 0)
      BY <1>s, <1>k, <2>1, <2>3, <2>5, <3>1 DEF CalmRow, Due, HandlingInv
    <3>3. ~Due(db'[n])
      BY <2>1, <2>5 DEF Due
    <3> QED BY <2>1, <2>5, <3>1, <3>2, <3>3 DEF CalmRow
  <2> QED BY <2>4, <2>5
<1>13. CASE UNCHANGED vars
  <2>1. UNCHANGED <<db, pc, todo, local, built, toUpdate, chain, events, handling, raced, reports, intake, faults, throws>>
    BY <1>13 DEF vars, batch, gateway
  <2>2. CalmRow(n)
    BY <1>s, <1>c, <2>1 DEF Calm, Unraced
  <2> QED BY <1>k, <2>1, <2>2 DEF CalmRow
<1> QED
  BY <1>1, <1>2, <1>3, <1>4, <1>5, <1>6, <1>7, <1>8, <1>9, <1>10, <1>11, <1>12, <1>13
  DEF Next, BatchDropped

LEMMA CalmInvariant == Spec => []CalmInv
BY BatchInvariant, CalmInit, CalmStep, PTL DEF Spec

LEMMA CalmMessages ==
  CalmInv => \A m \in Messages :
    Timely /\ faults + throws = 0 /\ intake[m] = 1 /\ m \notin raced /\ TypeOK => CalmRow(m)
<1> SUFFICES ASSUME CalmInv, TypeOK, NEW m \in Messages, m \notin raced,
                    Timely, faults + throws = 0, intake[m] = 1
             PROVE  CalmRow(m)
  OBVIOUS
<1>1. faults = 0 /\ throws = 0
  BY DEF TypeOK
<1> QED BY <1>1 DEF CalmInv, Calm, Unraced

(* When transactions are settled and their events handled within the       *)
(* minute of findPending, no batch is lost and a message is delivered      *)
(* once, CANNOT_EXECUTE_MESSAGE is posted for a message that the network   *)
(* executed only if its SUCCESS was written while the cron held a copy of  *)
(* the row: otherwise the cron gives up only a row it could select, and    *)
(* such a row has no transaction that is pending or that succeeded.        *)
THEOREM ReportedAreNotExecuted == Spec => []ReportedIsNotExecuted
<1>1. CalmInv /\ TypeInv /\ BatchInv => ReportedIsNotExecuted
  <2> SUFFICES ASSUME CalmInv, TypeInv, BatchInv, NEW m \in Messages, m \notin raced,
                      Timely, faults + throws = 0, intake[m] = 1, reports[m] > 0
               PROVE  ~Executed(m)
    BY DEF ReportedIsNotExecuted
  <2>1. CalmRow(m)
    BY CalmMessages DEF TypeInv
  <2>2. CASE local[m].status = "absent"
    <3>1. db[m].status = "FAILED"
      BY <2>1, <2>2 DEF CalmRow
    <3> QED BY <2>1, <2>2, <3>1 DEF CalmRow, Due, AtRest
  <2>3. CASE local[m].status # "absent"
    <3>1. local[m].status = "FAILED"
      BY <2>1, <2>3 DEF CalmRow
    <3> QED BY <2>1, <2>3, <3>1 DEF CalmRow, AtRest
  <2> QED BY <2>2, <2>3
<1> QED BY <1>1, BatchInvariant, CalmInvariant, PTL
==============================================================================
