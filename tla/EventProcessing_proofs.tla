---------------------- MODULE EventProcessing_proofs ----------------------
(***************************************************************************)
(* Proofs about EventProcessing for every set of events and workers and    *)
(* every bound: type correctness (and with it the attempt budget), that a  *)
(* detection counts once per time it was not overwritten, and that no      *)
(* event stops being retried without a dead-letter audit.                  *)
(***************************************************************************)
EXTENDS EventProcessing, TLAPS

\* A row that no worker has claimed since it was created or reset.
FreshRows ==
  \A e \in Event : /\ state[e] \in {"ABSENT", "PENDING"} => attempts[e] = 0
                   /\ state[e] = "ABSENT" => overwritten[e] = 0

\* A worker that publishes or fails does so for a row.
RowsInHand == \A w \in Worker : pc[w] \in {"publish", "fail"} => cur[w] \in Row

\* Every committed detection is the one the row shows, or was overwritten.
CountExact ==
  \A e \in Event : applied[e] = overwritten[e] + (IF state[e] = "COMPLETED" THEN 1 ELSE 0)

IInv == TypeOK /\ FreshRows /\ RowsInHand /\ CountExact /\ StoppedOnlyWithAudit

LEMMA InvariantInit == Init => IInv
BY EventAssumption
   DEF Init, IInv, TypeOK, FreshRows, RowsInHand, CountExact, StoppedOnlyWithAudit, EventAssumption

LEMMA InvariantNext == IInv /\ [Next]_vars => IInv'
<1> SUFFICES ASSUME IInv, [Next]_vars PROVE IInv'
  OBVIOUS
<1> USE EventAssumption DEF EventAssumption, vars, events, thread, bounds, IInv, Goto
<1>1. CASE UNCHANGED vars
  BY <1>1 DEF TypeOK, FreshRows, RowsInHand, CountExact, StoppedOnlyWithAudit
<1>2. ASSUME NEW e \in Event, Receive(e) PROVE IInv'
  <2>1. TypeOK'
    BY <1>2 DEF Receive, TypeOK, FreshRows, RowsInHand
  <2>2. FreshRows' /\ RowsInHand'
    BY <1>2 DEF Receive, TypeOK, FreshRows, RowsInHand
  <2>3. CountExact' /\ StoppedOnlyWithAudit'
    BY <1>2 DEF Receive, TypeOK, FreshRows, RowsInHand, CountExact,
      StoppedOnlyWithAudit
  <2> QED BY <2>1, <2>2, <2>3
<1>3. ASSUME NEW e \in Event, ReceiveEvidence(e) PROVE IInv'
  <2>1. TypeOK'
    BY <1>3 DEF ReceiveEvidence, TypeOK, FreshRows, RowsInHand
  <2>2. FreshRows' /\ RowsInHand'
    BY <1>3 DEF ReceiveEvidence, TypeOK, FreshRows, RowsInHand
  <2>3. CountExact' /\ StoppedOnlyWithAudit'
    BY <1>3 DEF ReceiveEvidence, TypeOK, FreshRows, RowsInHand, CountExact,
      StoppedOnlyWithAudit
  <2> QED BY <2>1, <2>2, <2>3
<1>4. ASSUME NEW e \in Event, OperatorRetry(e) PROVE IInv'
  <2>1. TypeOK'
    BY <1>4 DEF OperatorRetry, TypeOK, FreshRows, RowsInHand
  <2>2. FreshRows' /\ RowsInHand'
    BY <1>4 DEF OperatorRetry, TypeOK, FreshRows, RowsInHand
  <2>3. CountExact' /\ StoppedOnlyWithAudit'
    BY <1>4 DEF OperatorRetry, TypeOK, FreshRows, RowsInHand, CountExact,
      StoppedOnlyWithAudit
  <2> QED BY <2>1, <2>2, <2>3
<1>5. ASSUME NEW e \in Event, RetryComesDue(e) PROVE IInv'
  <2>1. TypeOK'
    BY <1>5 DEF RetryComesDue, TypeOK, FreshRows, RowsInHand
  <2>2. FreshRows' /\ RowsInHand'
    BY <1>5 DEF RetryComesDue, TypeOK, FreshRows, RowsInHand
  <2>3. CountExact' /\ StoppedOnlyWithAudit'
    BY <1>5 DEF RetryComesDue, TypeOK, FreshRows, RowsInHand, CountExact,
      StoppedOnlyWithAudit
  <2> QED BY <2>1, <2>2, <2>3
<1>6. ASSUME NEW w \in Worker, RecoverPublications(w) PROVE IInv'
  <2>1. TypeOK'
    BY <1>6 DEF RecoverPublications, TypeOK, FreshRows, RowsInHand
  <2>2. FreshRows' /\ RowsInHand'
    BY <1>6 DEF RecoverPublications, TypeOK, FreshRows, RowsInHand
  <2>3. CountExact' /\ StoppedOnlyWithAudit'
    BY <1>6 DEF RecoverPublications, TypeOK, FreshRows, RowsInHand, CountExact,
      StoppedOnlyWithAudit
  <2> QED BY <2>1, <2>2, <2>3
<1>7. ASSUME NEW w \in Worker, Claim(w) PROVE IInv'
  <2>1. TypeOK'
    BY <1>7 DEF Claim, Candidates, Row, TypeOK, FreshRows, RowsInHand
  <2>2. FreshRows' /\ RowsInHand'
    BY <1>7 DEF Claim, Candidates, Row, TypeOK, FreshRows, RowsInHand
  <2>3. CountExact' /\ StoppedOnlyWithAudit'
    BY <1>7 DEF Claim, Candidates, Row, TypeOK, FreshRows, RowsInHand, CountExact,
      StoppedOnlyWithAudit
  <2> QED BY <2>1, <2>2, <2>3
<1>8. ASSUME NEW w \in Worker, NEW r \in batch[w], AlreadyCompleted(w, r) PROVE IInv'
  <2>1. TypeOK'
    BY <1>8 DEF AlreadyCompleted, TakeRow, TypeOK, FreshRows, RowsInHand
  <2>2. FreshRows' /\ RowsInHand'
    BY <1>8 DEF AlreadyCompleted, TakeRow, TypeOK, FreshRows, RowsInHand
  <2>3. CountExact' /\ StoppedOnlyWithAudit'
    BY <1>8 DEF AlreadyCompleted, TakeRow, TypeOK, FreshRows, RowsInHand,
      CountExact, StoppedOnlyWithAudit
  <2> QED BY <2>1, <2>2, <2>3
<1>9. ASSUME NEW w \in Worker, NEW r \in batch[w], Detect(w, r) PROVE IInv'
  <2>1. TypeOK'
    BY <1>9 DEF Detect, TakeRow, Row, TypeOK, FreshRows, RowsInHand
  <2>2. FreshRows' /\ RowsInHand'
    BY <1>9 DEF Detect, TakeRow, Row, TypeOK, FreshRows, RowsInHand
  <2>3. CountExact' /\ StoppedOnlyWithAudit'
    BY <1>9 DEF Detect, TakeRow, Row, TypeOK, FreshRows, RowsInHand, CountExact,
      StoppedOnlyWithAudit
  <2> QED BY <2>1, <2>2, <2>3
<1>10. ASSUME NEW w \in Worker, NEW r \in batch[w], DetectFails(w, r) PROVE IInv'
  <2>1. TypeOK'
    BY <1>10 DEF DetectFails, TakeRow, TypeOK, FreshRows, RowsInHand
  <2>2. FreshRows' /\ RowsInHand'
    BY <1>10 DEF DetectFails, TakeRow, TypeOK, FreshRows, RowsInHand
  <2>3. CountExact' /\ StoppedOnlyWithAudit'
    BY <1>10 DEF DetectFails, TakeRow, TypeOK, FreshRows, RowsInHand, CountExact,
      StoppedOnlyWithAudit
  <2> QED BY <2>1, <2>2, <2>3
<1>11. ASSUME NEW w \in Worker, Publish(w) PROVE IInv'
  <2>1. TypeOK'
    BY <1>11 DEF Publish, TypeOK, FreshRows, RowsInHand
  <2>2. FreshRows' /\ RowsInHand'
    BY <1>11 DEF Publish, TypeOK, FreshRows, RowsInHand
  <2>3. CountExact' /\ StoppedOnlyWithAudit'
    BY <1>11 DEF Publish, TypeOK, FreshRows, RowsInHand, CountExact,
      StoppedOnlyWithAudit
  <2> QED BY <2>1, <2>2, <2>3
<1>12. ASSUME NEW w \in Worker, PublishFails(w) PROVE IInv'
  <2>1. TypeOK'
    BY <1>12 DEF PublishFails, TypeOK, FreshRows, RowsInHand
  <2>2. FreshRows' /\ RowsInHand'
    BY <1>12 DEF PublishFails, TypeOK, FreshRows, RowsInHand
  <2>3. CountExact' /\ StoppedOnlyWithAudit'
    BY <1>12 DEF PublishFails, TypeOK, FreshRows, RowsInHand, CountExact,
      StoppedOnlyWithAudit
  <2> QED BY <2>1, <2>2, <2>3
<1>13. ASSUME NEW w \in Worker, RecordFailure(w) PROVE IInv'
  <2>1. TypeOK'
    BY <1>13 DEF RecordFailure, Row, TypeOK, FreshRows, RowsInHand
  <2>2. FreshRows' /\ RowsInHand'
    BY <1>13 DEF RecordFailure, Row, TypeOK, FreshRows, RowsInHand
  <2>3. CountExact' /\ StoppedOnlyWithAudit'
    BY <1>13 DEF RecordFailure, Row, TypeOK, FreshRows, RowsInHand, CountExact,
      StoppedOnlyWithAudit
  <2> QED BY <2>1, <2>2, <2>3
<1>14. ASSUME NEW w \in Worker, EndBatch(w) PROVE IInv'
  <2>1. TypeOK'
    BY <1>14 DEF EndBatch, TypeOK, FreshRows, RowsInHand
  <2>2. FreshRows' /\ RowsInHand'
    BY <1>14 DEF EndBatch, TypeOK, FreshRows, RowsInHand
  <2>3. CountExact' /\ StoppedOnlyWithAudit'
    BY <1>14 DEF EndBatch, TypeOK, FreshRows, RowsInHand, CountExact,
      StoppedOnlyWithAudit
  <2> QED BY <2>1, <2>2, <2>3
<1>15. ASSUME NEW w \in Worker, Housekeep(w) PROVE IInv'
  <2>1. TypeOK'
    BY <1>15 DEF Housekeep, TypeOK, FreshRows, RowsInHand
  <2>2. FreshRows' /\ RowsInHand'
    BY <1>15 DEF Housekeep, TypeOK, FreshRows, RowsInHand
  <2>3. CountExact' /\ StoppedOnlyWithAudit'
    BY <1>15 DEF Housekeep, TypeOK, FreshRows, RowsInHand, CountExact,
      StoppedOnlyWithAudit
  <2> QED BY <2>1, <2>2, <2>3
<1>16. ASSUME NEW w \in Worker, CycleFails(w) PROVE IInv'
  <2>1. TypeOK'
    BY <1>16 DEF CycleFails, TypeOK, FreshRows, RowsInHand
  <2>2. FreshRows' /\ RowsInHand'
    BY <1>16 DEF CycleFails, TypeOK, FreshRows, RowsInHand
  <2>3. CountExact' /\ StoppedOnlyWithAudit'
    BY <1>16 DEF CycleFails, TypeOK, FreshRows, RowsInHand, CountExact,
      StoppedOnlyWithAudit
  <2> QED BY <2>1, <2>2, <2>3
<1>17. ASSUME NEW w \in Worker, Restart(w) PROVE IInv'
  <2>1. TypeOK'
    BY <1>17 DEF Restart, TypeOK, FreshRows, RowsInHand
  <2>2. FreshRows' /\ RowsInHand'
    BY <1>17 DEF Restart, TypeOK, FreshRows, RowsInHand
  <2>3. CountExact' /\ StoppedOnlyWithAudit'
    BY <1>17 DEF Restart, TypeOK, FreshRows, RowsInHand, CountExact,
      StoppedOnlyWithAudit
  <2> QED BY <2>1, <2>2, <2>3
<1>18. ASSUME NEW w \in Worker, NoteFailure(w) PROVE IInv'
  <2>1. TypeOK'
    BY <1>18 DEF NoteFailure, TypeOK, FreshRows, RowsInHand
  <2>2. FreshRows' /\ RowsInHand'
    BY <1>18 DEF NoteFailure, TypeOK, FreshRows, RowsInHand
  <2>3. CountExact' /\ StoppedOnlyWithAudit'
    BY <1>18 DEF NoteFailure, TypeOK, FreshRows, RowsInHand, CountExact,
      StoppedOnlyWithAudit
  <2> QED BY <2>1, <2>2, <2>3
<1> QED
  BY <1>1, <1>2, <1>3, <1>4, <1>5, <1>6, <1>7, <1>8, <1>9, <1>10, <1>11, <1>12,
    <1>13, <1>14, <1>15, <1>16, <1>17, <1>18
  DEF Next, WorkerNext

THEOREM Invariant == Spec => []IInv
BY InvariantInit, InvariantNext, PTL DEF Spec

\* Every variable keeps its type; no row exceeds its attempt budget.
THEOREM TypeCorrect == Spec => []TypeOK
<1>1. IInv => TypeOK
  BY DEF IInv
<1> QED BY <1>1, Invariant, PTL

\* A detection is counted once, and once more for every time its row was
\* overwritten after it had committed.
THEOREM DetectionCountedOnce == Spec => []CountedOnce
<1>1. IInv => CountedOnce
  BY DEF IInv, CountExact, CountedOnce, TypeOK
<1> QED BY <1>1, Invariant, PTL

\* No event stops being retried silently.
THEOREM StopsWithAudit == Spec => []StoppedOnlyWithAudit
<1>1. IInv => StoppedOnlyWithAudit
  BY DEF IInv
<1> QED BY <1>1, Invariant, PTL

---------------------------------------------------------------------------
(* The table implements the work queue *)

\* Whatever a worker holds is the row of an event that was received.
RowsReceived ==
  \A w \in Worker : /\ \A r \in batch[w] : state[r.event] # "ABSENT"
                    /\ cur[w] \in Row => state[cur[w].event] # "ABSENT"

QueueInv == IInv /\ RowsReceived

LEMMA ReceivedInit == Init => RowsReceived
BY EventAssumption DEF Init, RowsReceived, EventAssumption

\* A received event stays received.
LEMMA StaysReceived ==
  ASSUME IInv, [Next]_vars, NEW e \in Event, state[e] # "ABSENT"
  PROVE  state'[e] # "ABSENT"
<1> USE DEF vars, events, thread, bounds, IInv, TypeOK
<1>1. CASE UNCHANGED vars
  BY <1>1
<1>2. CASE \E d \in Event : \/ Receive(d) \/ ReceiveEvidence(d) \/ OperatorRetry(d)
                            \/ RetryComesDue(d)
  BY <1>2 DEF Receive, ReceiveEvidence, OperatorRetry, RetryComesDue
<1>3. CASE \E w \in Worker : \/ Claim(w) \/ RecordFailure(w) \/ Restart(w)
                             \/ \E r \in batch[w] : Detect(w, r)
  BY <1>3 DEF Claim, RecordFailure, Restart, Detect
<1>4. CASE \E w \in Worker : \/ RecoverPublications(w) \/ EndBatch(w) \/ Housekeep(w)
                             \/ Publish(w) \/ NoteFailure(w) \/ PublishFails(w) \/ CycleFails(w)
                             \/ \E r \in batch[w] : AlreadyCompleted(w, r) \/ DetectFails(w, r)
  BY <1>4 DEF RecoverPublications, EndBatch, Housekeep, Publish, NoteFailure, PublishFails,
    CycleFails, AlreadyCompleted, DetectFails
<1> QED
  BY <1>1, <1>2, <1>3, <1>4 DEF Next, WorkerNext

\* The rows a worker holds after a step are ones it held before, or ones it
\* has just claimed.
LEMMA HeldRows ==
  ASSUME IInv, [Next]_vars, NEW w \in Worker
  PROVE  /\ \A r \in batch'[w] : r \in batch[w] \/ r.event \in Candidates
         /\ cur'[w] \in Row => cur'[w] = cur[w] \/ cur'[w] \in batch[w]
<1> USE EventAssumption DEF EventAssumption, vars, events, thread, bounds, IInv, TypeOK
<1>1. CASE UNCHANGED vars
  BY <1>1
<1>2. CASE \E d \in Event : \/ Receive(d) \/ ReceiveEvidence(d) \/ OperatorRetry(d)
                            \/ RetryComesDue(d)
  BY <1>2 DEF Receive, ReceiveEvidence, OperatorRetry, RetryComesDue
<1>3. ASSUME NEW v \in Worker, Claim(v)
      PROVE  /\ \A r \in batch'[w] : r \in batch[w] \/ r.event \in Candidates
             /\ cur'[w] = cur[w]
  <2>1. PICK C \in SUBSET Candidates :
          batch' = [batch EXCEPT ![v] = {[event |-> e, attempt |-> attempts[e] + 1] : e \in C}]
    BY <1>3 DEF Claim
  <2> QED BY <1>3, <2>1 DEF Claim
<1>4. ASSUME NEW v \in Worker, NEW r \in batch[v],
             AlreadyCompleted(v, r) \/ Detect(v, r) \/ DetectFails(v, r)
      PROVE  /\ batch'[w] \subseteq batch[w]
             /\ cur'[w] \in Row => cur'[w] = cur[w] \/ cur'[w] \in batch[w]
  BY <1>4 DEF AlreadyCompleted, Detect, DetectFails, TakeRow
<1>5. ASSUME NEW v \in Worker, \/ RecoverPublications(v) \/ EndBatch(v) \/ Housekeep(v)
                               \/ Publish(v) \/ NoteFailure(v) \/ PublishFails(v)
                               \/ RecordFailure(v) \/ CycleFails(v) \/ Restart(v)
      PROVE  /\ batch'[w] \subseteq batch[w]
             /\ cur'[w] \in Row => cur'[w] = cur[w]
  BY <1>5 DEF RecoverPublications, EndBatch, Housekeep, Publish, NoteFailure, PublishFails,
    RecordFailure, CycleFails, Restart
<1> QED
  BY <1>1, <1>2, <1>3, <1>4, <1>5 DEF Next, WorkerNext

LEMMA ReceivedNext == QueueInv /\ [Next]_vars => RowsReceived'
<1> SUFFICES ASSUME QueueInv, [Next]_vars, NEW w \in Worker
             PROVE  /\ \A r \in batch'[w] : state'[r.event] # "ABSENT"
                    /\ cur'[w] \in Row => state'[cur'[w].event] # "ABSENT"
  BY DEF RowsReceived
<1>1. \A e \in Event : state[e] # "ABSENT" => state'[e] # "ABSENT"
  BY StaysReceived DEF QueueInv
<1>2. \A r \in Row : r.event \in Event
  BY DEF Row
<1>3. /\ batch[w] \subseteq Row /\ \A r \in batch[w] : state[r.event] # "ABSENT"
      /\ cur[w] \in Row => state[cur[w].event] # "ABSENT"
  BY DEF QueueInv, IInv, TypeOK, RowsReceived
<1>4. \A e \in Candidates : e \in Event /\ state[e] # "ABSENT"
  BY DEF Candidates
<1>5. /\ \A r \in batch'[w] : r \in batch[w] \/ r.event \in Candidates
      /\ cur'[w] \in Row => cur'[w] = cur[w] \/ cur'[w] \in batch[w]
  BY HeldRows DEF QueueInv
<1> QED BY <1>1, <1>2, <1>3, <1>4, <1>5

THEOREM QueueInvariant == Spec => []QueueInv
<1>1. Init => QueueInv
  BY InvariantInit, ReceivedInit DEF QueueInv
<1>2. QueueInv /\ [Next]_vars => QueueInv'
  BY InvariantNext, ReceivedNext DEF QueueInv
<1> QED BY <1>1, <1>2, PTL DEF Spec

\* A step that changes the status of one event at most is one of the queue.
LEMMA StatusExcept ==
  ASSUME NEW e \in Event, \A d \in Event \ {e} : Status(d)' = Status(d)
  PROVE  [d \in Event |-> Status(d)]' = [[d \in Event |-> Status(d)] EXCEPT ![e] = Status(e)']
OBVIOUS

LEMMA StatusSame ==
  ASSUME \A d \in Event : Status(d)' = Status(d)
  PROVE  [d \in Event |-> Status(d)]' = [d \in Event |-> Status(d)]
OBVIOUS

\* The steps of one event.
LEMMA ReceiveMaps == ASSUME IInv, NEW e \in Event, Receive(e) PROVE Queue!Receive(e)
<1> DEFINE status == [d \in Event |-> Status(d)]
<1>1. \A d \in Event \ {e} : Status(d)' = Status(d)
  BY DEF Receive, Status, IInv, TypeOK, events, thread
<1>2. Status(e) = "absent" /\ Status(e)' = "waiting"
  BY DEF Receive, Status, IInv, TypeOK
<1>3. status[e] = "absent" /\ status' = [status EXCEPT ![e] = "waiting"]
  BY <1>1, <1>2, StatusExcept
<1>4. UNCHANGED <<applied, overwritten, deadLettered, outbox>>
  BY DEF Receive
<1> QED BY <1>3, <1>4 DEF Queue!Receive

LEMMA ImportMaps == ASSUME IInv, NEW e \in Event, ReceiveEvidence(e) PROVE Queue!Import(e)
<1> DEFINE status == [d \in Event |-> Status(d)]
<1>1. \A d \in Event \ {e} : Status(d)' = Status(d)
  BY DEF ReceiveEvidence, Status, IInv, TypeOK
<1>2. Status(e) = "absent" /\ Status(e)' = "done"
  BY DEF ReceiveEvidence, Status, IInv, TypeOK
<1>3. status[e] = "absent" /\ status' = [status EXCEPT ![e] = "done"]
  BY <1>1, <1>2, StatusExcept
<1>4. /\ applied' = [applied EXCEPT ![e] = 1]
      /\ UNCHANGED <<overwritten, deadLettered, outbox>>
  BY DEF ReceiveEvidence
<1> QED BY <1>3, <1>4 DEF Queue!Import

LEMMA RetryMaps == ASSUME IInv, NEW e \in Event, OperatorRetry(e) PROVE Queue!Resume(e)
<1> DEFINE status == [d \in Event |-> Status(d)]
<1>1. \A d \in Event \ {e} : Status(d)' = Status(d)
  BY DEF OperatorRetry, Status, IInv, TypeOK
<1>2. Status(e) \in {"waiting", "stopped"} /\ Status(e)' = "waiting"
  BY DEF OperatorRetry, Status, IInv, TypeOK
<1>3. status[e] \in {"waiting", "stopped"} /\ status' = [status EXCEPT ![e] = "waiting"]
  BY <1>1, <1>2, StatusExcept
<1>4. /\ deadLettered' = deadLettered \ {e}
      /\ UNCHANGED <<applied, overwritten, outbox>>
  BY DEF OperatorRetry
<1> QED BY <1>3, <1>4 DEF Queue!Resume

LEMMA DetectMaps ==
  ASSUME QueueInv, NEW w \in Worker, NEW r \in batch[w], Detect(w, r)
  PROVE  Queue!Perform(r.event)
<1> DEFINE e == r.event
           status == [d \in Event |-> Status(d)]
<1>1. e \in Event /\ state[e] # "ABSENT" /\ state[e] # "COMPLETED"
  BY DEF Detect, QueueInv, IInv, TypeOK, RowsReceived, Row
<1>2. \A d \in Event \ {e} : Status(d)' = Status(d)
  BY DEF Detect, Status, QueueInv, IInv, TypeOK
<1>3. Status(e) \in {"waiting", "stopped"} /\ Status(e)' = "done"
  BY <1>1 DEF Detect, Status, QueueInv, IInv, TypeOK
<1>4. status[e] \in {"waiting", "stopped"} /\ status' = [status EXCEPT ![e] = "done"]
  BY <1>1, <1>2, <1>3, StatusExcept
<1>5. /\ applied' = [applied EXCEPT ![e] = @ + 1]
      /\ outbox' = outbox \cup {<<e, applied[e] + 1>>}
      /\ UNCHANGED <<overwritten, deadLettered>>
  BY DEF Detect
<1> QED BY <1>4, <1>5 DEF Queue!Perform

\* The except clause takes the event up again or gives it up, with an audit.
LEMMA FailureMaps ==
  ASSUME QueueInv, NEW w \in Worker, RecordFailure(w)
  PROVE  \E e \in Event : Queue!TryAgain(e) \/ Queue!GiveUp(e)
<1> DEFINE status == [d \in Event |-> Status(d)]
<1>1. PICK e \in Event : e = cur[w].event /\ state[e] # "ABSENT"
  BY DEF RecordFailure, QueueInv, IInv, RowsInHand, RowsReceived, Row
<1>2. \A d \in Event \ {e} : Status(d)' = Status(d)
  BY <1>1 DEF RecordFailure, Status, QueueInv, IInv, TypeOK
<1>3. status' = [status EXCEPT ![e] = Status(e)']
  BY <1>1, <1>2, StatusExcept
<1>4. status[e] # "absent" /\ (status[e] = "done" <=> state[e] = "COMPLETED")
  BY <1>1 DEF Status, QueueInv, IInv, TypeOK
<1>5. overwritten' = [overwritten EXCEPT ![e] = IF status[e] = "done" THEN @ + 1 ELSE @]
  BY <1>1, <1>4 DEF RecordFailure
<1>6. UNCHANGED <<applied, outbox>>
  BY DEF RecordFailure
<1>7. Queue!Fail(e)
  BY <1>4, <1>5, <1>6 DEF Queue!Fail
<1>8. CASE cur[w].attempt >= MaxAttempts
  <2>1. Status(e)' = "stopped" /\ deadLettered' = deadLettered \cup {e}
    BY <1>1, <1>8 DEF RecordFailure, Status, QueueInv, IInv, TypeOK
  <2> QED BY <1>1, <1>3, <1>7, <2>1 DEF Queue!GiveUp
<1>9. CASE ~(cur[w].attempt >= MaxAttempts)
  <2>1. Status(e)' = "waiting" /\ UNCHANGED deadLettered
    BY <1>1, <1>9 DEF RecordFailure, Status, QueueInv, IInv, TypeOK
  <2> QED BY <1>1, <1>3, <1>7, <2>1 DEF Queue!TryAgain
<1> QED BY <1>8, <1>9

\* The steps the queue does not see: claims, timers, takeovers, bookkeeping.
LEMMA StutterMaps ==
  ASSUME IInv,
         \/ UNCHANGED vars
         \/ \E e \in Event : RetryComesDue(e)
         \/ \E w \in Worker : \/ Claim(w) \/ EndBatch(w) \/ Housekeep(w) \/ NoteFailure(w)
                              \/ PublishFails(w) \/ Restart(w)
                              \/ \E r \in batch[w] : AlreadyCompleted(w, r) \/ DetectFails(w, r)
  PROVE  UNCHANGED <<[d \in Event |-> Status(d)], applied, overwritten, deadLettered, outbox>>
<1> USE DEF IInv, TypeOK, vars, events, thread, bounds
<1>1. UNCHANGED <<applied, overwritten, deadLettered, outbox>>
  BY DEF RetryComesDue, Claim, EndBatch, Housekeep, NoteFailure, PublishFails, Restart,
    AlreadyCompleted, DetectFails
<1>2. ASSUME NEW d \in Event PROVE Status(d)' = Status(d)
  <2>1. CASE \E e \in Event : RetryComesDue(e)
    BY <2>1 DEF RetryComesDue, Status
  <2>2. CASE \E w \in Worker : Claim(w)
    BY <2>2 DEF Claim, Candidates, Status
  <2>3. CASE \E w \in Worker : Restart(w)
    BY <2>3 DEF Restart, Status
  <2>4. CASE UNCHANGED <<state, retry>>
    BY <2>4 DEF Status
  <2> QED
    BY <2>1, <2>2, <2>3, <2>4 DEF EndBatch, Housekeep, NoteFailure, PublishFails,
      AlreadyCompleted, DetectFails
<1> QED BY <1>1, <1>2, StatusSame

\* Publications leave the outbox when they are sent, and only then.
LEMMA SendMaps ==
  ASSUME IInv, NEW w \in Worker,
         RecoverPublications(w) \/ Publish(w) \/ CycleFails(w)
  PROVE  \E S \in SUBSET outbox : Queue!Announce(S)
<1> USE DEF events, thread, bounds
<1>1. outbox' \subseteq outbox
  BY DEF RecoverPublications, Publish, CycleFails
<1>2. UNCHANGED <<state, retry, applied, overwritten, deadLettered>>
  BY DEF RecoverPublications, Publish, CycleFails
<1>3. UNCHANGED [d \in Event |-> Status(d)]
  BY <1>2, StatusSame DEF Status
<1>4. outbox' = outbox \ (outbox \ outbox')
  BY <1>1
<1>5. outbox \ outbox' \in SUBSET outbox
  OBVIOUS
<1>6. Queue!Announce(outbox \ outbox')
  BY <1>2, <1>3, <1>4 DEF Queue!Announce
<1> QED BY <1>5, <1>6

LEMMA QueueInit == Init => Queue!Init
<1> SUFFICES ASSUME Init PROVE Queue!Init
  OBVIOUS
<1>1. \A e \in Event : Status(e) = "absent"
  BY DEF Init, Status
<1> QED BY <1>1 DEF Init, Queue!Init

LEMMA QueueNext == QueueInv /\ [Next]_vars => [Queue!Next]_(Queue!vars)
<1> SUFFICES ASSUME QueueInv, [Next]_vars PROVE [Queue!Next]_(Queue!vars)
  OBVIOUS
<1>0. IInv
  BY DEF QueueInv
<1>1. CASE \E e \in Event : Receive(e) \/ ReceiveEvidence(e) \/ OperatorRetry(e)
  BY <1>0, <1>1, ReceiveMaps, ImportMaps, RetryMaps DEF Queue!Next
<1>2. ASSUME NEW w \in Worker, NEW r \in batch[w], Detect(w, r) PROVE Queue!Next
  <2>1. r.event \in Event
    BY <1>0 DEF IInv, TypeOK, Row
  <2> QED BY <1>2, <2>1, DetectMaps DEF Queue!Next
<1>3. ASSUME NEW w \in Worker, RecordFailure(w) PROVE Queue!Next
  BY <1>3, FailureMaps DEF Queue!Next
<1>4. ASSUME NEW w \in Worker, RecoverPublications(w) \/ Publish(w) \/ CycleFails(w)
      PROVE  Queue!Next
  BY <1>0, <1>4, SendMaps DEF Queue!Next
<1>5. CASE \/ UNCHANGED vars
           \/ \E e \in Event : RetryComesDue(e)
           \/ \E w \in Worker : \/ Claim(w) \/ EndBatch(w) \/ Housekeep(w) \/ NoteFailure(w)
                                \/ PublishFails(w) \/ Restart(w)
                                \/ \E r \in batch[w] : AlreadyCompleted(w, r) \/ DetectFails(w, r)
  BY <1>0, <1>5, StutterMaps DEF Queue!vars
<1> QED
  BY <1>1, <1>2, <1>3, <1>4, <1>5 DEF Next, WorkerNext

\* The claims, attempts, takeovers and retries of any number of workers
\* implement the work queue: one effect per time an event wants one, with its
\* publication in the same step, and no event given up without an audit.
THEOREM Refinement == Spec => ImplementsQueue
<1>1. Spec => Queue!Init
  BY QueueInit DEF Spec
<1>2. QueueInv /\ [Next]_vars => [Queue!Next]_(Queue!vars)
  BY QueueNext
<1> QED BY <1>1, <1>2, QueueInvariant, PTL DEF Spec, ImplementsQueue, Queue!Spec

---------------------------------------------------------------------------
(* When the table keeps what the report says of it *)

\* The events of the rows a worker has claimed and not yet answered for.
InHand(w) == pc[w] \in {"publish", "fail"}
Held(w)   == {r.event : r \in batch[w]} \cup (IF InHand(w) THEN {cur[w].event} ELSE {})

\* As long as nobody takes rows over, each of them is held by one worker, in
\* the attempt that the table shows.
BatchOwned ==
  \A w \in Worker : \A r \in batch[w] :
    /\ state[r.event] = "PROCESSING" /\ attempts[r.event] = r.attempt
    /\ InHand(w) => r.event # cur[w].event
    /\ \A q \in batch[w] : q.event = r.event => q = r

HandOwned ==
  \A w \in Worker :
    InHand(w) => /\ attempts[cur[w].event] = cur[w].attempt
                 /\ \/ state[cur[w].event] = "PROCESSING"
                    \/ state[cur[w].event] = "COMPLETED" /\ (pc[w] = "publish" \/ publishFaults > 0)

Apart == \A u, v \in Worker : u # v => Held(u) \cap Held(v) = {}

NotOverwritten == publishFaults = 0 => \A e \in Event : overwritten[e] = 0

DeadLettered == restarts = 0 => ExhaustedIsDeadLettered

OwnInv ==
  NoTakeover => BatchOwned /\ HandOwned /\ Apart /\ NotOverwritten /\ DeadLettered

LEMMA OwnInit == Init => OwnInv
BY EventAssumption
   DEF Init, OwnInv, BatchOwned, HandOwned, Apart, NotOverwritten, DeadLettered,
   ExhaustedIsDeadLettered, Held, InHand, EventAssumption

\* What is needed of the state before a step.
Undisturbed ==
  /\ IInv /\ NoTakeover /\ BatchOwned /\ HandOwned /\ Apart /\ NotOverwritten
  /\ DeadLettered

Owned == BatchOwned /\ HandOwned /\ Apart /\ NotOverwritten /\ DeadLettered

\* The requests and timers do not touch the rows that are held.
LEMMA OwnEvents ==
  ASSUME Undisturbed, NEW e \in Event,
         Receive(e) \/ ReceiveEvidence(e) \/ OperatorRetry(e) \/ RetryComesDue(e)
  PROVE  Owned'
<1> USE DEF thread, bounds
<1>1. /\ UNCHANGED <<pc, batch, cur, publication, overwritten, restarts, publishFaults>>
      /\ \A d \in Event : state[d] \in {"PROCESSING", "COMPLETED"}
                            => state'[d] = state[d] /\ attempts'[d] = attempts[d]
  BY DEF Receive, ReceiveEvidence, OperatorRetry, RetryComesDue, Undisturbed, IInv, TypeOK
<1>2. \A w \in Worker : /\ \A r \in batch[w] : r.event \in Event
                        /\ InHand(w) => cur[w].event \in Event
  BY DEF Undisturbed, IInv, TypeOK, RowsInHand, InHand, Row
<1>3. BatchOwned' /\ HandOwned'
  BY <1>1, <1>2 DEF Undisturbed, BatchOwned, HandOwned, InHand
<1>4. Apart' /\ NotOverwritten'
  BY <1>1 DEF Undisturbed, Apart, NotOverwritten, Held, InHand
<1>5. DeadLettered'
  BY EventAssumption
     DEF EventAssumption, Receive, ReceiveEvidence, OperatorRetry, RetryComesDue, Undisturbed,
     IInv, TypeOK, FreshRows, DeadLettered, ExhaustedIsDeadLettered
<1> QED BY <1>3, <1>4, <1>5 DEF Owned

\* The steps of a worker that write no row leave it with the rows it held, or
\* with fewer.
LEMMA OwnThread ==
  ASSUME Undisturbed, NEW w \in Worker,
         \/ RecoverPublications(w) \/ EndBatch(w) \/ Housekeep(w) \/ NoteFailure(w)
         \/ Publish(w) \/ CycleFails(w) \/ PublishFails(w)
  PROVE  Owned'
<1> USE DEF events, thread, bounds, Goto, Undisturbed
<1>1. /\ UNCHANGED <<state, attempts, retry, deadLettered, overwritten, restarts>>
      /\ publishFaults' = 0 => publishFaults = 0
      /\ publishFaults > 0 => publishFaults' > 0
  BY EventAssumption
     DEF RecoverPublications, EndBatch, Housekeep, NoteFailure, Publish, CycleFails, PublishFails,
     IInv, TypeOK, EventAssumption
<1>2. \A u \in Worker :
        /\ batch'[u] \subseteq batch[u]
        /\ InHand(u)' => /\ InHand(u) /\ cur'[u] = cur[u]
                         /\ pc'[u] = pc[u] \/ publishFaults' > 0
  BY EventAssumption
     DEF RecoverPublications, EndBatch, Housekeep, NoteFailure, Publish, CycleFails, PublishFails,
     IInv, TypeOK, InHand, EventAssumption
<1>3. BatchOwned'
  BY <1>1, <1>2 DEF BatchOwned
<1>4. HandOwned'
  BY <1>1, <1>2 DEF HandOwned, InHand
<1>5. Apart'
  <2>1. \A u \in Worker : Held(u)' \subseteq Held(u)
    BY <1>2 DEF Held
  <2> QED BY <2>1 DEF Apart
<1>6. NotOverwritten' /\ DeadLettered'
  BY <1>1 DEF NotOverwritten, DeadLettered, ExhaustedIsDeadLettered
<1> QED BY <1>3, <1>4, <1>5, <1>6 DEF Owned

\* A claimed row is one that nobody holds.
LEMMA OwnClaim == ASSUME Undisturbed, NEW w \in Worker, Claim(w) PROVE Owned'
<1> USE DEF Undisturbed, Goto, bounds
<1>1. PICK C \in SUBSET Candidates :
        /\ state' = [e \in Event |-> IF e \in C THEN "PROCESSING" ELSE state[e]]
        /\ attempts' = [e \in Event |-> IF e \in C THEN attempts[e] + 1 ELSE attempts[e]]
        /\ batch' = [batch EXCEPT ![w] = {[event |-> e, attempt |-> attempts[e] + 1] : e \in C}]
  BY DEF Claim
<1>2. /\ UNCHANGED <<cur, overwritten, restarts, publishFaults, retry, deadLettered>>
      /\ pc' = [pc EXCEPT ![w] = "work"]
  BY DEF Claim
<1>3. \A e \in C : e \in Event /\ state[e] \in {"PENDING", "FAILED"}
  BY DEF Candidates
<1>4. \A u \in Worker : \A e \in Held(u) : e \in Event /\ state[e] \in {"PROCESSING", "COMPLETED"}
  BY DEF Held, InHand, BatchOwned, HandOwned, IInv, TypeOK, RowsInHand, Row
<1>5. \A u \in Worker : Held(u) \cap C = {}
  BY <1>3, <1>4
<1>6. /\ \A u \in Worker \ {w} : batch'[u] = batch[u] /\ InHand(u)' = InHand(u)
      /\ batch'[w] = {[event |-> e, attempt |-> attempts[e] + 1] : e \in C} /\ ~InHand(w)'
  BY <1>1, <1>2 DEF InHand, IInv, TypeOK
<1>7. Held(w)' = C /\ \A u \in Worker \ {w} : Held(u)' = Held(u)
  <2>1. Held(w)' = {q.event : q \in batch'[w]}
    BY <1>6 DEF Held
  <2>2. {q.event : q \in batch'[w]} = C
    <3>1. \A q \in batch'[w] : q.event \in C
      BY <1>6
    <3>2. ASSUME NEW e \in C PROVE \E q \in batch'[w] : q.event = e
      <4>1. [event |-> e, attempt |-> attempts[e] + 1] \in batch'[w]
        BY <1>6
      <4> QED BY <4>1
    <3> QED BY <3>1, <3>2
  <2>3. \A u \in Worker \ {w} : cur'[u] = cur[u] /\ batch'[u] = batch[u] /\ InHand(u)' = InHand(u)
    BY <1>2, <1>6
  <2>4. \A u \in Worker \ {w} : Held(u)' = Held(u)
    BY <2>3 DEF Held
  <2> QED BY <2>1, <2>2, <2>4
<1>8. \A u \in Worker : \A e \in Held(u) : state'[e] = state[e] /\ attempts'[e] = attempts[e]
  BY <1>1, <1>4, <1>5
<1>9. BatchOwned'
  <2>1. ASSUME NEW r \in batch'[w]
        PROVE  /\ state'[r.event] = "PROCESSING" /\ attempts'[r.event] = r.attempt
               /\ \A q \in batch'[w] : q.event = r.event => q = r
    BY <1>1, <1>3, <1>6
  <2>2. ASSUME NEW u \in Worker \ {w}, NEW r \in batch'[u]
        PROVE  /\ state'[r.event] = "PROCESSING" /\ attempts'[r.event] = r.attempt
               /\ InHand(u)' => r.event # cur'[u].event
               /\ \A q \in batch'[u] : q.event = r.event => q = r
    <3>1. r \in batch[u] /\ r.event \in Held(u)
      BY <1>6 DEF Held
    <3> QED BY <1>2, <1>6, <1>8, <3>1 DEF BatchOwned
  <2> QED BY <1>6, <2>1, <2>2 DEF BatchOwned
<1>10. HandOwned'
  <2>1. ASSUME NEW u \in Worker, InHand(u)'
        PROVE  u # w /\ InHand(u) /\ cur[u].event \in Held(u) /\ pc'[u] = pc[u] /\ cur'[u] = cur[u]
    BY <1>2, <1>6, <2>1 DEF Held, IInv, TypeOK
  <2> QED BY <1>2, <1>8, <2>1 DEF HandOwned
<1>11. Apart'
  BY <1>5, <1>7 DEF Apart
<1>12. NotOverwritten' /\ DeadLettered'
  BY <1>1, <1>2 DEF NotOverwritten, DeadLettered, ExhaustedIsDeadLettered, IInv, TypeOK
<1> QED BY <1>9, <1>10, <1>11, <1>12 DEF Owned

\* A row goes from the batch into the hand of the worker, and its event may
\* become COMPLETED with that.
LEMMA OwnTake ==
  ASSUME Undisturbed, NEW w \in Worker, NEW r \in batch[w],
         AlreadyCompleted(w, r) \/ Detect(w, r) \/ DetectFails(w, r)
  PROVE  Owned'
<1> USE DEF Undisturbed, Goto, bounds, events
<1>1. /\ batch' = [batch EXCEPT ![w] = @ \ {r}]
      /\ UNCHANGED <<attempts, deadLettered, overwritten, restarts, publishFaults>>
      /\ pc[w] = "work"
  BY DEF AlreadyCompleted, Detect, DetectFails, TakeRow
<1>2. \/ AlreadyCompleted(w, r) /\ UNCHANGED <<pc, cur, state, retry>>
      \/ /\ cur' = [cur EXCEPT ![w] = r]
         /\ pc' = [pc EXCEPT ![w] = "fail"] /\ UNCHANGED <<state, retry>>
      \/ /\ cur' = [cur EXCEPT ![w] = r]
         /\ pc' = [pc EXCEPT ![w] = "publish"]
         /\ state' = [state EXCEPT ![r.event] = "COMPLETED"]
         /\ retry' = [retry EXCEPT ![r.event] = "none"]
  BY DEF AlreadyCompleted, Detect, DetectFails
<1>3. /\ r.event \in Event /\ r.event \in Held(w)
      /\ state[r.event] = "PROCESSING" /\ attempts[r.event] = r.attempt
  BY DEF Held, BatchOwned, IInv, TypeOK, Row
<1>4. /\ \A u \in Worker \ {w} : /\ batch'[u] = batch[u] /\ cur'[u] = cur[u] /\ pc'[u] = pc[u]
                                 /\ InHand(u)' = InHand(u) /\ Held(u)' = Held(u)
                                 /\ r.event \notin Held(u)
      /\ batch'[w] = batch[w] \ {r}
      /\ InHand(w)' => cur'[w] = r
  <2>1. /\ \A u \in Worker \ {w} : /\ batch'[u] = batch[u] /\ cur'[u] = cur[u] /\ pc'[u] = pc[u]
                                   /\ InHand(u)' = InHand(u)
        /\ batch'[w] = batch[w] \ {r}
        /\ InHand(w)' => cur'[w] = r
    BY <1>1, <1>2 DEF InHand, IInv, TypeOK
  <2>2. \A u \in Worker \ {w} : Held(u)' = Held(u)
    BY <2>1 DEF Held
  <2>3. \A u \in Worker \ {w} : r.event \notin Held(u)
    BY <1>3 DEF Apart
  <2> QED BY <2>1, <2>2, <2>3
<1>5. \A u \in Worker : \A q \in batch'[u] : q.event # r.event
  <2>1. \A q \in batch'[w] : q.event # r.event
    BY <1>4 DEF BatchOwned
  <2>2. \A u \in Worker \ {w} : \A q \in batch'[u] : q.event \in Held(u)
    BY <1>4 DEF Held
  <2> QED BY <1>4, <2>1, <2>2
<1>6. \A e \in Event \ {r.event} : state'[e] = state[e]
  BY <1>2 DEF IInv, TypeOK
<1>7. \A u \in Worker : \A q \in batch'[u] : q \in batch[u] /\ q.event \in Event
  BY <1>4 DEF IInv, TypeOK, Row
<1>8. BatchOwned'
  <2>1. \A u \in Worker : \A q \in batch'[u] : InHand(u)' => q.event # cur'[u].event
    BY <1>4, <1>5, <1>7 DEF BatchOwned
  <2> QED BY <1>1, <1>5, <1>6, <1>7, <2>1 DEF BatchOwned
<1>9. HandOwned'
  <2>1. ASSUME NEW u \in Worker \ {w}, InHand(u)'
        PROVE  cur[u].event \in Event \ {r.event} /\ InHand(u)
    BY <1>4, <2>1 DEF Held, IInv, RowsInHand, InHand, Row
  <2>2. InHand(w)' => /\ attempts'[cur'[w].event] = cur'[w].attempt
                      /\ \/ state'[cur'[w].event] = "PROCESSING"
                         \/ state'[cur'[w].event] = "COMPLETED" /\ pc'[w] = "publish"
    BY <1>1, <1>2, <1>3, <1>4 DEF InHand, IInv, TypeOK
  <2> QED BY <1>1, <1>4, <1>6, <2>1, <2>2 DEF HandOwned
<1>10. Apart'
  <2>1. Held(w)' \subseteq Held(w)
    BY <1>3, <1>4 DEF Held
  <2> QED BY <1>4, <2>1 DEF Apart
<1>11. NotOverwritten' /\ DeadLettered'
  BY <1>1, <1>2, <1>3
     DEF NotOverwritten, DeadLettered, ExhaustedIsDeadLettered, IInv, TypeOK
<1> QED BY <1>8, <1>9, <1>10, <1>11 DEF Owned

\* The failure that is recorded is that of a row nobody else holds, in the
\* attempt the table shows.
LEMMA OwnFailure == ASSUME Undisturbed, NEW w \in Worker, RecordFailure(w) PROVE Owned'
<1> USE DEF Undisturbed, Goto, bounds
<1>1. PICK e \in Event : e = cur[w].event /\ InHand(w) /\ e \in Held(w)
  BY DEF RecordFailure, InHand, Held, IInv, RowsInHand, Row
<1>2. /\ attempts[e] = cur[w].attempt
      /\ state[e] = "PROCESSING" \/ publishFaults > 0
  BY <1>1 DEF HandOwned, RecordFailure
<1>3. /\ state' = [state EXCEPT ![e] = "FAILED"]
      /\ retry' = [retry EXCEPT ![e] = IF cur[w].attempt >= MaxAttempts THEN "none" ELSE "later"]
      /\ deadLettered' = IF cur[w].attempt >= MaxAttempts THEN deadLettered \cup {e} ELSE deadLettered
      /\ overwritten' = [overwritten EXCEPT ![e] = IF state[e] = "COMPLETED" THEN @ + 1 ELSE @]
      /\ cur' = [cur EXCEPT ![w] = None] /\ pc' = [pc EXCEPT ![w] = "failed"]
      /\ UNCHANGED <<attempts, batch, restarts, publishFaults>>
  BY <1>1 DEF RecordFailure
<1>4. /\ \A u \in Worker \ {w} : /\ cur'[u] = cur[u] /\ pc'[u] = pc[u]
                                 /\ InHand(u)' = InHand(u) /\ Held(u)' = Held(u) /\ e \notin Held(u)
      /\ ~InHand(w)' /\ Held(w)' \subseteq Held(w)
  BY <1>1, <1>3 DEF Held, InHand, Apart, IInv, TypeOK
<1>5. \A u \in Worker : \A q \in batch[u] : q.event # e /\ q.event \in Event
  BY <1>1, <1>4 DEF Held, BatchOwned, IInv, TypeOK, Row
<1>6. \A d \in Event \ {e} : state'[d] = state[d]
  BY <1>3 DEF IInv, TypeOK
<1>7. BatchOwned'
  BY <1>3, <1>4, <1>5, <1>6 DEF BatchOwned
<1>8. HandOwned'
  <2>1. ASSUME NEW u \in Worker, InHand(u)'
        PROVE  u # w /\ InHand(u) /\ cur[u].event \in Event \ {e}
    BY <1>4, <2>1 DEF Held, IInv, RowsInHand, InHand, Row
  <2> QED BY <1>3, <1>4, <1>6, <2>1 DEF HandOwned
<1>9. Apart'
  BY <1>4 DEF Apart
<1>10. NotOverwritten'
  BY <1>2, <1>3 DEF NotOverwritten, IInv, TypeOK
<1>11. DeadLettered'
  BY <1>1, <1>2, <1>3, EventAssumption
     DEF DeadLettered, ExhaustedIsDeadLettered, IInv, TypeOK, EventAssumption
<1> QED BY <1>7, <1>8, <1>9, <1>10, <1>11 DEF Owned

\* After a restart only a lone worker is undisturbed, and it holds nothing.
LEMMA OwnRestart ==
  ASSUME Undisturbed, NEW w \in Worker, Restart(w), NoTakeover'
  PROVE  Owned'
<1> USE DEF Undisturbed
<1>1. restarts' # 0
  BY EventAssumption DEF Restart, IInv, TypeOK, EventAssumption
<1>2. \A u \in Worker : u = w
  BY <1>1 DEF NoTakeover
<1>3. \A u \in Worker : batch'[u] = {} /\ ~InHand(u)'
  BY <1>2 DEF Restart, InHand, IInv, TypeOK
<1>4. BatchOwned' /\ HandOwned'
  BY <1>3 DEF BatchOwned, HandOwned
<1>5. Apart'
  BY <1>2 DEF Apart
<1>6. NotOverwritten' /\ DeadLettered'
  BY <1>1 DEF NotOverwritten, DeadLettered, Restart
<1> QED BY <1>4, <1>5, <1>6 DEF Owned

LEMMA OwnNext == IInv /\ OwnInv /\ [Next]_vars => OwnInv'
<1> SUFFICES ASSUME IInv, OwnInv, [Next]_vars, NoTakeover' PROVE Owned'
  BY DEF OwnInv, Owned
<1>1. NoTakeover
  <2>1. restarts' = 0 => restarts = 0
    <3>1. UNCHANGED restarts \/ restarts' = restarts + 1
      BY DEF Next, WorkerNext, vars, bounds, Receive, ReceiveEvidence, OperatorRetry, RetryComesDue,
        RecoverPublications, Claim, AlreadyCompleted, Detect, DetectFails, Publish, PublishFails,
        RecordFailure, NoteFailure, EndBatch, Housekeep, CycleFails, Restart
    <3> QED BY <3>1, EventAssumption DEF IInv, TypeOK, EventAssumption
  <2> QED BY <2>1 DEF NoTakeover
<1>2. Undisturbed
  BY <1>1 DEF Undisturbed, OwnInv
<1>3. CASE UNCHANGED vars
  BY <1>2, <1>3 DEF vars, events, thread, bounds, Undisturbed, Owned, BatchOwned, HandOwned, Apart,
    NotOverwritten, DeadLettered, ExhaustedIsDeadLettered, Held, InHand
<1> QED
  BY <1>2, <1>3, OwnEvents, OwnThread, OwnClaim, OwnTake, OwnFailure, OwnRestart
  DEF Next, WorkerNext

THEOREM Ownership == Spec => [](IInv /\ OwnInv)
BY InvariantInit, OwnInit, InvariantNext, OwnNext, PTL DEF Spec

\* The report's promises, that a retry cannot count twice and that an exhausted
\* event has its dead-letter audit, hold as far as nobody takes over rows that
\* are being worked on and no publication fails.
THEOREM PromisesUndisturbed == Spec => []AsReportedUnlessDisturbed
<1>1. IInv /\ OwnInv => (NoTakeover /\ publishFaults = 0 => AppliedOnce)
  BY DEF IInv, CountExact, TypeOK, OwnInv, NotOverwritten, AppliedOnce
<1>2. IInv /\ OwnInv => (restarts = 0 => ExhaustedIsDeadLettered)
  BY DEF OwnInv, DeadLettered, NoTakeover
<1>3. IInv /\ OwnInv => AsReportedUnlessDisturbed
  BY <1>1, <1>2 DEF AsReportedUnlessDisturbed
<1> QED BY <1>3, Ownership, PTL
===========================================================================
