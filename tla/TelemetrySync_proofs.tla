------------------------ MODULE TelemetrySync_proofs ------------------------
(***************************************************************************)
(* The inductive invariant of TelemetrySync, what follows from it, and     *)
(* that the synchronisation implements TelemetryTransfer.                  *)
(***************************************************************************)
EXTENDS TelemetrySync, FiniteSetTheorems, TLAPS

---------------------------------------------------------------------------
(* The inductive invariant *)

\* A claim is no larger than the configured batch.
HandBounded == Cardinality(hand) <= MaxBatch

\* Claimed rows stay IN_FLIGHT until the cycle that claimed them ends.
ClaimedInFlight ==
  /\ pc = "idle" => hand = {}
  /\ \A r \in hand : status[r] = "IN_FLIGHT"

\* While the cycle waits, the current upload is the claimed rows.
UploadIsHand == pc = "wait" => request["current"].rows = hand

\* Rows that grew stale are IN_FLIGHT, and no running cycle holds them.
StaleInFlight == \A r \in stale : status[r] = "IN_FLIGHT" /\ r \notin hand

\* Only records the agent has or had are uploaded.
UploadsCollected == \A q \in Slot : \A r \in request[q].rows : status[r] # "ABSENT"

\* What is no longer left to store is stored.
StoredSoFar ==
  \A q \in Slot :
    /\ request[q].left \subseteq request[q].rows
    /\ request[q].phase = "storing" => request[q].rows \ request[q].left \subseteq stored
    /\ request[q].phase = "accepted" => request[q].rows \subseteq stored

\* A receipt stands for a batch that is stored completely.
ReceiptsTruthful == \A b \in receipts : b \subseteq stored

\* The manager refuses a batch only for a record in it.
RefusedForCause ==
  \A q \in Slot : request[q].phase = "refused" => \E r \in request[q].rows : kind[r] # "good"

IInv ==
  /\ TypeOK
  /\ HandBounded /\ ClaimedInFlight /\ UploadIsHand /\ StaleInFlight
  /\ UploadsCollected /\ StoredSoFar /\ ReceiptsTruthful /\ RefusedForCause
  /\ NothingLost /\ OnlyRefusedQuarantined

---------------------------------------------------------------------------
(* Facts about the operators *)

\* The smaller of two numbers is one of them.
LEMMA LeastBounds ==
  ASSUME NEW m \in Nat, NEW n \in Nat
  PROVE  Least(m, n) \in Nat /\ Least(m, n) <= m /\ Least(m, n) <= n
BY DEF Least

\* A part of a claim is finite and no larger than the claim.
LEMMA PartOfRecords ==
  ASSUME NEW S \in SUBSET Record
  PROVE  IsFiniteSet(S) /\ Cardinality(S) \in Nat
BY TelemetryAssumption, FS_Subset, FS_CardinalityType

\* Halving keeps the batch size within its bounds.
LEMMA HalvedInRange ==
  ASSUME TypeOK, HandBounded
  PROVE  Halved \in 1..MaxBatch
<1>1. Cardinality(hand) \in Nat
  BY PartOfRecords DEF TypeOK
<1>2. size \in 1..MaxBatch /\ MaxBatch \in Nat /\ Cardinality(hand) <= MaxBatch
  BY TelemetryAssumption DEF TypeOK, HandBounded
<1> QED
  BY <1>1, <1>2 DEF Halved

\* mark_retry gives rows a status and a retry time and touches no others.
LEMMA MarkRetryTyped ==
  ASSUME TypeOK, NEW S \in SUBSET Record,
         NEW verdict \in [Record -> {"RETRY_PENDING", "PERMANENT_ERROR"}],
         NEW delay \in [Record -> {"now", "short", "long"}],
         MarkRetry(S, verdict, delay)
  PROVE  /\ status' \in [Record -> Queued \cup {"ABSENT", "SYNCED"}]
         /\ retry' \in [Record -> {"now", "short", "long"}]
         /\ \A r \in Record : status'[r] = IF r \in S THEN verdict[r] ELSE status[r]
BY DEF TypeOK, MarkRetry, Queued, Waiting

\* The verdicts and delays that mark_retry is called with.
LEMMA Verdicts ==
  /\ {Retried, Quarantined, Denied} \subseteq [Record -> {"RETRY_PENDING", "PERMANENT_ERROR"}]
  /\ {AfterBackoff, AtOnce} \subseteq [Record -> {"now", "short", "long"}]
BY DEF Retried, Quarantined, Denied, AfterBackoff, AtOnce, Backoff

\* An abandoned upload is forgotten or moves to the late slot unchanged.
LEMMA AbandonedUploads ==
  ASSUME TypeOK, Abandon
  PROVE  /\ request' \in [Slot -> Request]
         /\ request'["current"] = NoRequest
         /\ \/ request'["late"] = request["late"]
            \/ request'["late"] = request["current"] /\ request["current"].phase \in {"sent", "storing"}
<1>1. NoRequest \in Request
  BY DEF NoRequest, Request
<1> QED
  BY <1>1 DEF TypeOK, Abandon, Slot

\* The answer to an upload is heard by the agent that still waits for it.
LEMMA AnsweredUploads ==
  ASSUME TypeOK, NEW q \in Slot,
         NEW phase \in {"accepted", "refused", "dropped"}, Answer(q, phase)
  PROVE  /\ request' \in [Slot -> Request]
         /\ \A p \in Slot \ {q} : request'[p] = request[p]
         /\ q = "late" => request'[q] = NoRequest
         /\ q = "current" => request'[q] = [phase |-> phase, rows |-> request[q].rows, left |-> {}]
<1>1. NoRequest \in Request
  BY DEF NoRequest, Request
<1>2. [phase |-> phase, rows |-> request[q].rows, left |-> {}] \in Request
  BY DEF TypeOK, Request
<1>3. "current" # "late"
  OBVIOUS
<1> QED
  BY <1>1, <1>2, <1>3 DEF TypeOK, Answer

---------------------------------------------------------------------------
(* Every step keeps the types and the size of a claim *)

LEMMA TypeInit == Init => TypeOK /\ HandBounded
<1> SUFFICES ASSUME Init PROVE TypeOK /\ HandBounded
  OBVIOUS
<1>1. NoRequest \in Request
  BY DEF NoRequest, Request
<1>2. HandBounded
  BY FS_EmptySet, TelemetryAssumption DEF Init, HandBounded
<1>3. TypeOK
  BY <1>1, TelemetryAssumption DEF Init, TypeOK, Queued, Waiting
<1> QED
  BY <1>2, <1>3

LEMMA EnqueueTyped ==
  ASSUME TypeOK, HandBounded, NEW r \in Record, Enqueue(r)
  PROVE  TypeOK' /\ HandBounded'
BY DEF TypeOK, HandBounded, Enqueue, manager, bounds, Queued, Waiting

LEMMA SaveCursorTyped ==
  ASSUME TypeOK, HandBounded, SaveCursor
  PROVE  TypeOK' /\ HandBounded'
BY DEF TypeOK, HandBounded, SaveCursor, rows, manager, bounds

LEMMA ClaimTyped ==
  ASSUME TypeOK, HandBounded, Claim
  PROVE  TypeOK' /\ HandBounded'
<1>1. PICK S \in SUBSET Eligible :
         /\ Cardinality(S) = Least(size, Cardinality(Eligible))
         /\ hand' = S /\ pc' = IF S = {} THEN "idle" ELSE "send"
         /\ status' = [r \in Record |-> IF r \in S THEN "IN_FLIGHT"
                                        ELSE IF r \in stale THEN "RETRY_PENDING" ELSE status[r]]
         /\ attempts' = [r \in Record |-> IF r \in S THEN Least(3, attempts[r] + 1) ELSE attempts[r]]
         /\ retry' = [r \in Record |-> IF r \in S \cup stale THEN "now"
                                       ELSE IF retry[r] = "long" THEN "short" ELSE retry[r]]
  BY DEF Claim
<1>2. Eligible \subseteq Record
  BY DEF TypeOK, Eligible
<1>3. attempts' \in [Record -> 0..3]
  BY <1>1 DEF TypeOK, Least
<1>4. HandBounded'
  <2>1. Cardinality(Eligible) \in Nat
    BY <1>2, PartOfRecords
  <2>2. size \in Nat /\ size <= MaxBatch
    BY TelemetryAssumption DEF TypeOK
  <2>3. Cardinality(S) \in Nat /\ Cardinality(S) <= size
    BY <1>1, <2>1, <2>2, LeastBounds
  <2> QED
    BY <1>1, <2>2, <2>3, TelemetryAssumption DEF HandBounded
<1>5. UNCHANGED <<kind, size, cursor, collecting, request, stored, receipts, faults, strays>> /\ stale' = {}
  BY DEF Claim, manager, bounds
<1>6. /\ status' \in [Record -> Queued \cup {"ABSENT", "SYNCED"}]
      /\ retry' \in [Record -> {"now", "short", "long"}]
      /\ pc' \in {"idle", "send", "wait"} /\ hand' \in SUBSET Record
  BY <1>1, <1>2 DEF TypeOK, Queued, Waiting
<1> QED
  BY <1>3, <1>4, <1>5, <1>6 DEF TypeOK

LEMMA SendBatchTyped ==
  ASSUME TypeOK, HandBounded, SendBatch
  PROVE  TypeOK' /\ HandBounded'
<1> DEFINE foreign == {r \in hand : kind[r] = "foreign"}
           pending == hand \ foreign
<1>1. foreign \in SUBSET Record /\ pending \in SUBSET hand /\ hand \in SUBSET Record
  BY DEF TypeOK
<1>2. MarkRetry(foreign, Quarantined, AfterBackoff) /\ hand' = pending
  BY DEF SendBatch
<1>3. /\ status' \in [Record -> Queued \cup {"ABSENT", "SYNCED"}]
      /\ retry' \in [Record -> {"now", "short", "long"}]
  BY <1>1, <1>2, MarkRetryTyped, Verdicts
<1>4. Cardinality(pending) <= Cardinality(hand)
  BY <1>1, PartOfRecords, FS_Subset
<1>5. HandBounded'
  BY <1>1, <1>2, <1>4, PartOfRecords, TelemetryAssumption DEF HandBounded
<1>6. [phase |-> "sent", rows |-> pending, left |-> {}] \in Request
  BY <1>1 DEF Request
<1>7. request' \in [Slot -> Request] /\ pc' \in {"idle", "send", "wait"}
  BY <1>6 DEF SendBatch, TypeOK
<1>8. UNCHANGED <<kind, attempts, stale, size, cursor, collecting, stored, receipts, faults, strays>>
  BY DEF SendBatch, bounds
<1> QED
  BY <1>1, <1>2, <1>3, <1>5, <1>7, <1>8 DEF TypeOK

LEMMA ManagerTyped ==
  ASSUME TypeOK, HandBounded, NEW q \in Slot, Manager(q)
  PROVE  TypeOK' /\ HandBounded'
<1>1. CASE Recognise(q)
  BY <1>1, AnsweredUploads
     DEF TypeOK, HandBounded, Recognise, rows, agent, bounds
<1>2. CASE Parse(q)
  <2>1. [phase |-> "storing", rows |-> request[q].rows, left |-> request[q].rows] \in Request
    BY DEF TypeOK, Request
  <2>2. request' \in [Slot -> Request]
    BY <1>2, <2>1, AnsweredUploads DEF TypeOK, Parse
  <2> QED
    BY <1>2, <2>2 DEF TypeOK, HandBounded, Parse, rows, agent, bounds
<1>3. CASE StoreChunk(q)
  <2>1. PICK C \in SUBSET request[q].left :
           \/ /\ stored' = stored \cup C
              /\ request' = [request EXCEPT ![q] =
                               [phase |-> "storing", rows |-> @.rows, left |-> @.left \ C]]
           \/ Answer(q, "refused") /\ UNCHANGED stored
           \/ Answer(q, "dropped") /\ UNCHANGED stored
    BY <1>3 DEF StoreChunk
  <2>2. [phase |-> "storing", rows |-> request[q].rows, left |-> request[q].left \ C] \in Request /\ request[q].left \subseteq Record
    BY DEF TypeOK, Request
  <2>3. request' \in [Slot -> Request]
    BY <2>1, <2>2, AnsweredUploads DEF TypeOK
  <2>4. stored' \in SUBSET Record
    BY <2>1, <2>2 DEF TypeOK
  <2> QED
    BY <1>3, <2>3, <2>4 DEF TypeOK, HandBounded, StoreChunk, rows, agent, bounds
<1>4. CASE SaveReceipt(q)
  <2>1. request[q].rows \in SUBSET Record
    BY DEF TypeOK, Request
  <2>2. request' \in [Slot -> Request]
    BY <1>4, AnsweredUploads DEF SaveReceipt
  <2> QED
    BY <1>4, <2>1, <2>2 DEF TypeOK, HandBounded, SaveReceipt, rows, agent, bounds
<1> QED
  BY <1>1, <1>2, <1>3, <1>4 DEF Manager

\* The end of a cycle leaves an empty claim.
LEMMA EndCycleBounded ==
  ASSUME EndCycle
  PROVE  HandBounded' /\ pc' = "idle" /\ hand' = {}
BY FS_EmptySet, TelemetryAssumption DEF EndCycle, HandBounded

LEMMA AnswerTyped ==
  ASSUME TypeOK, HandBounded, Accept \/ Refused \/ Stray \/ UploadRaises
  PROVE  TypeOK' /\ HandBounded'
<1>1. hand \in SUBSET Record /\ Halved \in 1..MaxBatch
  BY HalvedInRange DEF TypeOK
<1>2. SplitOrQuarantine => /\ status' \in [Record -> Queued \cup {"ABSENT", "SYNCED"}]
                           /\ retry' \in [Record -> {"now", "short", "long"}]
                           /\ size' \in 1..MaxBatch
  BY <1>1, MarkRetryTyped, Verdicts DEF SplitOrQuarantine
<1>3. NoRequest \in Request
  BY DEF NoRequest, Request
<1>4. CASE Accept
  <2>1. Least(MaxBatch, 2 * size) \in 1..MaxBatch
    BY TelemetryAssumption DEF TypeOK, Least
  <2>2. size' \in 1..MaxBatch /\ faults' \in 0..MaxFaults
    BY <1>1, <1>4, <2>1, TelemetryAssumption DEF Accept, Fails, TypeOK
  <2>3. request' \in [Slot -> Request]
    BY <1>3, <1>4 DEF Accept, TypeOK
  <2> QED
    BY <1>4, <2>2, <2>3, EndCycleBounded DEF Accept, TypeOK
<1>5. CASE Refused
  <2>1. request' \in [Slot -> Request]
    BY <1>3, <1>5 DEF Refused, TypeOK
  <2> QED
    BY <1>2, <1>5, <2>1, EndCycleBounded DEF Refused, TypeOK, bounds
<1>6. CASE Stray
  <2>1. /\ status' \in [Record -> Queued \cup {"ABSENT", "SYNCED"}]
        /\ retry' \in [Record -> {"now", "short", "long"}]
        /\ size' \in 1..MaxBatch
    BY <1>1, <1>2, <1>6, MarkRetryTyped, Verdicts DEF Stray, TypeOK
  <2>2. request' \in [Slot -> Request]
    BY <1>6, AbandonedUploads DEF Stray
  <2>3. strays' \in 0..MaxFaults
    BY <1>6, TelemetryAssumption DEF Stray, TypeOK
  <2> QED
    BY <1>6, <2>1, <2>2, <2>3, EndCycleBounded DEF Stray, TypeOK
<1>7. CASE UploadRaises
  <2>1. /\ status' \in [Record -> Queued \cup {"ABSENT", "SYNCED"}]
        /\ retry' \in [Record -> {"now", "short", "long"}]
        /\ size' \in 1..MaxBatch
    BY <1>1, <1>7, MarkRetryTyped, Verdicts DEF UploadRaises
  <2>2. request' \in [Slot -> Request]
    BY <1>7, AbandonedUploads DEF UploadRaises
  <2>3. faults' \in 0..MaxFaults
    BY <1>7, TelemetryAssumption DEF UploadRaises, Fails, TypeOK
  <2> QED
    BY <1>7, <2>1, <2>2, <2>3, EndCycleBounded DEF UploadRaises, TypeOK
<1> QED
  BY <1>4, <1>5, <1>6, <1>7

LEMMA InterruptionTyped ==
  ASSUME TypeOK, HandBounded, CycleDies \/ Crash
  PROVE  TypeOK' /\ HandBounded'
<1>1. request' \in [Slot -> Request]
  BY AbandonedUploads DEF CycleDies, Crash
<1>2. faults' \in 0..MaxFaults
  BY TelemetryAssumption DEF CycleDies, Crash, Fails, TypeOK
<1>3. EndCycle
  BY DEF CycleDies, Crash
<1>4. CASE CycleDies
  BY <1>1, <1>2, <1>3, <1>4, EndCycleBounded DEF CycleDies, TypeOK, rows
<1>5. CASE Crash
  <2>1. status' \in [Record -> Queued \cup {"ABSENT", "SYNCED"}]
    BY <1>5 DEF Crash, TypeOK, Queued, Waiting
  <2> QED
    BY <1>1, <1>2, <1>3, <1>5, <2>1, EndCycleBounded DEF Crash, TypeOK
<1> QED
  BY <1>4, <1>5

LEMMA PassingTyped ==
  ASSUME TypeOK, HandBounded, NEW r \in Record, GrowStale(r) \/ BackoffEnds(r)
  PROVE  TypeOK' /\ HandBounded'
BY DEF TypeOK, HandBounded, GrowStale, BackoffEnds, agent, manager, bounds

---------------------------------------------------------------------------
(* Every step keeps the relations between queue, uploads and store *)

\* What a step of the manager or of the agent has to keep, in two parts.
QueueInv == ClaimedInFlight /\ UploadIsHand /\ StaleInFlight /\ NothingLost /\ OnlyRefusedQuarantined
UploadInv == UploadsCollected /\ StoredSoFar /\ ReceiptsTruthful /\ RefusedForCause

\* The current upload is forgotten and the other one may be the one it was.
UploadGivenUp ==
  /\ request'["current"] = NoRequest
  /\ \/ request'["late"] = request["late"]
     \/ request'["late"] = request["current"] /\ request["current"].phase \in {"sent", "storing"}

LEMMA UploadInvInit == Init => QueueInv /\ UploadInv
BY DEF Init, QueueInv, UploadInv, ClaimedInFlight, UploadIsHand, StaleInFlight, NothingLost,
   OnlyRefusedQuarantined, UploadsCollected, StoredSoFar, ReceiptsTruthful, RefusedForCause,
   NoRequest

\* Giving up an upload, and leaving rows in the queue or deleting them, keeps
\* what is known of the uploads.
LEMMA GivenUpKeepsUploads ==
  ASSUME TypeOK, UploadInv, UploadGivenUp, UNCHANGED <<kind, stored, receipts>>,
         \A r \in Record : status[r] # "ABSENT" => status'[r] # "ABSENT"
  PROVE  UploadInv'
<1>1. \A q \in Slot : \/ request'[q] = NoRequest
                      \/ \E p \in Slot : request'[q] = request[p]
  BY DEF UploadGivenUp, Slot
<1>2. \A q \in Slot : request[q].rows \subseteq Record
  BY DEF TypeOK, Request
<1>3. UploadsCollected'
  BY <1>1, <1>2 DEF UploadInv, UploadsCollected, NoRequest
<1>4. StoredSoFar'
  BY <1>1 DEF UploadInv, StoredSoFar, NoRequest
<1>5. ReceiptsTruthful'
  BY DEF UploadInv, ReceiptsTruthful
<1>6. RefusedForCause'
  BY <1>1 DEF UploadInv, RefusedForCause, NoRequest
<1> QED
  BY <1>3, <1>4, <1>5, <1>6 DEF UploadInv

\* Steps that leave the uploads alone keep what is known of them.
LEMMA UntouchedUploads ==
  ASSUME TypeOK, UploadInv, UNCHANGED <<kind, request, stored, receipts>>,
         \A r \in Record : status[r] # "ABSENT" => status'[r] # "ABSENT"
  PROVE  UploadInv'
<1>1. \A q \in Slot : request[q].rows \subseteq Record
  BY DEF TypeOK, Request
<1>2. UploadsCollected'
  BY <1>1 DEF UploadInv, UploadsCollected
<1>3. StoredSoFar' /\ ReceiptsTruthful' /\ RefusedForCause'
  BY DEF UploadInv, StoredSoFar, ReceiptsTruthful, RefusedForCause
<1> QED
  BY <1>2, <1>3 DEF UploadInv

LEMMA CollectorSteps ==
  ASSUME IInv, Collector
  PROVE  QueueInv' /\ UploadInv'
<1> USE DEF IInv
<1>1. CASE SaveCursor
  BY <1>1 DEF SaveCursor, rows, manager, bounds, QueueInv, UploadInv, ClaimedInFlight, UploadIsHand,
     StaleInFlight, NothingLost, OnlyRefusedQuarantined, UploadsCollected, StoredSoFar,
     ReceiptsTruthful, RefusedForCause
<1>2. ASSUME NEW r \in Record, Enqueue(r) PROVE QueueInv' /\ UploadInv'
  <2>1. UNCHANGED <<kind, stale, pc, hand, request, stored, receipts, strays>>
    BY <1>2 DEF Enqueue, manager, bounds
  <2>2. \A x \in Record : \/ status'[x] = status[x]
                          \/ status'[x] = "PENDING" /\ status[x] \in {"ABSENT", "SYNCED"}
    BY <1>2 DEF Enqueue, TypeOK
  <2>3. stale \subseteq Record /\ hand \subseteq Record
    BY DEF TypeOK
  <2>4. QueueInv'
    BY <2>1, <2>2, <2>3 DEF QueueInv, ClaimedInFlight, UploadIsHand, StaleInFlight, NothingLost,
       OnlyRefusedQuarantined
  <2>5. UploadInv'
    BY <2>1, <2>2, UntouchedUploads DEF UploadInv
  <2> QED
    BY <2>4, <2>5
<1> QED
  BY <1>1, <1>2 DEF Collector

LEMMA ClaimSteps ==
  ASSUME IInv, Claim
  PROVE  QueueInv' /\ UploadInv'
<1> USE DEF IInv
<1>1. PICK S \in SUBSET Eligible :
         /\ hand' = S /\ pc' = IF S = {} THEN "idle" ELSE "send"
         /\ status' = [r \in Record |-> IF r \in S THEN "IN_FLIGHT"
                                        ELSE IF r \in stale THEN "RETRY_PENDING" ELSE status[r]]
  BY DEF Claim
<1>2. Eligible \subseteq Record
  BY DEF TypeOK, Eligible
<1>3. UNCHANGED <<kind, request, stored, receipts, strays>> /\ stale' = {}
  BY DEF Claim, manager, bounds
<1>4. \A r \in Record : \/ status'[r] = status[r]
                        \/ status'[r] \in {"IN_FLIGHT", "RETRY_PENDING"}
  BY <1>1
<1>5. QueueInv'
  BY <1>1, <1>2, <1>3, <1>4 DEF QueueInv, ClaimedInFlight, UploadIsHand, StaleInFlight,
     NothingLost, OnlyRefusedQuarantined
<1>6. UploadInv'
  BY <1>3, <1>4, UntouchedUploads DEF UploadInv
<1> QED
  BY <1>5, <1>6

LEMMA SendBatchSteps ==
  ASSUME IInv, SendBatch
  PROVE  QueueInv' /\ UploadInv'
<1> USE DEF IInv
<1> DEFINE foreign == {r \in hand : kind[r] = "foreign"}
           pending == hand \ foreign
<1>1. foreign \in SUBSET Record /\ pending \in SUBSET hand /\ hand \in SUBSET Record
  BY DEF TypeOK
<1>2. MarkRetry(foreign, Quarantined, AfterBackoff) /\ hand' = pending
  BY DEF SendBatch
<1>3. \A r \in Record : status'[r] = IF r \in foreign THEN "PERMANENT_ERROR" ELSE status[r]
  BY <1>1, <1>2 DEF MarkRetry, Quarantined
<1>4. UNCHANGED <<kind, stale, stored, receipts, strays>>
  BY DEF SendBatch, bounds
<1>5. \/ pc' = "idle" /\ pending = {} /\ UNCHANGED request
      \/ /\ pc' = "wait"
         /\ request' = [request EXCEPT !["current"] =
                          [phase |-> "sent", rows |-> pending, left |-> {}]]
  BY DEF SendBatch
<1>6. ClaimedInFlight' /\ StaleInFlight'
  BY <1>1, <1>2, <1>3, <1>4, <1>5 DEF ClaimedInFlight, StaleInFlight, TypeOK
<1>7. UploadIsHand'
  BY <1>2, <1>5 DEF UploadIsHand, TypeOK, Slot
<1>8. NothingLost' /\ OnlyRefusedQuarantined'
  BY <1>3, <1>4 DEF NothingLost, OnlyRefusedQuarantined
<1>9. \A r \in Record : status[r] # "ABSENT" => status'[r] # "ABSENT"
  BY <1>3
<1>10. CASE UNCHANGED request
  BY <1>4, <1>6, <1>7, <1>8, <1>9, <1>10, UntouchedUploads DEF QueueInv, UploadInv
<1>11. CASE request' = [request EXCEPT !["current"] =
                          [phase |-> "sent", rows |-> pending, left |-> {}]]
  <2>1. /\ request'["current"] = [phase |-> "sent", rows |-> pending, left |-> {}]
        /\ request'["late"] = request["late"]
    BY <1>11 DEF TypeOK, Slot
  <2>2. \A q \in Slot : \/ request'[q] = request[q]
                        \/ /\ request'[q].phase = "sent"
                           /\ request'[q].rows = pending /\ request'[q].left = {}
    BY <2>1 DEF Slot
  <2>3. \A r \in pending : status'[r] # "ABSENT"
    BY <1>1, <1>3 DEF ClaimedInFlight
  <2>4. \A q \in Slot : request[q].rows \subseteq Record
    BY DEF TypeOK, Request
  <2>5. UploadsCollected'
    BY <1>9, <2>2, <2>3, <2>4 DEF UploadsCollected
  <2>6. StoredSoFar' /\ ReceiptsTruthful'
    BY <1>4, <2>2 DEF StoredSoFar, ReceiptsTruthful
  <2>7. RefusedForCause'
    BY <1>4, <2>2 DEF RefusedForCause
  <2> QED
    BY <1>6, <1>7, <1>8, <2>5, <2>6, <2>7 DEF QueueInv, UploadInv
<1> QED
  BY <1>5, <1>10, <1>11

\* The manager changes no row of the agent; what it stores only grows.
LEMMA ManagerSteps ==
  ASSUME IInv, NEW q \in Slot, Manager(q)
  PROVE  QueueInv' /\ UploadInv'
<1> USE DEF IInv
<1>1. UNCHANGED <<kind, status, stale, pc, hand, strays>> /\ stored \subseteq stored'
  BY DEF Manager, Recognise, Parse, StoreChunk, SaveReceipt, rows, agent, bounds
<1>2. /\ request[q].phase \in {"sent", "storing"}
      /\ request[q].left \subseteq request[q].rows
  BY DEF Manager, Recognise, Parse, StoreChunk, SaveReceipt, StoredSoFar
<1>3. /\ \A p \in Slot \ {q} : request'[p] = request[p]
      /\ \/ request'[q] = NoRequest
         \/ /\ request'[q].rows = request[q].rows /\ request'[q].left \subseteq request[q].rows
            /\ request'[q].phase \in {"storing", "accepted", "refused", "dropped"}
            /\ request'[q].phase = "storing" => request[q].rows \ request'[q].left \subseteq stored'
            /\ request'[q].phase = "accepted" => request[q].rows \subseteq stored'
            /\ request'[q].phase = "refused" => \E r \in request[q].rows : kind[r] # "good"
      /\ q = "current" => request'[q] # NoRequest
      /\ \A b \in receipts' : b \subseteq stored'
  <2>1. CASE Recognise(q)
    <3>1. request[q].rows \subseteq stored
      BY <2>1 DEF Recognise, ReceiptsTruthful
    <3>2. UNCHANGED <<stored, receipts>> /\ Answer(q, "accepted")
      BY <2>1 DEF Recognise
    <3> QED
      BY <3>1, <3>2, AnsweredUploads DEF Slot, NoRequest, ReceiptsTruthful
  <2>2. CASE Parse(q)
    <3>1. UNCHANGED <<stored, receipts>>
      BY <2>2 DEF Parse
    <3>2. CASE (\E r \in request[q].rows : kind[r] \in {"foreign", "malformed"}) /\ Answer(q, "refused")
      <4>1. \E r \in request[q].rows : kind[r] # "good"
        BY <3>2
      <4> QED
        BY <3>1, <3>2, <4>1, AnsweredUploads DEF Slot, NoRequest, ReceiptsTruthful
    <3>3. CASE request' = [request EXCEPT ![q] =
                             [phase |-> "storing", rows |-> @.rows, left |-> @.rows]]
      <4>1. /\ request'[q] = [phase |-> "storing", rows |-> request[q].rows, left |-> request[q].rows]
            /\ \A p \in Slot \ {q} : request'[p] = request[p]
        BY <3>3 DEF TypeOK
      <4> QED
        BY <3>1, <4>1 DEF NoRequest, ReceiptsTruthful
    <3> QED
      BY <2>2, <3>2, <3>3 DEF Parse
  <2>3. CASE StoreChunk(q)
    <3>1. UNCHANGED receipts /\ request[q].phase = "storing"
      BY <2>3 DEF StoreChunk
    <3>2. PICK C \in SUBSET request[q].left :
             \/ /\ stored' = stored \cup C
                /\ request' = [request EXCEPT ![q] =
                                 [phase |-> "storing", rows |-> @.rows, left |-> @.left \ C]]
             \/ (\E r \in C : kind[r] = "conflicting") /\ Answer(q, "refused") /\ UNCHANGED stored
             \/ Answer(q, "dropped") /\ UNCHANGED stored
      BY <2>3 DEF StoreChunk
    <3>3. request[q].rows \ request[q].left \subseteq stored
      BY <3>1 DEF StoredSoFar
    <3>4. CASE /\ stored' = stored \cup C
               /\ request' = [request EXCEPT ![q] =
                                [phase |-> "storing", rows |-> @.rows, left |-> @.left \ C]]
      <4>1. /\ request'[q] = [phase |-> "storing", rows |-> request[q].rows, left |-> request[q].left \ C]
            /\ \A p \in Slot \ {q} : request'[p] = request[p]
        BY <3>4 DEF TypeOK
      <4>2. request[q].rows \ (request[q].left \ C) \subseteq stored'
        BY <3>3, <3>4
      <4>3. \A b \in receipts' : b \subseteq stored'
        BY <3>1, <3>4 DEF ReceiptsTruthful
      <4> QED
        BY <1>2, <4>1, <4>2, <4>3 DEF NoRequest
    <3>5. CASE (\E r \in C : kind[r] = "conflicting") /\ Answer(q, "refused") /\ UNCHANGED stored
      <4>1. \E r \in request[q].rows : kind[r] # "good"
        BY <1>2, <3>5
      <4> QED
        BY <3>1, <3>5, <4>1, AnsweredUploads DEF Slot, NoRequest, ReceiptsTruthful
    <3>6. CASE Answer(q, "dropped") /\ UNCHANGED stored
      BY <3>1, <3>6, AnsweredUploads DEF Slot, NoRequest, ReceiptsTruthful
    <3> QED
      BY <3>2, <3>4, <3>5, <3>6
  <2>4. CASE SaveReceipt(q)
    <3>1. request[q].rows \subseteq stored
      BY <2>4 DEF SaveReceipt, StoredSoFar
    <3>2. /\ UNCHANGED stored /\ Answer(q, "accepted")
          /\ receipts' = receipts \cup {request[q].rows}
      BY <2>4 DEF SaveReceipt
    <3>3. \A b \in receipts' : b \subseteq stored'
      BY <3>1, <3>2 DEF ReceiptsTruthful
    <3> QED
      BY <3>1, <3>2, <3>3, AnsweredUploads DEF Slot, NoRequest
  <2> QED
    BY <2>1, <2>2, <2>3, <2>4 DEF Manager
<1>4. ClaimedInFlight' /\ StaleInFlight' /\ NothingLost' /\ OnlyRefusedQuarantined'
  BY <1>1 DEF ClaimedInFlight, StaleInFlight, NothingLost, OnlyRefusedQuarantined
<1>5. UploadIsHand'
  <2>1. CASE q = "current"
    BY <1>1, <1>3, <2>1 DEF UploadIsHand
  <2>2. CASE q = "late"
    BY <1>1, <1>3, <2>2 DEF UploadIsHand, Slot
  <2> QED
    BY <2>1, <2>2 DEF Slot
<1>6. \A p \in Slot : \/ request'[p].rows = {} \/ request'[p].rows = request[p].rows
  BY <1>3 DEF NoRequest
<1>7. UploadsCollected'
  BY <1>1, <1>6 DEF UploadsCollected
<1>8. StoredSoFar'
  <2>1. ASSUME NEW p \in Slot, p # q
        PROVE  /\ request'[p].left \subseteq request'[p].rows
               /\ request'[p].phase = "storing" => request'[p].rows \ request'[p].left \subseteq stored'
               /\ request'[p].phase = "accepted" => request'[p].rows \subseteq stored'
    BY <1>1, <1>3, <2>1 DEF StoredSoFar
  <2>2. /\ request'[q].left \subseteq request'[q].rows
        /\ request'[q].phase = "storing" => request'[q].rows \ request'[q].left \subseteq stored'
        /\ request'[q].phase = "accepted" => request'[q].rows \subseteq stored'
    BY <1>3 DEF NoRequest
  <2> QED
    BY <2>1, <2>2 DEF StoredSoFar
<1>9. ReceiptsTruthful'
  BY <1>3 DEF ReceiptsTruthful
<1>10. RefusedForCause'
  <2>1. ASSUME NEW p \in Slot, p # q, request'[p].phase = "refused"
        PROVE  \E r \in request'[p].rows : kind'[r] # "good"
    BY <1>1, <1>3, <2>1 DEF RefusedForCause
  <2>2. request'[q].phase = "refused" => \E r \in request'[q].rows : kind'[r] # "good"
    BY <1>1, <1>3 DEF NoRequest
  <2> QED
    BY <2>1, <2>2 DEF RefusedForCause
<1> QED
  BY <1>4, <1>5, <1>7, <1>8, <1>9, <1>10 DEF QueueInv, UploadInv

\* mark_retry of the claimed rows, whatever its verdict, at the end of a cycle.
LEMMA RetriedAtEnd ==
  ASSUME IInv, EndCycle, UNCHANGED <<kind, stale, stored>>,
         NEW verdict \in [Record -> {"RETRY_PENDING", "PERMANENT_ERROR"}], NEW delay,
         MarkRetry(hand, verdict, delay),
         strays' \in Nat, strays' >= strays,
         \A r \in hand : verdict[r] = "PERMANENT_ERROR" /\ kind[r] = "good" => strays' > 0
  PROVE  /\ QueueInv'
         /\ \A r \in Record : status[r] # "ABSENT" => status'[r] # "ABSENT"
<1> USE DEF IInv
<1>1. \A r \in Record : status'[r] = IF r \in hand THEN verdict[r] ELSE status[r]
  BY DEF MarkRetry
<1>2. stale \subseteq Record /\ strays \in Nat
  BY TelemetryAssumption DEF TypeOK
<1>3. ClaimedInFlight' /\ UploadIsHand'
  BY DEF EndCycle, ClaimedInFlight, UploadIsHand
<1>4. StaleInFlight'
  BY <1>1, <1>2 DEF StaleInFlight, EndCycle
<1>5. NothingLost'
  BY <1>1 DEF NothingLost
<1>6. OnlyRefusedQuarantined'
  <2>1. ASSUME NEW r \in Record, kind[r] = "good", status'[r] = "PERMANENT_ERROR"
        PROVE  strays' > 0
    <3>1. CASE r \in hand
      BY <1>1, <2>1, <3>1
    <3>2. CASE r \notin hand
      BY <1>1, <1>2, <2>1, <3>2 DEF OnlyRefusedQuarantined
    <3> QED
      BY <3>1, <3>2
  <2> QED
    BY <2>1 DEF OnlyRefusedQuarantined
<1>7. \A r \in Record : status[r] # "ABSENT" => status'[r] # "ABSENT"
  BY <1>1
<1> QED
  BY <1>3, <1>4, <1>5, <1>6, <1>7 DEF QueueInv

\* A refused batch of one consists of the record it was refused for.
LEMMA RefusedAlone ==
  ASSUME IInv, Refused, ~ Cardinality(hand) > 1
  PROVE  \A r \in hand : kind[r] # "good"
<1> USE DEF IInv
<1>1. request["current"].rows = hand
  BY DEF Refused, UploadIsHand
<1>2. PICK b \in hand : kind[b] # "good"
  BY <1>1 DEF Refused, RefusedForCause, Slot
<1>3. IsFiniteSet(hand) /\ Cardinality(hand) \in Nat
  BY PartOfRecords DEF TypeOK
<1>4. ASSUME NEW r \in hand PROVE r = b
  <2>1. IsFiniteSet(hand \ {b}) /\ Cardinality(hand \ {b}) = Cardinality(hand) - 1
    BY <1>2, <1>3, FS_RemoveElement
  <2>2. Cardinality(hand \ {b}) = 0
    BY <1>3, <2>1, FS_CardinalityType
  <2>3. hand \ {b} = {}
    BY <2>1, <2>2, FS_EmptySet
  <2> QED
    BY <2>3
<1> QED
  BY <1>2, <1>4

LEMMA ForgottenIsGivenUp ==
  ASSUME TypeOK, request' = [request EXCEPT !["current"] = NoRequest]
  PROVE  UploadGivenUp
BY DEF TypeOK, UploadGivenUp, Slot

LEMMA AbandonedIsGivenUp ==
  ASSUME TypeOK, Abandon
  PROVE  UploadGivenUp
BY AbandonedUploads DEF UploadGivenUp

LEMMA AcceptSteps ==
  ASSUME IInv, Accept
  PROVE  QueueInv' /\ UploadInv'
<1> USE DEF IInv
<1>1. \A r \in Record : status'[r] = IF r \in hand THEN "SYNCED" ELSE status[r]
  BY DEF Accept
<1>2. UNCHANGED <<kind, stale, stored, receipts, strays>> /\ EndCycle
  BY DEF Accept
<1>3. hand \subseteq stored
  BY DEF Accept, UploadIsHand, StoredSoFar, Slot
<1>4. stale \subseteq Record
  BY DEF TypeOK
<1>5. ClaimedInFlight' /\ UploadIsHand'
  BY <1>2 DEF EndCycle, ClaimedInFlight, UploadIsHand
<1>6. StaleInFlight' /\ NothingLost' /\ OnlyRefusedQuarantined'
  BY <1>1, <1>2, <1>3, <1>4 DEF StaleInFlight, NothingLost, OnlyRefusedQuarantined, EndCycle
<1>7. UploadGivenUp
  BY ForgottenIsGivenUp DEF Accept
<1>8. UploadInv'
  BY <1>1, <1>2, <1>7, GivenUpKeepsUploads DEF UploadInv
<1> QED
  BY <1>5, <1>6, <1>8 DEF QueueInv

LEMMA RefusedSteps ==
  ASSUME IInv, Refused
  PROVE  QueueInv' /\ UploadInv'
<1>1. UNCHANGED <<kind, stale, stored, receipts, strays>> /\ EndCycle /\ UploadGivenUp
  BY ForgottenIsGivenUp DEF Refused, bounds, IInv
<1>2. strays' \in Nat /\ strays' >= strays
  BY <1>1, TelemetryAssumption DEF IInv, TypeOK
<1>3. QueueInv' /\ \A r \in Record : status[r] # "ABSENT" => status'[r] # "ABSENT"
  <2>1. CASE Cardinality(hand) > 1
    <3>1. MarkRetry(hand, Retried, AtOnce)
      BY <2>1 DEF Refused, SplitOrQuarantine
    <3>2. \A r \in hand : Retried[r] # "PERMANENT_ERROR"
      BY DEF Retried, IInv, TypeOK
    <3> QED
      BY <1>1, <1>2, <3>1, <3>2, Verdicts, RetriedAtEnd
  <2>2. CASE ~ Cardinality(hand) > 1
    <3>1. MarkRetry(hand, Quarantined, AfterBackoff)
      BY <2>2 DEF Refused, SplitOrQuarantine
    <3>2. \A r \in hand : kind[r] # "good"
      BY <2>2, RefusedAlone
    <3> QED
      BY <1>1, <1>2, <3>1, <3>2, Verdicts, RetriedAtEnd
  <2> QED
    BY <2>1, <2>2
<1>4. UploadInv'
  BY <1>1, <1>3, GivenUpKeepsUploads DEF IInv, UploadInv
<1> QED
  BY <1>3, <1>4

LEMMA StraySteps ==
  ASSUME IInv, Stray
  PROVE  QueueInv' /\ UploadInv'
<1>1. UNCHANGED <<kind, stale, stored, receipts>> /\ EndCycle /\ UploadGivenUp
  BY AbandonedIsGivenUp DEF Stray, IInv
<1>2. strays' \in Nat /\ strays' >= strays /\ strays' > 0
  BY TelemetryAssumption DEF Stray, IInv, TypeOK
<1>3. \/ MarkRetry(hand, Retried, AtOnce) \/ MarkRetry(hand, Retried, AfterBackoff)
      \/ MarkRetry(hand, Denied, AfterBackoff) \/ MarkRetry(hand, Quarantined, AfterBackoff)
  BY DEF Stray, SplitOrQuarantine
<1>4. QueueInv' /\ \A r \in Record : status[r] # "ABSENT" => status'[r] # "ABSENT"
  BY <1>1, <1>2, <1>3, Verdicts, RetriedAtEnd
<1>5. UploadInv'
  BY <1>1, <1>4, GivenUpKeepsUploads DEF IInv, UploadInv
<1> QED
  BY <1>4, <1>5

LEMMA UploadRaisesSteps ==
  ASSUME IInv, UploadRaises
  PROVE  QueueInv' /\ UploadInv'
<1>1. UNCHANGED <<kind, stale, stored, receipts, strays>> /\ EndCycle /\ UploadGivenUp
  BY AbandonedIsGivenUp DEF UploadRaises, IInv
<1>2. strays' \in Nat /\ strays' >= strays
  BY <1>1, TelemetryAssumption DEF IInv, TypeOK
<1>3. MarkRetry(hand, Retried, AfterBackoff)
  BY DEF UploadRaises
<1>4. \A r \in hand : Retried[r] # "PERMANENT_ERROR"
  BY DEF Retried, IInv, TypeOK
<1>5. QueueInv' /\ \A r \in Record : status[r] # "ABSENT" => status'[r] # "ABSENT"
  BY <1>1, <1>2, <1>3, <1>4, Verdicts, RetriedAtEnd
<1>6. UploadInv'
  BY <1>1, <1>5, GivenUpKeepsUploads DEF IInv, UploadInv
<1> QED
  BY <1>5, <1>6

LEMMA InterruptionSteps ==
  ASSUME IInv, CycleDies \/ Crash
  PROVE  QueueInv' /\ UploadInv'
<1> USE DEF IInv
<1>1. UNCHANGED <<kind, stored, receipts, strays>> /\ EndCycle /\ UploadGivenUp
  BY AbandonedIsGivenUp DEF CycleDies, Crash
<1>2. /\ stale' \subseteq stale
      /\ \A r \in Record : \/ status'[r] = status[r] 
                           \/ status'[r] = "RETRY_PENDING" /\ stale' = {}
  BY DEF CycleDies, Crash, rows
<1>3. stale \subseteq Record
  BY DEF TypeOK
<1>4. ClaimedInFlight' /\ UploadIsHand'
  BY <1>1 DEF EndCycle, ClaimedInFlight, UploadIsHand
<1>5. StaleInFlight'
  BY <1>1, <1>2, <1>3 DEF StaleInFlight, EndCycle
<1>6. NothingLost' /\ OnlyRefusedQuarantined'
  BY <1>1, <1>2 DEF NothingLost, OnlyRefusedQuarantined
<1>7. UploadInv'
  BY <1>1, <1>2, GivenUpKeepsUploads DEF UploadInv
<1> QED
  BY <1>4, <1>5, <1>6, <1>7 DEF QueueInv

LEMMA PassingSteps ==
  ASSUME IInv, Passing
  PROVE  QueueInv' /\ UploadInv'
<1> USE DEF IInv
<1>1. UNCHANGED <<kind, status, pc, hand, request, stored, receipts, strays>>
  BY DEF Passing, GrowStale, BackoffEnds, agent, manager, bounds
<1>2. \A r \in stale' : status[r] = "IN_FLIGHT" /\ r \notin hand
  BY DEF Passing, GrowStale, BackoffEnds, StaleInFlight
<1> QED
  BY <1>1, <1>2 DEF QueueInv, UploadInv, ClaimedInFlight, UploadIsHand, StaleInFlight, NothingLost,
     OnlyRefusedQuarantined, UploadsCollected, StoredSoFar, ReceiptsTruthful, RefusedForCause

---------------------------------------------------------------------------
(* The theorems *)

\* The invariant of the synchronisation: what claims, uploads and receipts
\* mean for the rows and for the manager's store.
THEOREM Invariant == Spec => []IInv
<1>1. Init => IInv
  BY TypeInit, UploadInvInit DEF IInv, QueueInv, UploadInv
<1>2. IInv /\ [Next]_vars => IInv'
  <2> SUFFICES ASSUME IInv, [Next]_vars PROVE IInv'
    OBVIOUS
  <2>1. TypeOK /\ HandBounded
    BY DEF IInv
  <2>2. CASE Collector
    BY <2>1, <2>2, EnqueueTyped, SaveCursorTyped, CollectorSteps DEF Collector, IInv, QueueInv, UploadInv
  <2>3. CASE Claim
    BY <2>1, <2>3, ClaimTyped, ClaimSteps DEF IInv, QueueInv, UploadInv
  <2>4. CASE SendBatch
    BY <2>1, <2>4, SendBatchTyped, SendBatchSteps DEF IInv, QueueInv, UploadInv
  <2>5. CASE Accept
    BY <2>1, <2>5, AnswerTyped, AcceptSteps DEF IInv, QueueInv, UploadInv
  <2>6. CASE Refused
    BY <2>1, <2>6, AnswerTyped, RefusedSteps DEF IInv, QueueInv, UploadInv
  <2>7. CASE UploadRaises
    BY <2>1, <2>7, AnswerTyped, UploadRaisesSteps DEF IInv, QueueInv, UploadInv
  <2>8. CASE Passing
    BY <2>1, <2>8, PassingTyped, PassingSteps DEF Passing, IInv, QueueInv, UploadInv
  <2>9. CASE \E q \in Slot : Manager(q)
    BY <2>1, <2>9, ManagerTyped, ManagerSteps DEF IInv, QueueInv, UploadInv
  <2>10. CASE Stray
    BY <2>1, <2>10, AnswerTyped, StraySteps DEF IInv, QueueInv, UploadInv
  <2>11. CASE CycleDies \/ Crash
    BY <2>1, <2>11, InterruptionTyped, InterruptionSteps DEF IInv, QueueInv, UploadInv
  <2>12. CASE UNCHANGED vars
    BY <2>12 DEF vars, rows, agent, manager, bounds, IInv, TypeOK, HandBounded, ClaimedInFlight,
       UploadIsHand, StaleInFlight, UploadsCollected, StoredSoFar, ReceiptsTruthful,
       RefusedForCause, NothingLost, OnlyRefusedQuarantined
  <2> QED
    BY <2>2, <2>3, <2>4, <2>5, <2>6, <2>7, <2>8, <2>9, <2>10, <2>11, <2>12 DEF Next, Uploader
<1> QED
  BY <1>1, <1>2, PTL DEF Spec

\* Every variable keeps its type; the adaptive batch size in particular stays
\* between one record and the configured batch.
THEOREM TypeCorrect == Spec => []TypeOK
<1>1. IInv => TypeOK
  BY DEF IInv
<1> QED
  BY <1>1, Invariant, PTL

\* The agent deletes a row only after the manager stored the record.
THEOREM NoTelemetryLost == Spec => []NothingLost
<1>1. IInv => NothingLost
  BY DEF IInv
<1> QED
  BY <1>1, Invariant, PTL

\* A good record is quarantined only after an answer that was not the manager's.
THEOREM GoodNotQuarantined == Spec => []OnlyRefusedQuarantined
<1>1. IInv => OnlyRefusedQuarantined
  BY DEF IInv
<1> QED
  BY <1>1, Invariant, PTL

---------------------------------------------------------------------------
(* The implementation of TelemetryTransfer *)

\* Rows that stay in the queue and records that stay stored are a stutter.
LEMMA TransferStutters ==
  ASSUME UNCHANGED stored,
         \A r \in Record : status'[r] \in Queued <=> status[r] \in Queued
  PROVE  UNCHANGED Transfer!vars
BY DEF Transfer!vars

\* A row in someone's hands or to be retried is in the queue.
LEMMA MarkedRowsQueued ==
  ASSUME IInv, NEW verdict \in [Record -> {"RETRY_PENDING", "PERMANENT_ERROR"}], NEW delay,
         NEW S \in SUBSET hand, MarkRetry(S, verdict, delay)
  PROVE  \A r \in Record : status'[r] \in Queued <=> status[r] \in Queued
BY DEF MarkRetry, IInv, ClaimedInFlight, Queued, Waiting

LEMMA EnqueueCollects ==
  ASSUME IInv, NEW r \in Record, Enqueue(r)
  PROVE  Transfer!Collect(r) \/ UNCHANGED Transfer!vars
<1>1. UNCHANGED stored
  BY DEF Enqueue, manager
<1>2. CASE status[r] \in {"ABSENT", "SYNCED"}
  <2>1. status' = [status EXCEPT ![r] = "PENDING"] /\ status \in [Record -> Queued \cup {"ABSENT", "SYNCED"}]
    BY <1>2 DEF Enqueue, IInv, TypeOK
  <2>2. \A x \in Record : status'[x] \in Queued <=> status[x] \in Queued \/ x = r
    BY <2>1 DEF Queued, Waiting
  <2>3. status[r] \notin Queued
    BY <1>2 DEF Queued, Waiting
  <2> QED
    BY <1>1, <2>2, <2>3 DEF Transfer!Collect
<1>3. CASE status[r] \notin {"ABSENT", "SYNCED"}
  <2>1. UNCHANGED status
    BY <1>3 DEF Enqueue
  <2> QED
    BY <1>1, <2>1 DEF Transfer!vars
<1> QED
  BY <1>2, <1>3

LEMMA ChunkIsStored ==
  ASSUME IInv, NEW q \in Slot, Manager(q)
  PROVE  (\E S \in SUBSET Record : Transfer!Store(S)) \/ UNCHANGED Transfer!vars
<1>1. UNCHANGED status
  BY DEF Manager, Recognise, Parse, StoreChunk, SaveReceipt, rows
<1>2. CASE UNCHANGED stored
  BY <1>1, <1>2 DEF Transfer!vars
<1>3. CASE StoreChunk(q)
  <2>1. PICK C \in SUBSET request[q].left : stored' = stored \cup C \/ UNCHANGED stored
    BY <1>3 DEF StoreChunk
  <2>2. CASE stored' = stored \cup C
    <3>1. request[q].left \subseteq request[q].rows /\ request[q].rows \subseteq Record
      BY DEF IInv, StoredSoFar, TypeOK, Request
    <3>2. \A r \in C : status[r] # "ABSENT"
      BY <3>1 DEF IInv, UploadsCollected
    <3>3. \A r \in C \ stored : status[r] \in Queued
      BY <3>1, <3>2 DEF IInv, TypeOK, NothingLost
    <3>4. Transfer!Store(C \ stored)
      BY <1>1, <2>2, <3>1, <3>3 DEF Transfer!Store
    <3> QED
      BY <3>1, <3>4
  <2>3. CASE UNCHANGED stored
    BY <1>2, <2>3
  <2> QED
    BY <2>1, <2>2, <2>3
<1> QED
  BY <1>2, <1>3 DEF Manager, Recognise, Parse, SaveReceipt

LEMMA AcceptGivesUp ==
  ASSUME IInv, Accept
  PROVE  \E S \in SUBSET Record : Transfer!GiveUp(S)
<1>1. \A r \in Record : status'[r] = IF r \in hand THEN "SYNCED" ELSE status[r]
  BY DEF Accept
<1>2. UNCHANGED stored
  BY DEF Accept
<1>3. hand \subseteq stored
  BY DEF IInv, Accept, UploadIsHand, StoredSoFar, Slot
<1>4. hand \in SUBSET Record /\ \A r \in hand : status[r] \in Queued
  BY DEF IInv, TypeOK, ClaimedInFlight, Queued
<1>5. "SYNCED" \notin Queued
  BY DEF Queued, Waiting
<1>6. PICK S \in SUBSET Record : S = hand
  BY <1>4
<1>7. Transfer!GiveUp(S)
  BY <1>1, <1>2, <1>3, <1>4, <1>5, <1>6 DEF Transfer!GiveUp
<1> QED
  BY <1>7

\* The claim, the answers that retry or quarantine, time and crashes leave
\* every row in the queue.
LEMMA OthersStutter ==
  ASSUME IInv, Claim \/ SendBatch \/ Refused \/ UploadRaises \/ Stray \/ CycleDies \/ Crash
               \/ Passing \/ SaveCursor \/ UNCHANGED vars
  PROVE  UNCHANGED Transfer!vars
<1>1. UNCHANGED stored
  BY DEF Claim, SendBatch, Refused, UploadRaises, Stray, CycleDies, Crash, Passing, SaveCursor,
     GrowStale, BackoffEnds, vars, manager
<1>2. CASE Claim
  <2>1. PICK S \in SUBSET Eligible :
           status' = [r \in Record |-> IF r \in S THEN "IN_FLIGHT"
                                       ELSE IF r \in stale THEN "RETRY_PENDING" ELSE status[r]]
    BY <1>2 DEF Claim
  <2>2. \A r \in Eligible : status[r] \in Queued
    BY DEF Eligible, Queued, IInv, StaleInFlight
  <2>3. \A r \in stale : status[r] \in Queued
    BY DEF Queued, IInv, StaleInFlight
  <2>4. \A r \in Record : status'[r] \in Queued <=> status[r] \in Queued
    BY <2>1, <2>2, <2>3 DEF Queued, Waiting
  <2> QED
    BY <1>1, <2>4, TransferStutters
<1>3. CASE SendBatch
  <2>1. MarkRetry({r \in hand : kind[r] = "foreign"}, Quarantined, AfterBackoff)
    BY <1>3 DEF SendBatch
  <2>2. \A r \in Record : status'[r] \in Queued <=> status[r] \in Queued
    BY <2>1, MarkedRowsQueued, Verdicts
  <2> QED
    BY <1>1, <2>2, TransferStutters
<1>4. CASE Refused \/ UploadRaises \/ Stray
  <2>1. \/ MarkRetry(hand, Retried, AtOnce) \/ MarkRetry(hand, Retried, AfterBackoff)
        \/ MarkRetry(hand, Denied, AfterBackoff) \/ MarkRetry(hand, Quarantined, AfterBackoff)
    BY <1>4 DEF Refused, UploadRaises, Stray, SplitOrQuarantine
  <2>2. \A r \in Record : status'[r] \in Queued <=> status[r] \in Queued
    BY <2>1, MarkedRowsQueued, Verdicts
  <2> QED
    BY <1>1, <2>2, TransferStutters
<1>5. CASE Crash
  <2>1. \A r \in Record : status'[r] \in Queued <=> status[r] \in Queued
    BY <1>5 DEF Crash, Queued, Waiting
  <2> QED
    BY <1>1, <2>1, TransferStutters
<1>6. CASE CycleDies \/ Passing \/ SaveCursor \/ UNCHANGED vars
  <2>1. UNCHANGED status
    BY <1>6 DEF CycleDies, Passing, GrowStale, BackoffEnds, SaveCursor, vars, rows
  <2> QED
    BY <1>1, <2>1, TransferStutters
<1> QED
  BY <1>2, <1>3, <1>4, <1>5, <1>6

\* Collection, storing and giving up are the only things an observer of the
\* queue and of the manager's store sees, in the order the transfer demands.
THEOREM Refinement == Spec => ImplementsTransfer
<1>1. Init => Transfer!Init
  BY DEF Init, Transfer!Init, Queued, Waiting
<1>2. IInv /\ [Next]_vars => [Transfer!Next]_(Transfer!vars)
  <2> SUFFICES ASSUME IInv, [Next]_vars PROVE Transfer!Next \/ UNCHANGED Transfer!vars
    BY DEF Transfer!Next
  <2>1. CASE \E r \in Record : Enqueue(r)
    BY <2>1, EnqueueCollects DEF Transfer!Next
  <2>2. CASE \E q \in Slot : Manager(q)
    BY <2>2, ChunkIsStored DEF Transfer!Next
  <2>3. CASE Accept
    BY <2>3, AcceptGivesUp DEF Transfer!Next
  <2>4. CASE \/ Claim \/ SendBatch \/ Refused \/ UploadRaises \/ Stray \/ CycleDies \/ Crash
             \/ Passing \/ SaveCursor \/ UNCHANGED vars
    BY <2>4, OthersStutter
  <2> QED
    BY <2>1, <2>2, <2>3, <2>4 DEF Next, Collector, Uploader
<1> QED
  BY <1>1, <1>2, Invariant, PTL DEF Spec, ImplementsTransfer, Transfer!Spec

=============================================================================
