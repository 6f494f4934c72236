--------------------------- MODULE TelemetrySync ---------------------------
(***************************************************************************)
(* One agent's telemetry: the rows of offline_events                       *)
(* (agent/storage/offline_queue.py), the upload cycle sync_offline_queue   *)
(* (agent/agent_daemon.py), and the manager's ingest (api/ingestion.py),   *)
(* which stores a batch in several transactions before it records the      *)
(* receipt.  Uploads are lost, time out while the manager still works on   *)
(* them, are repeated, split and quarantined; the agent crashes.           *)
(*                                                                         *)
(* Abstractions.                                                           *)
(*  - A record is its event_id; kind says what the agent or the manager    *)
(*    will find wrong with it.  A record collected twice has the same      *)
(*    payload: the conflict enqueue raises otherwise changes no row.       *)
(*  - The batch_id, a hash of the records, is the set of them.             *)
(*  - Rows are claimed and stored in any order, not by id.                 *)
(*  - attempts saturates at 3, where AUTHENTICATION failures become        *)
(*    permanent and the backoff exceeds the upload interval.               *)
(*  - retry stands for next_attempt_at: reached, within the upload         *)
(*    interval, or later.  The interval is the default, 2 seconds.         *)
(*  - The manager handles at most one upload the agent has given up.       *)
(*  - Connection states are in AgentConnection; here the gate of           *)
(*    telemetry_cycle only delays a claim.                                 *)
(***************************************************************************)
EXTENDS Integers, FiniteSets

CONSTANTS
  Record,           \* event and log identifiers
  Plain,            \* records nobody finds anything wrong with
  MaxBatch,         \* operational_max
  ChunkSize,        \* ZTA_INGEST_TRANSACTION_SIZE
  MaxFaults,        \* bound on failures of network, manager and local store,
                    \* agent crashes and stray answers together
  None

ASSUME TelemetryAssumption ==
  /\ IsFiniteSet(Record) /\ Plain \subseteq Record
  /\ MaxBatch \in Nat \ {0} /\ ChunkSize \in Nat \ {0}
  /\ MaxFaults \in Nat
  /\ None \notin Record

\* foreign: other agent identity or signature, seen before the upload;
\* malformed: refused by the parse of the whole batch; conflicting: refused
\* when its transaction runs; breaking: its transaction raises an error that
\* do_POST does not answer.
Kind == {"good", "foreign", "malformed", "conflicting", "breaking"}

VARIABLES
  kind,             \* fixed by the records
  \* the agent's database
  status, attempts, retry,
  stale,            \* IN_FLIGHT for longer than ZTA_INFLIGHT_TIMEOUT_SECONDS
  size,             \* telemetry_adaptive_batch_size
  cursor,           \* records the collector's checkpoint is past
  \* the agent's threads
  collecting,       \* record enqueued, checkpoint not yet saved
  pc, hand,         \* upload cycle, the rows it claimed
  \* the manager
  request,          \* the upload the agent waits for, and one it gave up
  stored, receipts,
  \* bounds
  faults,           \* failures and crashes
  strays            \* answers that are not the manager's verdict

rows      == <<status, attempts, retry, stale>>
agent     == <<collecting, pc, hand>>
manager   == <<request, stored, receipts>>
bounds    == <<faults, strays>>
vars      == <<kind, rows, size, cursor, agent, manager, bounds>>

Slot == {"current", "late"}

NoRequest == [phase |-> "none", rows |-> {}, left |-> {}]

Init ==
  /\ kind \in {k \in [Record -> Kind] : \A r \in Plain : k[r] = "good"}
  /\ status = [r \in Record |-> "ABSENT"]
  /\ attempts = [r \in Record |-> 0]
  /\ retry = [r \in Record |-> "now"]
  /\ stale = {}
  /\ size = MaxBatch
  /\ cursor = {} /\ collecting = None
  /\ pc = "idle" /\ hand = {}
  /\ request = [q \in Slot |-> NoRequest]
  /\ stored = {} /\ receipts = {}
  /\ faults = 0 /\ strays = 0

---------------------------------------------------------------------------
(* The collector *)

\* enqueue returns on a row it already has; a row that was given up is new.
Enqueue(r) ==
  /\ collecting = None /\ r \notin cursor
  /\ collecting' = r
  /\ IF status[r] \in {"ABSENT", "SYNCED"}
     THEN status' = [status EXCEPT ![r] = "PENDING"]
     ELSE UNCHANGED status
  /\ UNCHANGED <<kind, attempts, retry, stale, size, cursor, pc, hand, manager, bounds>>

SaveCursor ==
  /\ collecting # None
  /\ cursor' = cursor \cup {collecting}
  /\ collecting' = None
  /\ UNCHANGED <<kind, rows, size, pc, hand, manager, bounds>>

---------------------------------------------------------------------------
(* The upload cycle up to the request *)

Waiting == {"PENDING", "RETRY_PENDING"}
Queued  == Waiting \cup {"IN_FLIGHT", "PERMANENT_ERROR"}

Least(m, n) == IF m <= n THEN m ELSE n

\* The backoff of mark_retry: none, 2 seconds, 4 seconds or more.
Backoff(r) == CASE attempts[r] <= 1 -> "now" [] attempts[r] = 2 -> "short" [] OTHER -> "long"

\* mark_retry of the rows S.
MarkRetry(S, verdict, delay) ==
  /\ status' = [r \in Record |-> IF r \in S THEN verdict[r] ELSE status[r]]
  /\ retry' = [r \in Record |-> IF r \in S THEN delay[r] ELSE retry[r]]

Retried     == [r \in Record |-> "RETRY_PENDING"]
Quarantined == [r \in Record |-> "PERMANENT_ERROR"]
Denied      == [r \in Record |-> IF attempts[r] >= 3 THEN "PERMANENT_ERROR" ELSE "RETRY_PENDING"]
AfterBackoff == [r \in Record |-> Backoff(r)]
AtOnce       == [r \in Record |-> "now"]

\* claim_batch first takes back rows that stayed IN_FLIGHT too long.
Eligible ==
  stale \cup {r \in Record : status[r] \in Waiting /\ retry[r] = "now"}

Claim ==
  /\ pc = "idle"
  /\ \E S \in SUBSET Eligible :
       /\ Cardinality(S) = Least(size, Cardinality(Eligible))
       /\ hand' = S /\ pc' = IF S = {} THEN "idle" ELSE "send"
       /\ status' = [r \in Record |-> IF r \in S THEN "IN_FLIGHT"
                                      ELSE IF r \in stale THEN "RETRY_PENDING" ELSE status[r]]
       /\ attempts' = [r \in Record |-> IF r \in S THEN Least(3, attempts[r] + 1) ELSE attempts[r]]
       /\ retry' = [r \in Record |-> IF r \in S \cup stale THEN "now"
                                     ELSE IF retry[r] = "long" THEN "short" ELSE retry[r]]
  /\ stale' = {}
  /\ UNCHANGED <<kind, size, cursor, collecting, manager, bounds>>

\* Rows of another identity stay behind, quarantined.
SendBatch ==
  /\ pc = "send"
  /\ LET foreign == {r \in hand : kind[r] = "foreign"}
         pending == hand \ foreign
     IN /\ MarkRetry(foreign, Quarantined, AfterBackoff)
        /\ hand' = pending
        /\ IF pending = {}
           THEN pc' = "idle" /\ UNCHANGED request
           ELSE /\ pc' = "wait"
                /\ request' = [request EXCEPT !["current"] =
                                 [phase |-> "sent", rows |-> pending, left |-> {}]]
  /\ UNCHANGED <<kind, attempts, stale, size, cursor, collecting, stored, receipts, bounds>>

---------------------------------------------------------------------------
(* ingest on the manager, for the current upload or an abandoned one *)

\* Nobody hears the answer to an abandoned upload.
Answer(q, phase) ==
  request' = [request EXCEPT ![q] =
    IF q = "late" THEN NoRequest ELSE [phase |-> phase, rows |-> @.rows, left |-> {}]]

MutRecognise(q) ==
  /\ request[q].phase = "sent" /\ \E b \in receipts : b \cap request[q].rows # {}
  /\ Answer(q, "accepted")
  /\ UNCHANGED <<kind, rows, size, cursor, agent, stored, receipts, bounds>>

\* A batch that was handled before is answered with its stored response.
Recognise(q) ==
  /\ request[q].phase = "sent" /\ request[q].rows \in receipts
  /\ Answer(q, "accepted")
  /\ UNCHANGED <<kind, rows, size, cursor, agent, stored, receipts, bounds>>

\* The parse covers the whole batch before anything is stored.
Parse(q) ==
  /\ request[q].phase = "sent" /\ request[q].rows \notin receipts
  /\ IF \E r \in request[q].rows : kind[r] \in {"foreign", "malformed"}
     THEN Answer(q, "refused")
     ELSE request' = [request EXCEPT ![q] =
                        [phase |-> "storing", rows |-> @.rows, left |-> @.rows]]
  /\ UNCHANGED <<kind, rows, size, cursor, agent, stored, receipts, bounds>>

\* One transaction stores up to ChunkSize records or none of them.
StoreChunk(q) ==
  /\ request[q].phase = "storing" /\ request[q].left # {}
  /\ \E C \in SUBSET request[q].left :
       /\ Cardinality(C) = Least(ChunkSize, Cardinality(request[q].left))
       /\ \/ /\ \A r \in C : kind[r] \notin {"conflicting", "breaking"}
             /\ stored' = stored \cup C
             /\ request' = [request EXCEPT ![q] =
                             [phase |-> "storing", rows |-> @.rows, left |-> @.left \ C]]
          \/ /\ \E r \in C : kind[r] = "conflicting"
             /\ Answer(q, "refused")
             /\ UNCHANGED stored
          \/ /\ \E r \in C : kind[r] = "breaking"
             /\ Answer(q, "dropped")
             /\ UNCHANGED stored
  /\ UNCHANGED <<kind, rows, size, cursor, agent, receipts, bounds>>

SaveReceipt(q) ==
  /\ request[q].phase = "storing" /\ request[q].left = {}
  /\ receipts' = receipts \cup {request[q].rows}
  /\ Answer(q, "accepted")
  /\ UNCHANGED <<kind, rows, size, cursor, agent, stored, bounds>>

---------------------------------------------------------------------------
(* What the agent makes of the answer *)

\* One failure of the network, the manager, the local store or the process.
Fails == faults + strays < MaxFaults /\ faults' = faults + 1

EndCycle == pc' = "idle" /\ hand' = {}

\* The agent stops waiting: the upload was lost, the manager failed on it, or
\* the manager is still at it and will not be heard.
Abandon ==
  \/ request' = [request EXCEPT !["current"] = NoRequest]
  \/ /\ request["current"].phase \in {"sent", "storing"} /\ request["late"].phase = "none"
     /\ request' = [q \in Slot |-> IF q = "late" THEN request["current"] ELSE NoRequest]

MutHalvedToNothing == Cardinality(hand) \div 2

MutNotHalved == size

\* Halved when a batch of several rows failed.
Halved == IF Cardinality(hand) > 1 THEN Cardinality(hand) \div 2 ELSE size

\* 201: the rows are deleted.  The local store may fail after that, which
\* retries rows that no longer exist.
Accept ==
  /\ pc = "wait" /\ request["current"].phase = "accepted"
  /\ status' = [r \in Record |-> IF r \in hand THEN "SYNCED" ELSE status[r]]
  /\ attempts' = [r \in Record |-> IF r \in hand THEN 0 ELSE attempts[r]]
  /\ retry' = [r \in Record |-> IF r \in hand THEN "now" ELSE retry[r]]
  /\ \/ size' = Least(MaxBatch, 2 * size) /\ UNCHANGED faults
     \/ Fails /\ size' = Halved
  /\ request' = [request EXCEPT !["current"] = NoRequest]
  /\ EndCycle
  /\ UNCHANGED <<kind, stale, cursor, collecting, stored, receipts, strays>>

MutQuarantineBatch == MarkRetry(hand, Quarantined, AfterBackoff) /\ size' = Halved

MutRetryBatch == MarkRetry(hand, Retried, AfterBackoff) /\ size' = Halved

\* A refusal does not say which record is bad: a batch of several is tried
\* again in halves, a batch of one is quarantined.
SplitOrQuarantine ==
  /\ IF Cardinality(hand) > 1 THEN MarkRetry(hand, Retried, AtOnce)
                              ELSE MarkRetry(hand, Quarantined, AfterBackoff)
  /\ size' = Halved

Refused ==
  /\ pc = "wait" /\ request["current"].phase = "refused"
  /\ SplitOrQuarantine
  /\ request' = [request EXCEPT !["current"] = NoRequest]
  /\ EndCycle
  /\ UNCHANGED <<kind, attempts, stale, cursor, collecting, stored, receipts, bounds>>

\* An answer of something between agent and manager: any other 4xx, 401 or
\* 403, 429 or 5xx, or a 2xx without the list of accepted records.
Stray ==
  /\ pc = "wait" /\ faults + strays < MaxFaults
  /\ \/ SplitOrQuarantine
     \/ /\ MarkRetry(hand, Denied, AfterBackoff) \/ MarkRetry(hand, Retried, AfterBackoff)
                                                 \/ MarkRetry(hand, Quarantined, AfterBackoff)
        /\ UNCHANGED size
  /\ Abandon
  /\ EndCycle
  /\ strays' = strays + 1
  /\ UNCHANGED <<kind, attempts, stale, cursor, collecting, stored, receipts, faults>>

\* A timeout, a broken connection or a failing local store.
UploadRaises ==
  /\ pc = "wait"
  /\ \/ request["current"].phase = "dropped" /\ UNCHANGED faults
     \/ Fails
  /\ MarkRetry(hand, Retried, AfterBackoff)
  /\ size' = Halved
  /\ Abandon
  /\ EndCycle
  /\ UNCHANGED <<kind, attempts, stale, cursor, collecting, stored, receipts, strays>>

\* The local store fails where nothing catches it: the rows stay IN_FLIGHT.
CycleDies ==
  /\ pc \in {"send", "wait"}
  /\ Fails
  /\ Abandon
  /\ EndCycle
  /\ UNCHANGED <<kind, rows, size, cursor, collecting, stored, receipts, strays>>

---------------------------------------------------------------------------
(* Time and crashes *)

GrowStale(r) ==
  /\ status[r] = "IN_FLIGHT" /\ r \notin hand \cup stale
  /\ stale' = stale \cup {r}
  /\ UNCHANGED <<kind, status, attempts, retry, size, cursor, agent, manager, bounds>>

BackoffEnds(r) ==
  /\ status[r] \in Waiting /\ retry[r] = "short"
  /\ retry' = [retry EXCEPT ![r] = "now"]
  /\ UNCHANGED <<kind, status, attempts, stale, size, cursor, agent, manager, bounds>>

\* The constructor of the queue takes every IN_FLIGHT row back.
Crash ==
  /\ Fails
  /\ status' = [r \in Record |-> IF status[r] = "IN_FLIGHT" THEN "RETRY_PENDING" ELSE status[r]]
  /\ stale' = {}
  /\ collecting' = None
  /\ Abandon
  /\ EndCycle
  /\ UNCHANGED <<kind, attempts, retry, size, cursor, stored, receipts, strays>>

---------------------------------------------------------------------------
Collector == SaveCursor \/ \E r \in Record : Enqueue(r)
Uploader  == Claim \/ SendBatch \/ Accept \/ Refused \/ UploadRaises
Manager(q) == Recognise(q) \/ Parse(q) \/ StoreChunk(q) \/ SaveReceipt(q)
Passing   == \E r \in Record : GrowStale(r) \/ BackoffEnds(r)

Next ==
  \/ Collector \/ Uploader \/ Passing
  \/ \E q \in Slot : Manager(q)
  \/ Stray \/ CycleDies \/ Crash

Spec == Init /\ [][Next]_vars

\* The upload worker loops, the manager handles what it received, and time
\* passes.  Faults, stray answers and crashes are not forced.
FairSpec ==
  /\ Spec
  /\ WF_vars(Uploader)
  /\ WF_vars(Manager("current"))
  /\ \A r \in Record : WF_vars(GrowStale(r)) /\ WF_vars(BackoffEnds(r))

---------------------------------------------------------------------------
Request == [phase : {"none", "sent", "storing", "accepted", "refused", "dropped"},
            rows : SUBSET Record, left : SUBSET Record]

TypeOK ==
  /\ kind \in [Record -> Kind]
  /\ status \in [Record -> Queued \cup {"ABSENT", "SYNCED"}]
  /\ attempts \in [Record -> 0..3]
  /\ retry \in [Record -> {"now", "short", "long"}]
  /\ stale \in SUBSET Record /\ cursor \in SUBSET Record
  /\ size \in 1..MaxBatch
  /\ collecting \in Record \cup {None}
  /\ pc \in {"idle", "send", "wait"} /\ hand \in SUBSET Record
  /\ request \in [Slot -> Request]
  /\ stored \in SUBSET Record /\ receipts \in SUBSET SUBSET Record
  /\ faults \in 0..MaxFaults /\ strays \in 0..MaxFaults

\* A row is deleted from the agent's queue only when the manager has stored
\* the record, whatever was lost, repeated or abandoned before.
NothingLost == \A r \in Record : status[r] = "SYNCED" => r \in stored

\* Splitting finds the bad record: a good record is never quarantined with the
\* bad ones it was batched with, as long as every answer is one of the telemetry
\* handler.  Others are counted as strays, those 401, 403 and 429 included that
\* come from the manager itself.
OnlyRefusedQuarantined ==
  \A r \in Record : kind[r] = "good" /\ status[r] = "PERMANENT_ERROR" => strays > 0

\* Every good record reaches the manager, and its row is then given up, even
\* when a record in the same queue breaks every upload it is part of.
GoodArrive ==
  \A r \in Record : kind[r] = "good" /\ status[r] = "PENDING"
                      ~> status[r] = "SYNCED" \/ strays > 0

\* A record the manager will never take ends in quarantine instead of holding
\* up the queue for ever.
BadIsolated ==
  \A r \in Record : kind[r] \in {"foreign", "malformed", "conflicting"} /\ status[r] = "PENDING"
                      ~> status[r] = "PERMANENT_ERROR"

\* The abstract transfer of records from agent to manager.
Transfer == INSTANCE TelemetryTransfer WITH
  atAgent <- {r \in Record : status[r] \in Queued}, atManager <- stored
ImplementsTransfer == Transfer!Spec
============================================================================
