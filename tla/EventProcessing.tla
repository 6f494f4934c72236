-------------------------- MODULE EventProcessing --------------------------
(***************************************************************************)
(* The manager's detection work queue: a row of zta_events from its        *)
(* ingestion (storage/database.py save_event, api/ingestion.py) through    *)
(* the claims, retries and dead-lettering of BackgroundWorker              *)
(* (api/background.py), the detection transaction (engine/pipeline.py) and *)
(* the publications it leaves in the realtime outbox (api/server.py        *)
(* WebSocketHub).  Several workers may share the database, as the test     *)
(* test_two_workers_cannot_duplicate_detection_outcome does.               *)
(*                                                                         *)
(* Abstractions.                                                           *)
(*  - The detection transaction is one step: it holds BEGIN IMMEDIATE and  *)
(*    commits or rolls back as a whole.  Its effect (risk, matches,        *)
(*    alerts, commands) is the number of times it committed.               *)
(*  - The publications of one transaction are one outbox entry.            *)
(*  - Rows are claimed and handled in any order, not by timestamp.         *)
(*  - retry stands for processing_next_attempt_at: NULL, in the future, or *)
(*    reached.                                                             *)
(*  - Liveness evaluation, expiry and risk decay, the rest of a tick, do   *)
(*    not touch the events: Housekeep only marks where they run.           *)
(***************************************************************************)
EXTENDS Integers, FiniteSets

CONSTANTS
  Event,            \* event_id values
  Worker,           \* BackgroundWorker threads sharing the database
  BatchSize,        \* LIMIT of the claim
  MaxAttempts,      \* ZTA_EVENT_MAX_ATTEMPTS
  MaxRestarts,      \* bound on manager restarts
  MaxPublishFaults, \* bound on failures of hub.commit after a detection
  MaxCycleFaults,   \* bound on failures that end a tick
  MaxRetries,       \* bound on operator retries
  None

Row == [event : Event, attempt : 1..MaxAttempts]

ASSUME EventAssumption ==
  /\ BatchSize \in Nat \ {0} /\ MaxAttempts \in Nat \ {0}
  /\ MaxPublishFaults \in Nat /\ MaxCycleFaults \in Nat
  /\ MaxRestarts \in Nat /\ MaxRetries \in Nat
  /\ IsFiniteSet(Event)
  /\ None \notin Row

VARIABLES
  \* zta_events
  state, attempts, retry,
  deadLettered,     \* events whose dead-letter audit stands
  \* what the committed transactions leave
  applied,          \* number of committed detections per event
  outbox,           \* publications not yet marked delivered
  \* the worker threads
  pc, batch,        \* the claimed rows still to handle
  cur,              \* the row being published or failed
  publication,      \* the outbox entry its hub.commit sends
  \* history and bounds
  overwritten,      \* number of times a COMPLETED event was set FAILED
  restarts, publishFaults, cycleFaults, retries

events == <<state, attempts, retry, deadLettered>>
thread == <<pc, batch, cur, publication>>
bounds == <<restarts, publishFaults, cycleFaults, retries>>
vars   == <<events, applied, outbox, thread, overwritten, bounds>>

Init ==
  /\ state = [e \in Event |-> "ABSENT"]
  /\ attempts = [e \in Event |-> 0]
  /\ retry = [e \in Event |-> "none"]
  /\ deadLettered = {}
  /\ applied = [e \in Event |-> 0]
  /\ outbox = {}
  /\ pc = [w \in Worker |-> "recover"]
  /\ batch = [w \in Worker |-> {}]
  /\ cur = [w \in Worker |-> None]
  /\ publication = [w \in Worker |-> None]
  /\ overwritten = [e \in Event |-> 0]
  /\ restarts = 0 /\ publishFaults = 0 /\ cycleFaults = 0 /\ retries = 0

---------------------------------------------------------------------------
(* The HTTP handlers *)

\* save_event inserts the row once; a redelivered event changes nothing.
Receive(e) ==
  /\ state[e] = "ABSENT"
  /\ state' = [state EXCEPT ![e] = "PENDING"]
  /\ UNCHANGED <<attempts, retry, deadLettered, applied, outbox, thread, overwritten, bounds>>

\* An event the agent handled offline arrives with its evidence: the import
\* and the state COMPLETED are in the transaction that inserts the row.
ReceiveEvidence(e) ==
  /\ state[e] = "ABSENT"
  /\ state' = [state EXCEPT ![e] = "COMPLETED"]
  /\ applied' = [applied EXCEPT ![e] = 1]
  /\ UNCHANGED <<attempts, retry, deadLettered, outbox, thread, overwritten, bounds>>

\* POST /api/zta/events/{id}/retry.
OperatorRetry(e) ==
  /\ state[e] = "FAILED" /\ retries < MaxRetries
  /\ state' = [state EXCEPT ![e] = "PENDING"]
  /\ attempts' = [attempts EXCEPT ![e] = 0]
  /\ retry' = [retry EXCEPT ![e] = "none"]
  /\ deadLettered' = deadLettered \ {e}
  /\ retries' = retries + 1
  /\ UNCHANGED <<applied, outbox, thread, overwritten, restarts, publishFaults, cycleFaults>>

---------------------------------------------------------------------------
(* One tick of a worker *)

Goto(w, label) == pc' = [pc EXCEPT ![w] = label]

MutRecoverPublications(w) ==
  /\ pc[w] = "recover"
  /\ Goto(w, "claim")
  /\ UNCHANGED <<events, applied, outbox, batch, cur, publication, overwritten, bounds>>

\* hub.recover_pending sends again what is not marked delivered.  That it reads
\* 200 at most, and that one over the payload limit stays where it is, is left
\* out.
RecoverPublications(w) ==
  /\ pc[w] = "recover"
  /\ outbox' = {}
  /\ Goto(w, "claim")
  /\ UNCHANGED <<events, applied, batch, cur, publication, overwritten, bounds>>

MutCandidates ==
  {e \in Event : state[e] = "PENDING" \/ (state[e] = "FAILED" /\ attempts[e] <= MaxAttempts)}

Candidates ==
  {e \in Event : \/ state[e] = "PENDING"
                 \/ state[e] = "FAILED" /\ attempts[e] < MaxAttempts /\ retry[e] = "due"}

MutClaim(w) ==
  /\ pc[w] = "claim"
  /\ \E C \in SUBSET Candidates :
       /\ Cardinality(C) <= BatchSize
       /\ attempts' = [e \in Event |-> IF e \in C THEN attempts[e] + 1 ELSE attempts[e]]
       /\ batch' = [batch EXCEPT ![w] = {[event |-> e, attempt |-> attempts[e] + 1] : e \in C}]
  /\ Goto(w, "work")
  /\ UNCHANGED <<state, retry, deadLettered, applied, outbox, cur, publication, overwritten, bounds>>

\* One transaction claims up to BatchSize rows; each row is read back with the
\* attempt it was claimed for.
Claim(w) ==
  /\ pc[w] = "claim"
  /\ \E C \in SUBSET Candidates :
       /\ Cardinality(C) <= BatchSize
       /\ Cardinality(C) = BatchSize \/ C = Candidates
       /\ state' = [e \in Event |-> IF e \in C THEN "PROCESSING" ELSE state[e]]
       /\ attempts' = [e \in Event |-> IF e \in C THEN attempts[e] + 1 ELSE attempts[e]]
       /\ batch' = [batch EXCEPT ![w] = {[event |-> e, attempt |-> attempts[e] + 1] : e \in C}]
  /\ Goto(w, "work")
  /\ UNCHANGED <<retry, deadLettered, applied, outbox, cur, publication, overwritten, bounds>>

\* Take the next row of the batch.
TakeRow(w, r) == pc[w] = "work" /\ r \in batch[w] /\ batch' = [batch EXCEPT ![w] = @ \ {r}]

\* The transaction finds the event COMPLETED by someone else.
AlreadyCompleted(w, r) ==
  /\ TakeRow(w, r)
  /\ state[r.event] = "COMPLETED"
  /\ UNCHANGED <<events, applied, outbox, pc, cur, publication, overwritten, bounds>>

MutDetect(w, r) ==
  /\ TakeRow(w, r)
  /\ state' = [state EXCEPT ![r.event] = "COMPLETED"]
  /\ retry' = [retry EXCEPT ![r.event] = "none"]
  /\ applied' = [applied EXCEPT ![r.event] = @ + 1]
  /\ outbox' = outbox \cup {<<r.event, applied[r.event] + 1>>}
  /\ publication' = [publication EXCEPT ![w] = <<r.event, applied[r.event] + 1>>]
  /\ cur' = [cur EXCEPT ![w] = r]
  /\ Goto(w, "publish")
  /\ UNCHANGED <<attempts, deadLettered, overwritten, bounds>>

\* The detection transaction commits: effects, publications and COMPLETED.
Detect(w, r) ==
  /\ TakeRow(w, r)
  /\ state[r.event] # "COMPLETED"
  /\ state' = [state EXCEPT ![r.event] = "COMPLETED"]
  /\ retry' = [retry EXCEPT ![r.event] = "none"]
  /\ applied' = [applied EXCEPT ![r.event] = @ + 1]
  /\ outbox' = outbox \cup {<<r.event, applied[r.event] + 1>>}
  /\ publication' = [publication EXCEPT ![w] = <<r.event, applied[r.event] + 1>>]
  /\ cur' = [cur EXCEPT ![w] = r]
  /\ Goto(w, "publish")
  /\ UNCHANGED <<attempts, deadLettered, overwritten, bounds>>

\* Decoding or the transaction raises, in whatever state the event is.
DetectFails(w, r) ==
  /\ TakeRow(w, r)
  /\ cur' = [cur EXCEPT ![w] = r]
  /\ Goto(w, "fail")
  /\ UNCHANGED <<events, applied, outbox, publication, overwritten, bounds>>

\* hub.commit after the transaction: send, and mark delivered.
Publish(w) ==
  /\ pc[w] = "publish"
  /\ outbox' = outbox \ {publication[w]}
  /\ publication' = [publication EXCEPT ![w] = None]
  /\ cur' = [cur EXCEPT ![w] = None]
  /\ Goto(w, "work")
  /\ UNCHANGED <<events, applied, batch, overwritten, bounds>>

\* hub.commit raises (marking the delivery is a database write): the same
\* except clause as for a failed detection.
PublishFails(w) ==
  /\ pc[w] = "publish" /\ publishFaults < MaxPublishFaults
  /\ publishFaults' = publishFaults + 1
  /\ publication' = [publication EXCEPT ![w] = None]
  /\ Goto(w, "fail")
  /\ UNCHANGED <<events, applied, outbox, batch, cur, overwritten, restarts, cycleFaults, retries>>

MutRecordFailure(w) ==
  /\ pc[w] = "fail"
  /\ LET e == cur[w].event
     IN  /\ state' = [state EXCEPT ![e] = "FAILED"]
         /\ retry' = [retry EXCEPT ![e] = IF cur[w].attempt >= MaxAttempts THEN "none" ELSE "later"]
         /\ overwritten' = [overwritten EXCEPT ![e] = IF state[e] = "COMPLETED" THEN @ + 1 ELSE @]
  /\ cur' = [cur EXCEPT ![w] = None]
  /\ Goto(w, "failed")
  /\ UNCHANGED <<attempts, deadLettered, applied, outbox, batch, publication, bounds>>

\* The except clause: FAILED with a retry time, or dead-lettered when the
\* attempt it was claimed for was the last.  The row's owner is not checked.
RecordFailure(w) ==
  /\ pc[w] = "fail"
  /\ LET e == cur[w].event
         terminal == cur[w].attempt >= MaxAttempts
     IN  /\ state' = [state EXCEPT ![e] = "FAILED"]
         /\ retry' = [retry EXCEPT ![e] = IF terminal THEN "none" ELSE "later"]
         /\ deadLettered' = IF terminal THEN deadLettered \cup {e} ELSE deadLettered
         /\ overwritten' = [overwritten EXCEPT ![e] = IF state[e] = "COMPLETED" THEN @ + 1 ELSE @]
  /\ cur' = [cur EXCEPT ![w] = None]
  /\ Goto(w, "failed")
  /\ UNCHANGED <<attempts, applied, outbox, batch, publication, bounds>>

\* The failure is also shown as a service heartbeat, outside any try.
NoteFailure(w) ==
  /\ pc[w] = "failed"
  /\ Goto(w, "work")
  /\ UNCHANGED <<events, applied, outbox, batch, cur, publication, overwritten, bounds>>

EndBatch(w) ==
  /\ pc[w] = "work" /\ batch[w] = {}
  /\ Goto(w, "housekeep")
  /\ UNCHANGED <<events, applied, outbox, batch, cur, publication, overwritten, bounds>>

Housekeep(w) ==
  /\ pc[w] = "housekeep"
  /\ Goto(w, "recover")
  /\ UNCHANGED <<events, applied, outbox, batch, cur, publication, overwritten, bounds>>

\* An exception outside the inner try ends the tick: the rest of the batch is
\* forgotten.  If run's own handler raises too, the thread is gone.
CycleFails(w) ==
  /\ pc[w] \in {"recover", "claim", "fail", "failed", "housekeep"} /\ cycleFaults < MaxCycleFaults
  /\ cycleFaults' = cycleFaults + 1
  /\ outbox' \in IF pc[w] = "recover" THEN SUBSET outbox ELSE {outbox}
  /\ batch' = [batch EXCEPT ![w] = {}]
  /\ cur' = [cur EXCEPT ![w] = None]
  /\ \E next \in {"recover", "dead"} : Goto(w, next)
  /\ UNCHANGED <<events, applied, publication, overwritten, restarts, publishFaults, retries>>

---------------------------------------------------------------------------
(* Environment *)

\* processing_next_attempt_at is reached.
RetryComesDue(e) ==
  /\ retry[e] = "later"
  /\ retry' = [retry EXCEPT ![e] = "due"]
  /\ UNCHANGED <<state, attempts, deadLettered, applied, outbox, thread, overwritten, bounds>>

MutRestart(w) ==
  /\ restarts < MaxRestarts
  /\ restarts' = restarts + 1
  /\ pc' = [pc EXCEPT ![w] = "recover"]
  /\ batch' = [batch EXCEPT ![w] = {}]
  /\ cur' = [cur EXCEPT ![w] = None]
  /\ publication' = [publication EXCEPT ![w] = None]
  /\ UNCHANGED <<events, applied, outbox, overwritten, publishFaults, cycleFaults,
                 retries>>

\* A manager dies, or is stopped, and a new one starts: BackgroundWorker's
\* constructor takes every PROCESSING row, its own or not, for abandoned.
Restart(w) ==
  /\ restarts < MaxRestarts
  /\ restarts' = restarts + 1
  /\ state' = [e \in Event |-> IF state[e] = "PROCESSING" THEN "FAILED" ELSE state[e]]
  /\ retry' = [e \in Event |->
                 IF state[e] = "PROCESSING" /\ retry[e] = "none" THEN "due" ELSE retry[e]]
  /\ pc' = [pc EXCEPT ![w] = "recover"]
  /\ batch' = [batch EXCEPT ![w] = {}]
  /\ cur' = [cur EXCEPT ![w] = None]
  /\ publication' = [publication EXCEPT ![w] = None]
  /\ UNCHANGED <<attempts, deadLettered, applied, outbox, overwritten, publishFaults, cycleFaults,
                 retries>>

---------------------------------------------------------------------------
\* What a running thread does; the failures of CycleFails are the database's.
WorkerNext(w) ==
  \/ RecoverPublications(w) \/ Claim(w) \/ EndBatch(w) \/ Housekeep(w)
  \/ Publish(w) \/ RecordFailure(w) \/ NoteFailure(w)
  \/ \E r \in batch[w] : AlreadyCompleted(w, r) \/ Detect(w, r) \/ DetectFails(w, r)

Next ==
  \/ \E e \in Event : Receive(e) \/ ReceiveEvidence(e) \/ OperatorRetry(e) \/ RetryComesDue(e)
  \/ \E w \in Worker : WorkerNext(w) \/ PublishFails(w) \/ CycleFails(w) \/ Restart(w)

Spec == Init /\ [][Next]_vars

\* The worker thread loops every second, and time passes.
Fairness ==
  /\ \A w \in Worker : WF_vars(WorkerNext(w))
  /\ \A e \in Event : WF_vars(RetryComesDue(e))

FairSpec == Spec /\ Fairness

---------------------------------------------------------------------------
(* Properties *)

\* Every variable keeps its type; no event is claimed for more than
\* ZTA_EVENT_MAX_ATTEMPTS attempts (Row), unless an operator resets it.
TypeOK ==
  /\ state \in [Event -> {"ABSENT", "PENDING", "PROCESSING", "FAILED", "COMPLETED"}]
  /\ attempts \in [Event -> 0..MaxAttempts]
  /\ retry \in [Event -> {"none", "later", "due"}]
  /\ deadLettered \subseteq Event
  /\ applied \in [Event -> Nat] /\ overwritten \in [Event -> Nat]
  /\ outbox \subseteq Event \X Nat
  /\ pc \in [Worker -> {"recover", "claim", "work", "publish", "fail", "failed", "housekeep", "dead"}]
  /\ batch \in [Worker -> SUBSET Row]
  /\ cur \in [Worker -> Row \cup {None}]
  /\ publication \in [Worker -> (Event \X Nat) \cup {None}]
  /\ restarts \in 0..MaxRestarts /\ retries \in 0..MaxRetries
  /\ publishFaults \in 0..MaxPublishFaults /\ cycleFaults \in 0..MaxCycleFaults

\* The detection of an event counts once, through claims taken over by another
\* worker, restarts and retries, except for the times the failure handler
\* wrote FAILED over a COMPLETED row.
CountedOnce == \A e \in Event : applied[e] <= 1 + overwritten[e]

\* "Stable event/match IDs and completed-state checks prevent retry
\* double-counting" (TASK_4_IMPLEMENTATION_REPORT.md:49).
AppliedOnce == \A e \in Event : applied[e] <= 1

\* An event that will not be tried again by itself says so in the audit trail.
StoppedOnlyWithAudit ==
  \A e \in Event : state[e] = "FAILED" /\ retry[e] = "none" => e \in deadLettered

\* "Exhausted events remain failed with no next-attempt timestamp and a
\* dead-letter audit event" (TASK_4_IMPLEMENTATION_REPORT.md:78).
ExhaustedIsDeadLettered ==
  \A e \in Event : state[e] = "FAILED" /\ attempts[e] = MaxAttempts
                     => retry[e] = "none" /\ e \in deadLettered

\* What the report says of both holds unless something disturbs the workers: a
\* detection counts once if no manager takes over the rows of another one and
\* no publication fails, and an exhausted event is dead-lettered if no manager
\* was restarted.
NoTakeover == restarts = 0 \/ \A u, v \in Worker : u = v

AsReportedUnlessDisturbed ==
  /\ NoTakeover /\ publishFaults = 0 => AppliedOnce
  /\ restarts = 0 => ExhaustedIsDeadLettered

\* As long as no tick dies, every event is detected, or is given up after its
\* attempts are used up, across retries, takeovers and restarts.
EventsSettle ==
  \A e \in Event : state[e] \in {"PENDING", "PROCESSING"} ~>
     \/ state[e] = "COMPLETED"
     \/ state[e] = "FAILED" /\ (attempts[e] = MaxAttempts \/ e \in deadLettered)
     \/ cycleFaults > 0

\* A publication committed with its detection is delivered in the end (as long
\* as no tick dies), also when the manager died in between or the first
\* delivery failed.
PublicationsDelivered ==
  \A e \in Event : \A n \in 1..(MaxAttempts * (MaxRetries + 1)) :
     <<e, n>> \in outbox ~> <<e, n>> \notin outbox \/ cycleFaults > 0

---------------------------------------------------------------------------
(* The queue behind the rows, workers and timers *)

Status(e) ==
  CASE state[e] = "ABSENT" -> "absent"
    [] state[e] = "COMPLETED" -> "done"
    [] state[e] = "FAILED" /\ retry[e] = "none" -> "stopped"
    [] OTHER -> "waiting"

Queue == INSTANCE WorkQueue WITH
  Item <- Event, status <- [e \in Event |-> Status(e)], effects <- applied,
  reopened <- overwritten, audited <- deadLettered, notices <- outbox

\* With all its claims, takeovers, retries and restarts the table is a work
\* queue: a detection takes effect only while its event wants it and leaves
\* its publication in the same step, and a row loses its next attempt only
\* together with a dead-letter audit.
ImplementsQueue == Queue!Spec
============================================================================
