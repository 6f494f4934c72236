--------------------------- MODULE AgentConnection ---------------------------
(***************************************************************************)
(* What the endpoint agent believes of its connection to the manager: the  *)
(* state machine of agent/connection.py and everyone who drives it - the   *)
(* heartbeat worker (send_heartbeat), the telemetry upload worker          *)
(* (telemetry_cycle, sync_offline_queue) and the main thread that shuts    *)
(* the workers down (run_loop, agent/workers.py stop).                     *)
(*                                                                         *)
(* Abstractions.                                                           *)
(*  - backlog says which kinds of pending rows offline_events holds: some  *)
(*    that may be claimed now ("due"), some in retry backoff ("later"),    *)
(*    some claimed ("claimed").  pending_depth() is zero iff it is empty.  *)
(*  - reachable means that the manager answers this agent with HTTP 200;   *)
(*    an unreachable host, a refused credential, a refused configuration   *)
(*    and a proxy's garbage are the same to this module.                   *)
(*  - Of the supervisor's lock, only stop's long hold and the heartbeat's  *)
(*    two worker_supervisor.snapshot() calls matter.  Joining the workers  *)
(*    gives up on one that waits for the lock, or is in an upload (30 s    *)
(*    timeout against the join's 20 s); heartbeats time out after 5 s.     *)
(*  - Once the main thread ends, the process and its daemon threads do.    *)
(***************************************************************************)
EXTENDS Naturals

CONSTANTS
  MaxStoreFaults,   \* bound on failed writes of connection_state
  None

ASSUME ConnectionAssumption == MaxStoreFaults \in Nat

HeartbeatWorker == "heartbeat-worker"
UploadWorker    == "telemetry-upload-worker"
Worker          == {HeartbeatWorker, UploadWorker}

STATES == {"STARTING", "CONNECTING", "ONLINE", "DEGRADED", "OFFLINE",
           "RECONNECTING", "SYNCING", "STOPPING", "STOPPED"}

TRANSITIONS(s) ==
  CASE s = "STARTING"     -> {"CONNECTING", "OFFLINE", "STOPPING"}
    [] s = "CONNECTING"   -> {"ONLINE", "SYNCING", "OFFLINE", "DEGRADED", "STOPPING"}
    [] s = "ONLINE"       -> {"DEGRADED", "OFFLINE", "SYNCING", "STOPPING"}
    [] s = "DEGRADED"     -> {"ONLINE", "OFFLINE", "RECONNECTING", "SYNCING", "STOPPING"}
    [] s = "OFFLINE"      -> {"RECONNECTING", "CONNECTING", "STOPPING"}
    [] s = "RECONNECTING" -> {"SYNCING", "ONLINE", "OFFLINE", "DEGRADED", "STOPPING"}
    [] s = "SYNCING"      -> {"ONLINE", "OFFLINE", "DEGRADED", "STOPPING"}
    [] s = "STOPPING"     -> {"STOPPED"}
    [] s = "STOPPED"      -> {}

MutReportable == {"STARTING", "CONNECTING", "ONLINE", "SYNCING", "DEGRADED"}
\* The states a heartbeat may report to the manager (api/server.py:886).
Reportable == {"STARTING", "CONNECTING", "ONLINE", "RECONNECTING", "SYNCING", "DEGRADED"}

VARIABLES
  state,            \* ConnectionStateMachine._state
  backlog,          \* kinds of pending rows in offline_events
  pc,               \* where each worker is
  prev, desired,    \* send_heartbeat: previous_state, desired
  reported,         \* the connection_state in the heartbeat being sent
  verdict, aim,     \* how an upload went, and the state it will set
  main,             \* the main thread
  manager,          \* "reachable" or not
  contact,          \* history: last news of the manager in this process
  storeFaults

heartbeatVars == <<prev, desired, reported>>
uploadVars    == <<verdict, aim>>
vars == <<state, backlog, pc, heartbeatVars, uploadVars, main, manager, contact, storeFaults>>

Init ==
  /\ state = "STARTING"
  /\ backlog = {}
  /\ pc = [w \in Worker |-> "idle"]
  /\ prev = None /\ desired = None /\ reported = None
  /\ verdict = None /\ aim = None
  /\ main = "running"
  /\ manager \in {"reachable", "unreachable"}
  /\ contact = "never"
  /\ storeFaults = 0

---------------------------------------------------------------------------
(* transition *)

Alive == main \notin {"stopped", "raised", "killed"}
reachable == manager = "reachable"
\* stop_event is set, and the supervisor's lock is held for all the joins.
stopping == main \in {"joining", "joined"}
locked == main = "joining"
Allowed(target) == target = state \/ target \in TRANSITIONS(state)

\* The new state is set, then stored.
Move(target) == state' = target /\ UNCHANGED storeFaults

\* Storing it raises: the caller sees an exception, the new state stays.
MoveUnsaved(target) ==
  /\ target # state
  /\ storeFaults < MaxStoreFaults
  /\ state' = target
  /\ storeFaults' = storeFaults + 1

At(w, label) == Alive /\ pc[w] = label
Goto(w, label) == pc' = [pc EXCEPT ![w] = label]
\* The worker's cycle is over, normally or by an exception.
EndCycle(w) == Goto(w, IF stopping THEN "ended" ELSE "idle")

---------------------------------------------------------------------------
(* The heartbeat worker *)

BeginHeartbeat ==
  /\ At(HeartbeatWorker, "idle") /\ ~stopping
  /\ prev' = state
  /\ Goto(HeartbeatWorker, "attempt")
  /\ UNCHANGED <<state, backlog, desired, reported, uploadVars, main, manager,
                 contact, storeFaults>>

\* The state to pass through before the request, if any.
AttemptTarget == IF prev \in {"OFFLINE", "DEGRADED"} THEN "RECONNECTING" ELSE "CONNECTING"
Connects == prev \notin {"ONLINE", "SYNCING", AttemptTarget}
Forced == prev = "STOPPED"

Attempt ==
  /\ At(HeartbeatWorker, "attempt")
  /\ IF Connects
     THEN (Forced \/ Allowed(AttemptTarget)) /\ Move(AttemptTarget)
     ELSE UNCHANGED <<state, storeFaults>>
  /\ Goto(HeartbeatWorker, "telemetry")
  /\ UNCHANGED <<backlog, heartbeatVars, uploadVars, main, manager, contact>>

\* The transition before the request is outside the try: an illegal one, or
\* one that cannot be stored, ends the cycle.
AttemptRaises ==
  /\ At(HeartbeatWorker, "attempt") /\ Connects
  /\ IF Forced \/ Allowed(AttemptTarget)
     THEN MoveUnsaved(AttemptTarget)
     ELSE UNCHANGED <<state, storeFaults>>
  /\ prev' = None
  /\ EndCycle(HeartbeatWorker)
  /\ UNCHANGED <<backlog, desired, reported, uploadVars, main, manager, contact>>

\* get_system_telemetry reads the state, ...
ReadTelemetry ==
  /\ At(HeartbeatWorker, "telemetry")
  /\ reported' = state
  /\ Goto(HeartbeatWorker, "snapshot")
  /\ UNCHANGED <<state, backlog, prev, desired, uploadVars, main, manager, contact,
                 storeFaults>>

\* ... and waits for the supervisor's lock to read the workers' health.
Snapshot ==
  /\ At(HeartbeatWorker, "snapshot") /\ ~locked
  /\ Goto(HeartbeatWorker, "post")
  /\ UNCHANGED <<state, backlog, heartbeatVars, uploadVars, main, manager, contact,
                 storeFaults>>

HeartbeatAnswered ==
  /\ At(HeartbeatWorker, "post") /\ reachable /\ reported \in Reportable
  /\ desired' = IF backlog # {} THEN "SYNCING" ELSE "ONLINE"
  /\ contact' = "answered"
  /\ reported' = None
  /\ Goto(HeartbeatWorker, "accept")
  /\ UNCHANGED <<state, backlog, prev, uploadVars, main, manager, storeFaults>>

HeartbeatUnanswered ==
  /\ At(HeartbeatWorker, "post") /\ (~reachable \/ reported \notin Reportable)
  /\ reported' = None
  /\ Goto(HeartbeatWorker, "fail")
  /\ UNCHANGED <<state, backlog, prev, desired, uploadVars, main, manager, contact,
                 storeFaults>>

\* An accepted heartbeat; the MANAGER_CONNECTED log is posted or enqueued.
AcceptHeartbeat ==
  /\ At(HeartbeatWorker, "accept") /\ Allowed(desired)
  /\ Move(desired)
  /\ contact' = "answered"
  /\ backlog' \in IF prev \in {"ONLINE", "SYNCING"} THEN {backlog}
                 ELSE {backlog, backlog \cup {"due"}}
  /\ prev' = None /\ desired' = None
  /\ EndCycle(HeartbeatWorker)
  /\ UNCHANGED <<reported, uploadVars, main, manager>>

\* The same transition refused, or not stored, or upload_results raising after
\* it (called here once the supervisor has stopped): the except clause follows.
AcceptRaises ==
  /\ At(HeartbeatWorker, "accept")
  /\ \/ Allowed(desired) /\ MoveUnsaved(desired)
     \/ ~Allowed(desired) /\ UNCHANGED <<state, storeFaults>>
     \/ Allowed(desired) /\ Move(desired) /\ main = "joined"
  /\ desired' = None
  /\ Goto(HeartbeatWorker, "fail")
  /\ UNCHANGED <<backlog, prev, reported, uploadVars, main, manager, contact>>

MutHeartbeatFails ==
  /\ At(HeartbeatWorker, "fail")
  /\ IF prev = "OFFLINE" THEN Move("OFFLINE") ELSE UNCHANGED <<state, storeFaults>>
  /\ IF prev = "OFFLINE" THEN EndCycle(HeartbeatWorker) ELSE Goto(HeartbeatWorker, "report")
  /\ prev' = None
  /\ UNCHANGED <<backlog, desired, reported, uploadVars, main, manager, contact>>

\* The except clause forces OFFLINE whatever the state is by now ...
HeartbeatFails ==
  /\ At(HeartbeatWorker, "fail")
  /\ \/ Move("OFFLINE") /\ prev # "OFFLINE" /\ Goto(HeartbeatWorker, "report")
     \/ Move("OFFLINE") /\ prev = "OFFLINE" /\ EndCycle(HeartbeatWorker)
     \/ MoveUnsaved("OFFLINE") /\ EndCycle(HeartbeatWorker)
  /\ prev' = None
  /\ UNCHANGED <<backlog, desired, reported, uploadVars, main, manager, contact>>

\* ... and queues the failure unless the agent was OFFLINE before; the entry
\* holds another get_system_telemetry.
ReportFailure ==
  /\ At(HeartbeatWorker, "report") /\ ~locked
  /\ backlog' = backlog \cup {"due"}
  /\ EndCycle(HeartbeatWorker)
  /\ UNCHANGED <<state, heartbeatVars, uploadVars, main, manager, contact, storeFaults>>

---------------------------------------------------------------------------
(* The telemetry upload worker *)

\* telemetry_cycle only goes on while the agent believes it is connected.
Connected == state \in {"ONLINE", "SYNCING"}

BeginUpload ==
  /\ At(UploadWorker, "idle") /\ ~stopping /\ Connected
  /\ Goto(UploadWorker, "claim")
  /\ UNCHANGED <<state, backlog, heartbeatVars, uploadVars, main, manager, contact,
                 storeFaults>>

\* claim_batch first takes back claims that an earlier cycle left behind, once
\* they are 60 s old; a full batch leaves further rows due.
Claimable ==
  {backlog} \cup (IF "claimed" \in backlog THEN {(backlog \ {"claimed"}) \cup {"due"}} ELSE {})

ClaimBatch ==
  /\ At(UploadWorker, "claim")
  /\ \E b \in Claimable :
       /\ "due" \in b
       /\ backlog' \in {b \cup {"claimed"}, (b \ {"due"}) \cup {"claimed"}}
  /\ Goto(UploadWorker, "flag")
  /\ UNCHANGED <<state, heartbeatVars, uploadVars, main, manager, contact, storeFaults>>

\* No row may be claimed: if the state is SYNCING, it becomes ONLINE next.
NothingDue ==
  /\ At(UploadWorker, "claim") /\ "due" \notin backlog
  /\ IF state = "SYNCING" THEN Goto(UploadWorker, "drained") ELSE EndCycle(UploadWorker)
  /\ UNCHANGED <<state, backlog, heartbeatVars, uploadVars, main, manager, contact,
                 storeFaults>>

Drained ==
  /\ At(UploadWorker, "drained")
  /\ \/ Allowed("ONLINE") /\ Move("ONLINE")
     \/ Allowed("ONLINE") /\ MoveUnsaved("ONLINE")
     \/ ~Allowed("ONLINE") /\ UNCHANGED <<state, storeFaults>>
  /\ EndCycle(UploadWorker)
  /\ UNCHANGED <<backlog, heartbeatVars, uploadVars, main, manager, contact>>

FlagSyncing ==
  /\ At(UploadWorker, "flag")
  /\ Move("SYNCING")
  /\ Goto(UploadWorker, "post")
  /\ UNCHANGED <<backlog, heartbeatVars, uploadVars, main, manager, contact>>

\* Outside the try: the claimed rows stay IN_FLIGHT.
FlagRaises ==
  /\ At(UploadWorker, "flag")
  /\ MoveUnsaved("SYNCING")
  /\ EndCycle(UploadWorker)
  /\ UNCHANGED <<backlog, heartbeatVars, uploadVars, main, manager, contact>>

\* The queue is updated, then pending_depth() decides what to say about it.
Settle(v, b, target) ==
  /\ At(UploadWorker, "post")
  /\ backlog' = b
  /\ verdict' = v /\ aim' = target
  /\ Goto(UploadWorker, "conclude")
  /\ UNCHANGED <<state, heartbeatVars, main, manager, contact, storeFaults>>

Unclaimed == backlog \ {"claimed"}
MutByDepth(b) == IF b # {} THEN "SYNCING" ELSE "OFFLINE"
ByDepth(b) == IF b # {} THEN "SYNCING" ELSE "ONLINE"

\* Every claimed row belongs to someone else or has a bad signature: all are
\* quarantined and nothing is sent.
SetAside == Settle("set aside", Unclaimed, ByDepth(Unclaimed))

\* Rows are retried at once the first time, after a backoff later.
Retries == SUBSET {"due", "later"}

\* HTTP 200 with the accepted ids; rows not among them are retried.
Acknowledged ==
  /\ reachable
  /\ \E k \in Retries : Settle("acknowledged", Unclaimed \cup k, ByDepth(Unclaimed \cup k))

\* HTTP 200 without a list of ids: the rows are quarantined.
Malformed == ~reachable /\ Settle("malformed", Unclaimed, "DEGRADED")

\* Refused with another HTTP status: rows are retried or quarantined.
Refused == \E k \in Retries : Settle("refused", Unclaimed \cup k, "SYNCING")

\* Not delivered, or an exception in handling the answer.
UploadFails == \E k \in Retries \ {{}} : Settle("failed", Unclaimed \cup k, "SYNCING")

\* An upload's news of the manager.
News(v) == CASE v = "acknowledged" -> "answered"
             [] v = "set aside" -> contact
             [] OTHER -> IF contact = "never" THEN "never" ELSE "failed"

\* Every state an upload ends with is forced.
Conclude ==
  /\ At(UploadWorker, "conclude")
  /\ Move(aim)
  /\ contact' = News(verdict)
  /\ verdict' = None /\ aim' = None
  /\ EndCycle(UploadWorker)
  /\ UNCHANGED <<backlog, heartbeatVars, main, manager>>

\* Not stored: after an answer the except clause follows, which retries the
\* rows still there, the quarantined ones included; elsewhere the cycle ends.
ConcludeRaises ==
  /\ At(UploadWorker, "conclude")
  /\ MoveUnsaved(aim)
  /\ \/ /\ verdict \in {"acknowledged", "malformed", "refused"}
        /\ verdict' = "failed" /\ aim' = "SYNCING"
        /\ \E k \in Retries : /\ verdict = "acknowledged" => k = {}
                              /\ backlog' = backlog \cup k
        /\ UNCHANGED pc
     \/ /\ verdict \in {"set aside", "failed"}
        /\ verdict' = None /\ aim' = None
        /\ EndCycle(UploadWorker)
        /\ UNCHANGED backlog
  /\ contact' = News(verdict)
  /\ UNCHANGED <<heartbeatVars, main, manager>>

---------------------------------------------------------------------------
(* The main thread *)

\* run_loop's finally clause.
Shutdown ==
  /\ main = "running"
  /\ \/ Move("STOPPING") /\ main' = "stop"
     \/ MoveUnsaved("STOPPING") /\ main' = "raised"
  /\ UNCHANGED <<backlog, pc, heartbeatVars, uploadVars, manager, contact>>

\* supervisor.stop sets the event and takes its lock for all the joins.
StopWorkers ==
  /\ main = "stop"
  /\ main' = "joining"
  /\ UNCHANGED <<state, backlog, pc, heartbeatVars, uploadVars, manager, contact,
                 storeFaults>>

WorkerEnds(w) ==
  /\ At(w, "idle") /\ stopping
  /\ Goto(w, "ended")
  /\ UNCHANGED <<state, backlog, heartbeatVars, uploadVars, main, manager, contact,
                 storeFaults>>

MutOutlasts(w) == FALSE
\* The worker is in a call that lasts longer than a join.
Outlasts(w) == \/ w = HeartbeatWorker /\ pc[w] \in {"snapshot", "report"}
               \/ w = UploadWorker /\ pc[w] = "post"

JoinsEnd ==
  /\ main = "joining"
  /\ \A w \in Worker : pc[w] = "ended" \/ Outlasts(w)
  /\ main' = "joined"
  /\ UNCHANGED <<state, backlog, pc, heartbeatVars, uploadVars, manager, contact,
                 storeFaults>>

\* The last transition is not forced.
Finish ==
  /\ main = "joined"
  /\ \/ Allowed("STOPPED") /\ Move("STOPPED") /\ main' = "stopped"
     \/ Allowed("STOPPED") /\ MoveUnsaved("STOPPED") /\ main' = "raised"
     \/ ~Allowed("STOPPED") /\ UNCHANGED <<state, storeFaults>> /\ main' = "raised"
  /\ UNCHANGED <<backlog, pc, heartbeatVars, uploadVars, manager, contact>>

---------------------------------------------------------------------------
(* Environment *)

\* A collector, a log or an incident adds a row.
Enqueue ==
  /\ Alive
  /\ backlog' = backlog \cup {"due"}
  /\ UNCHANGED <<state, pc, heartbeatVars, uploadVars, main, manager, contact,
                 storeFaults>>

BackoffEnds ==
  /\ "later" \in backlog
  /\ backlog' = (backlog \ {"later"}) \cup {"due"}
  /\ UNCHANGED <<state, pc, heartbeatVars, uploadVars, main, manager, contact,
                 storeFaults>>

NetworkChanges ==
  /\ manager' = IF reachable THEN "unreachable" ELSE "reachable"
  /\ UNCHANGED <<state, backlog, pc, heartbeatVars, uploadVars, main, contact,
                 storeFaults>>

\* What a process starts with: STARTING, whatever was stored.  Rows left
\* IN_FLIGHT are due again.
MutFresh == state' = state
Fresh == state' = "STARTING"
Recovered == IF "claimed" \in backlog THEN (backlog \ {"claimed"}) \cup {"due"} ELSE backlog

Boot(next) ==
  /\ Fresh
  /\ backlog' = Recovered
  /\ pc' = [w \in Worker |-> "idle"]
  /\ prev' = None /\ desired' = None /\ reported' = None
  /\ verdict' = None /\ aim' = None
  /\ main' = next
  /\ contact' = "never"
  /\ UNCHANGED <<manager, storeFaults>>

\* The process is killed; the memory of the next one is already described.
Crash == Alive /\ Boot("killed")
Restart == ~Alive /\ Boot("running")

---------------------------------------------------------------------------
HeartbeatNext ==
  \/ BeginHeartbeat \/ Attempt \/ AttemptRaises \/ ReadTelemetry \/ Snapshot
  \/ HeartbeatAnswered \/ HeartbeatUnanswered \/ AcceptHeartbeat \/ AcceptRaises
  \/ HeartbeatFails \/ ReportFailure \/ WorkerEnds(HeartbeatWorker)

UploadNext ==
  \/ BeginUpload \/ ClaimBatch \/ NothingDue \/ Drained \/ FlagSyncing \/ FlagRaises
  \/ SetAside \/ Acknowledged \/ Malformed \/ Refused \/ UploadFails \/ Conclude \/ ConcludeRaises
  \/ WorkerEnds(UploadWorker)

StopNext == StopWorkers \/ JoinsEnd \/ Finish

Next ==
  \/ HeartbeatNext \/ UploadNext \/ StopNext \/ Shutdown
  \/ Enqueue \/ BackoffEnds \/ NetworkChanges \/ Crash \/ Restart

Spec == Init /\ [][Next]_vars

\* The worker threads and the main thread are scheduled; the network and the
\* collectors owe nothing.
Fairness == WF_vars(HeartbeatNext) /\ WF_vars(UploadNext) /\ WF_vars(StopNext)

FairSpec == Spec /\ Fairness

---------------------------------------------------------------------------
(* Properties *)

\* Every variable keeps its type.
TypeOK ==
  /\ state \in STATES
  /\ backlog \subseteq {"due", "later", "claimed"}
  /\ pc \in [Worker -> {"idle", "attempt", "telemetry", "snapshot", "post", "accept", "fail",
                        "report", "claim", "flag", "drained", "conclude", "ended"}]
  /\ prev \in STATES \cup {None} /\ reported \in STATES \cup {None}
  /\ desired \in {"ONLINE", "SYNCING", None}
  /\ verdict \in {"set aside", "acknowledged", "malformed", "refused", "failed", None}
  /\ aim \in {"ONLINE", "SYNCING", "DEGRADED", None}
  /\ main \in {"running", "stop", "joining", "joined", "stopped", "raised", "killed"}
  /\ manager \in {"reachable", "unreachable"}
  /\ contact \in {"never", "answered", "failed"}
  /\ storeFaults \in 0..MaxStoreFaults

\* ONLINE is evidence from this process: after a start nothing but an answer of
\* the manager leads there, though uploads, backoffs and a stored state of the
\* process before could ("it never restores a stale prior ONLINE value as
\* current evidence", TASK_3_IMPLEMENTATION_REPORT.md:32).
OnlineAfterContact == state = "ONLINE" => contact # "never"

\* The manager refuses heartbeats that report OFFLINE, STOPPING or STOPPED
\* (api/server.py:886); until shutdown the agent never sends one, whatever the
\* upload worker does to the state meanwhile.
ReportIsAccepted ==
  pc[HeartbeatWorker] \in {"snapshot", "post"} /\ main = "running" => reported \in Reportable

\* If the manager stays reachable the agent comes back from any state, as long
\* as every connection state could be stored.  One that could not, on the way to
\* RECONNECTING, makes the next heartbeats ask for RECONNECTING -> CONNECTING,
\* which is illegal, until the process is restarted.  The formula is wider than
\* that case: it says nothing of a behaviour after any failure of the store.
Reconnects ==
  <>[]reachable => []<>(state \in {"ONLINE", "SYNCING"} \/ main # "running" \/ storeFaults > 0)

\* If the manager stays unreachable the agent keeps finding out, however often
\* a failing upload says SYNCING or ONLINE in between; again as long as every
\* connection state could be stored.
NoticesOutage ==
  <>[]~reachable => []<>(state = "OFFLINE" \/ main # "running" \/ storeFaults > 0)

\* Shutdown ends although stop holds the lock that a heartbeat waits for and
\* joins that heartbeat: the joins time out.
ShutdownEnds == main = "stop" ~> ~Alive

\* "any active state -> STOPPING -> STOPPED" (TASK_3_IMPLEMENTATION_REPORT.md:38,
\* arrows there): no illegal transition ends the shutdown.
StopsCleanly == main # "raised"
=============================================================================
