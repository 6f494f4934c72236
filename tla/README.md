# Verification of the Zero-Trust continuous authentication framework

TLA+ models of the protocols between the framework's *manager* (an HTTP server,
a SQLite database and a background worker) and its *agents* (a daemon with a
durable local queue and a handful of worker threads), model-checked with TLC
and, for the properties of every instance, proved with TLAPS.  File and line
references are to the repository this directory is kept beside; `src/` is its
root.

## 1. The system

| Component | State it keeps | Operations | Where |
|---|---|---|---|
| Response commands | manager: rows of `commands` and `incidents`; agent: in-memory `command_queue`, durable `command_journal` | create, dispatch in a heartbeat reply, queue, claim, announce, authorize, execute, verify, store and upload the report, expire, recover after a crash | `agent/agent_daemon.py`, `agent/commands/`, `agent/storage/offline_queue.py`, `api/ingestion.py`, `api/server.py`, `api/background.py` |
| Event processing | `zta_events.processing_*`, `realtime_outbox` | ingest, claim a batch, detect, publish, fail and retry, dead-letter, operator retry, take over abandoned claims, send pending publications | `api/background.py`, `engine/pipeline.py`, `storage/database.py`, `api/server.py` (`WebSocketHub`) |
| Agent connection | connection state (memory and local store), worker threads | heartbeat, upload cycle, shutdown | `agent/connection.py`, `agent/workers.py`, `agent/agent_daemon.py` |
| Telemetry queue and synchronisation | agent: `offline_events` rows, adaptive batch size; manager: `sync_receipts`, `zta_events` | enqueue, claim a batch, upload, acknowledge, retry, split, quarantine, take back stale claims | `agent/storage/offline_queue.py`, `agent/agent_daemon.py` (`sync_offline_queue`), `api/ingestion.py` (`ingest`) |
| Offline detection | the collector's offset, the local engine's database, the signed configuration cache, `command_journal` | collect, evaluate locally, execute, enqueue with evidence; import on the manager | `agent/collectors.py`, `agent/rules/`, `agent/agent_daemon.py`, `api/ingestion.py` (`import_offline`) |
| Detection pipeline | risk history, correlation window, matches, incidents, commands | correlate, evaluate conditions, add up risk, derive trust, select a policy, record an incident, build a command; decay the risk | `engine/`, `api/background.py` |
| Rules and policies | `rules`, `rule_versions`, `policies`; the policy list in memory | create, update, toggle, delete, roll back, reload | `storage/database.py`, `api/server.py` |
| Operator access | sessions, failed logins | log in, authorize, expire, log out | `api/auth.py` |
| Executors, collectors, installers, dashboard | the operating system | I/O | `powershell/`, `agent/execution/`, `agent/collectors.py`, `dashboard/`, installers |

How they interact.  The agent calls the manager over HTTP only: heartbeats
(answered with the commands to run), telemetry batches, command results, logs.
Inside each process, threads share a SQLite file (transactions, `BEGIN
IMMEDIATE`) and a little memory (the command queue, the connection state, the
supervisor's lock).  The manager's background worker ticks every second over
what the HTTP handlers stored.

What is hard in it: at-most-once execution of a command that is redelivered on
every heartbeat, taken by two threads and interrupted by crashes; results
uploaded over a network that loses answers; expiry judged by two clocks; work
rows claimed, abandoned and taken over; a failure handler that runs after the
work was committed; a connection state that three threads force from stale
reads; a shutdown that holds a lock its own workers wait for; rows edited by
two operators and used from a list that every thread refills; a detection that
reads the window and the score before it takes the lock, and may run twice; an
event that the agent acts on by itself, and whose line it may read again after a
crash.  The list of hazards in `PROJECT.json` names each at its line, with the
properties that cover it or the reason none does.

What makes each part correct:

- *commands*: an action runs at most once; the manager's terminal status is the
  agent's and is true; a row moves only forward and is closed in the end; no
  report is dropped before the manager stored it;
- *events*: counted once; retried until detected or given up, and given up only
  with an audit entry; publications not lost;
- *connection*: ONLINE is evidence from this process; heartbeats are acceptable
  to the manager; the agent reconnects, notices outages and shuts down;
- *telemetry*: an event leaves the queue only when the manager has it, and is
  stored once; one bad record does not take good ones with it;
- *offline detection*: no line is lost, the agent acts on an event once, and
  what it says about that is true and reaches the manager;
- *detection*: the engines compute what their definitions say, within bounds;
  failed logins are shared out among the alarms, as far as the detections have
  seen each other; the risk is that of all findings; an incident leads to one
  command;
- *rules and policies*: histories are complete, no edit is undone by another,
  what a match saw can be looked up, decisions use the stored policies.

## 2. Modules

| Module | What it is |
|---|---|
| `CommandLifecycle` | the command protocol, both ends, the network and the journal |
| `CommandContract` | what the manager promises an operator about a command: an abstract specification with three variables |
| `CommandLifecycle_proofs` | the invariants of `CommandLifecycle`, and that it implements `CommandContract` |
| `EventProcessing` | the rows of the detection work queue, the workers and the outbox's durability |
| `WorkQueue` | what the queue promises about an event, an abstract specification: its status, its effects and their notices, the audit |
| `EventProcessing_proofs` | the invariants of `EventProcessing`, when the report's promises hold, and that it implements `WorkQueue` |
| `AgentConnection`, `AgentConnection_proofs` | connection state, heartbeat, upload cycle and shutdown |
| `TelemetrySync` | one agent's telemetry queue, its upload cycle, and the manager's ingest of batches |
| `TelemetryTransfer` | what becomes of a telemetry record, an abstract specification with two variables: at the agent, at the manager |
| `TelemetrySync_proofs` | the invariants of `TelemetrySync`, and that it implements `TelemetryTransfer` |
| `RuleCatalog` | rules, their version history and policies under concurrent edits, and their use by the detection |
| `RuleHistory` | what becomes of a rule when several operators edit it, an abstract specification: the definitions it has had, the requests under way |
| `RuleCatalog_proofs` | the invariants of `RuleCatalog`, and that it implements `RuleHistory` |
| `ConditionTrees` | condition trees and their evaluation, as operators |
| `Correlation` | the correlation engine's replay, as operators, and a reference definition of what it looks for |
| `DetectionPipeline` | the detection transaction of several workers over one agent's events, with the decay; it extends the two modules above |
| `DetectionPipeline_proofs` | its invariants, and that the recursive computations of the three modules are what their definitions say |
| `OfflineCollection` | the collector, detection without contact, the agent's own commands and their evidence |
| `OfflineCollection_proofs` | its invariants, and that it implements `CommandContract` and `TelemetryTransfer` |
| `Contracts_proofs` | what the four abstract specifications promise |
| `MC*` | the modules TLC is run on; they name the instances and define what a `.cfg` file cannot write, such as rule tables |

Three modules meet at the event.  `OfflineCollection` has what happens to one
before it is in the queue, `TelemetrySync` its way to the manager, `EventProcessing`
who detects it and how often, `DetectionPipeline` what a detection computes and
writes.  Each takes of its neighbours only what it needs and says so in its
header: `EventProcessing` counts committed detections, and `DetectionPipeline`
has the takeovers and overwritten rows of `EventProcessing` as two workers that
may hold the same event and as `Fail`.  `RuleCatalog` has the transaction's use
of rules and policies, which do not change in `DetectionPipeline`;
`CommandLifecycle` has what becomes of the commands that are built.

The two components that execute commands, `CommandLifecycle` for those the manager
builds and `OfflineCollection` for those the agent gives itself, implement the
same `CommandContract`; the two that hold telemetry, `TelemetrySync` and
`OfflineCollection`, the same `TelemetryTransfer`.  An abstract specification has
no counterpart in the code: it is what a user of the component may rely on.

### CommandLifecycle

`row` and `evidence` are `commands.status` and the stored report; `claim`,
`report` and `reported` are the columns of `command_journal`; `inbox` is
`command_queue`; `pc`, `cmd`, `todo`, `pending` are the three threads that touch
commands (command worker, heartbeat worker, upload worker).  `executions`
counts what really happened at the endpoint.  One action per step between two
points where another thread, the network or a crash can intervene: the claim
transaction, the EXECUTING announcement, the check inside `process_command`,
the action, the journal update, each post and each answer.  On the manager each
handler is one action because it is one transaction.  `sent` only grows and
`RecordReport` may take any message in it at any time, which covers delay,
duplication and reordering; a message nobody takes is lost.  The two
`lapsed...` sets are the two clocks.  A crash and the recovery in the
constructor are one action, since no thread runs before the recovery.

### EventProcessing

A thread's `pc` is where it is in `BackgroundWorker.tick`.  The claim
transaction, the detection transaction, the delivery by `hub.commit`, the
failure transaction, and the service heartbeat after it are separate actions;
`CycleFails` is an exception outside the inner `try`.  `Restart` models the
constructor, which takes *every* PROCESSING row for abandoned, so several
workers on one database (as in
`test_two_workers_cannot_duplicate_detection_outcome`) are several members of
`Worker`.  `applied` counts committed detections, `overwritten` how often
COMPLETED was replaced by FAILED.  As a `WorkQueue` an event waits as long as
its row is pending, claimed, or failed with a time for the next attempt, and is
stopped if it is failed without one; the outbox is the notices, the dead-letter
audits are the audit.  A row released on its last attempt has such a time,
although no claim will take it: it waits in vain, which is finding 3.

### AgentConnection

`state` is the connection state, `backlog` which kinds of rows `offline_events`
holds.  `Move` and `MoveUnsaved` are `transition` with and without a failing
store (the state changes in memory first).  The heartbeat worker's actions are
the points of `send_heartbeat` where it reads or writes shared state, the
upload worker's those of `sync_offline_queue`, `main` is `run_loop` with
`supervisor.stop`.  `contact` is history: what this process last heard from the
manager.

### TelemetrySync

`status`, `attempts`, `retry` are columns of `offline_events` (a deleted row is
SYNCED), `size` is the adaptive batch size in the local store, `pc` and `hand`
are the upload cycle and the rows it claimed, `request` the upload it waits for
(`current`) and one it gave up while the manager was still at it (`late`).
`kind`, fixed from the start, says what will be found wrong with a record, and
where: by the agent before it sends, by the manager's parse of the whole batch,
by the transaction that stores the record, or by an exception nobody answers.
Claim, quarantine and sending, and the handling of each kind of answer are one
action each; on the manager, receipt lookup, parse, each transaction of up to
`ChunkSize` records, and the receipt are separate, because an abandoned upload
and a repeated one interleave there.  `Stray` stands for answers of something
between agent and manager, the only origin of the statuses this manager does
not send for an upload.  A collector is `Enqueue` and `SaveCursor`, so that a
crash between them collects a record twice.

### RuleCatalog

Every operator request reads a row, computes the row to write, and writes it in a
later transaction: `base`, `new` and `key` are what a thread holds in between,
`at` and `op` where it is.  The write of an edit or a rollback inserts the next
version's snapshot under the primary key of `rule_versions`; the key is all
that relates the two steps, and whether it suffices is the question.
`delete_rule` counts the linked policies when it begins and removes the row
later.  `engine` is the policy list shared by all threads: a request thread
reads the policies (`list`), empties the list, and installs them; the worker
does so too, under the database's write lock, before it matches.  `late` and
`disturbed` are history: the links made since a deletion counted, and a reload
by another thread during a detection.  `Restart` lays the baseline version.  As a
`RuleHistory` the snapshots of a rule, in the order of their numbers, are its
definitions, and a thread between its read and its answer is a request that has
seen as many definitions as the version of the row it read.

### ConditionTrees, Correlation, DetectionPipeline

A condition tree is a sequence of nodes, children after their parent.  What a
comparison does is one of five outcomes per field (absent, holds, fails, raises a
type error, cannot be evaluated), which is all the evaluator tells apart.  A
`TypeError` counts as false, so that a NOT above it matches; an evaluation that
cannot be completed is an error that makes every group above it false.

`ProcessEvent` is one step of the correlation engine, `Correlate` its replay of
the latest `ReplayLimit` events before an event, and `Expected` says without any
engine which findings there should be: a success is suspicious if enough
failures of its user in the window have not been used by an earlier suspicious
success.

In `DetectionPipeline`, `Preflight` is what `process` reads before the write
lock, `Detect` the transaction, `Publish` and `Fail` what can follow.  `hand` is
what a worker brings to the lock.  `Scores` goes through the rules in the order
of their codes and clamps after each, as the risk engine does; every match is
judged at the risk reached so far, which selects the policy.  Whether a command
can be built is a choice for each policy (`built`), as `build_command` looks at
what that policy's action needs.  `logins` is history: what the detection of
each successful login had seen, and whether it raised an alarm.  `AlarmsCountOnce`
relates these records across detections, whoever made them and in whatever order:
a login raises an alarm just if enough failures of its user in its window are
behind no alarm of a login before it.  It says so of a login that builds on
those before it, that is, has seen them and the events they had seen; section 5
has what happens otherwise.  An incident is
kept by event and rule and replaced when the event is detected again: the new
one says NOT_EXECUTED while the first one's command is under way.  `enforcing`
makes the same module the agent's local engine.

### OfflineCollection

`stage` says how far `collect` is with the line after the saved offset
(`cursor`).  `command` and `deadline` are the offline command in the local
engine's database, `journal` its row in `command_journal`, `queue` the row of
`offline_events` with its evidence.  Every write is an action, and a crash
(`Crash`, with the recovery of the queue's constructor) or a failed write
(`WriteFails`) may come between any two; the line is then read again, perhaps
with contact, under another configuration, or after an expiry.  On the manager,
`Upload` stores an event or refuses it for its evidence, and `ManagerResponds`
is a command for an event that came in online.  In the mapping to
`CommandContract` the phase and the outcome of an event's own command are those of
its row in the local database, and what it did is `effects`; in the mapping to
`TelemetryTransfer` a line is at the agent while its row is queued.

## 3. Runs

| Run | Instance | States | What it shows |
|---|---|---|---|
| `command_lifecycle` | 1 command, queue of 1, 3 threads, 1 crash | 92,994 | agreement of both ends, forward-only rows, refinement of the contract (in which the outcome is true), and closing of commands and reports under fairness |
| `unreported_execution` | same | violated | finding 1 |
| `event_processing` | 1 event, 2 workers, 2 attempts; one restart, publish fault, cycle fault, operator retry | 17,375 | refinement of the work queue (counting, audit, publications with their effect), what disturbs the report's promises, settling, delivery of publications |
| `event_publish_fault`, `event_exhausted` | 1 event, 1 worker | violated | findings 2 and 3 |
| `agent_connection` | 2 workers and the main thread, one store fault, unlimited network changes and crashes | 184,384 | the invariant and the three liveness properties |
| `connection_shutdown` | same, no store fault | violated | finding 4 |
| `telemetry_sync` | a good record and one of every kind, batches of 2, transactions of 1, any two of: network, manager or store failure, crash, stray answer | 429,882 | only bad records are quarantined, refinement of the transfer, good records arrive and bad ones are isolated |
| `rule_catalog` | 1 rule, 1 policy, 2 request threads and the worker, 3 requests, 3 versions, restarts | 1,344,887 | refinement of the rule history (no lost edit, nothing rewritten), deletions, evidence, decisions |
| `policy_reload` | 1 request | violated | finding 5 |
| `detection_pipeline` | 2 workers, 5 timestamps, 12 streams of logins of two users, shells, connections and revealing events; 2 rules, 3 policies, 1 overwritten completion, manager's and agent's engine | 382,902 | alarms across detections, conditions, risk, decay, commands |
| `offline_collection` | 2 lines, one of which triggers; lifetimes of 1 tick, 2 ticks, 1 new configuration, 1 interruption | 228,648 | the agent's own actions and their evidence, refinement of the command contract and the transfer, and that collection goes on |

Why the bounds are enough.  Commands do not share state except for the bounded
queue and the threads' programs: one command meets all three threads, a full
queue (a second delivery of the same command already overflows a queue of 1)
and a crash at every point; what two commands could add, a report selected
together with another and an exception that ends the loop, is the
nondeterministic `PostFailed`, and the proofs hold for any set of commands.
Two event workers are needed for a takeover; a second event shares nothing with
the first but the worker's program, and the proofs hold for any number.  Two
attempts distinguish a retry from the last attempt.  In `TelemetrySync` a
batch of two is the smallest that is split and the smallest in which a bad
record meets a good one, transactions of one record make every batch of two
commit in parts, and two faults let an abandoned upload meet its repetition and
a crash; the theorems cover other sizes.  In `RuleCatalog` two threads race on
one row, and three requests let an edit race a rollback or a deletion after a
version was made, and a deleted rule's id be asked for again.  In
`DetectionPipeline` five timestamps hold two failures and two successes within
and outside a window of three, in any order of detection; the rules put an
error under a NOT, next to a true sibling and under an ANY, the policies differ
in every guard of the selection, and the deltas reach the maximum.  A second
trigger in `OfflineCollection` would repeat the first one's course; the second
line shows what an obstacle does to what comes after it.

Bounds on crashes, restarts and faults are named constants in guards
(`MaxCrashes`, `MaxRestarts`, `MaxPublishFaults`, `MaxCycleFaults`, `MaxRetries`,
`MaxStoreFaults`, `MaxFaults`, `MaxVersion`, `MaxRequests`, `MaxTime`, `MaxOverwrites`,
`MaxRefreshes`, `MaxInterruptions`), and the theorems are for every value of
them.  Threads and workers are interchangeable in the two runs that declare
symmetry, which check safety only.  `CHECK_DEADLOCK FALSE` is set where the
system may really stop: all commands closed, all events settled, the agent
stopped, the queue empty or quarantined, all requests made.

### Fairness

- `CommandLifecycle`: the manager's tick and clock, the upload worker's steps
  (weak: threads that loop), and strong fairness on an upload being
  acknowledged, that is, a report posted again and again is answered at some
  point.  Nothing is assumed of the heartbeat and command workers, of an agent's
  clock, or that an upload is *accepted*.
- `EventProcessing`: each worker loops, and a retry time is reached.
- `AgentConnection`: the two workers and the main thread are scheduled; the
  network owes nothing, and the properties say what follows if it *stays*
  reachable or unreachable.
- `TelemetrySync`: the upload worker loops (the connection stays ONLINE or
  SYNCING), the manager goes on with the upload the agent waits for, a backoff
  ends and an orphaned claim grows old.  A backoff of four seconds or more
  outlasts at least one claim, as the default upload interval of two seconds
  makes it.  Failures are bounded in number instead of being excluded by
  fairness; a record that breaks every upload it is part of is not counted as a
  failure and goes on for ever.
- `OfflineCollection`: the collector polls for ever (weak fairness of its next
  step, whatever that is), and the upload of a row and its answer succeed at
  some point if there is contact again and again (strong).  Nothing is assumed
  of contact, of the clock or of new configurations.

## 4. Proofs

All theorems hold for every value of the constants that satisfies the named
assumptions (`CommandAssumption`, `EventAssumption`, `ConnectionAssumption`,
`TelemetryAssumption`, `CatalogAssumption`, `CorrelationAssumption`,
`PipelineAssumption`, `OfflineAssumption`: naturals, non-empty queue and batches,
finite sets of events and records, `None` outside the data, tables of the right
type whose conditions are trees).

`CommandLifecycle_proofs`.  `AtMostOnce` is not inductive by itself.  The
inductive invariant adds: a thread past the claim holds a command that exists
(`HeldCommandsExist`); at most one thread holds an unfinished claim
(`OneOwner`); the action has run only if the claim was made, and has run *not
yet* while its owner is before the run (`RunsAfterClaim`); the report of a
command tells the truth about `executions` (`TruthfulReports`); and every
report in the network, in a thread's hands on the manager, is the one in the
journal (`OneReport`).  From it follow at-most-once execution, agreement of
manager and journal, truth of the outcome, and that no report is given up
unstored.  `RowIsMonotone` is the action property.  `Refinement` shows that
each step, under the mapping of `row` to a phase, is a step of
`CommandContract` or leaves its variables unchanged; a run of an action may
happen after the contract's EXPIRED, because an expired row still takes a
report of an execution that began in time.

`EventProcessing_proofs`.  The inductive invariant adds that a row in a worker's
hands was claimed with a legal attempt and that `applied` is exactly the number
of times the event became COMPLETED (`CountExact`), from which `CountedOnce`
follows; `StoppedOnlyWithAudit` is inductive once the types are known.
`Refinement` needs besides that whatever a worker holds is the row of an event
that was received (`RowsReceived`), so that even a late worker's detection or
failure is a step of the queue.  `PromisesUndisturbed` says how far two promises
hold that the runs refute in general (findings 2 and 3): as long as nobody
takes rows over, a row is held by one worker, in the attempt the table shows
(`Ownership`), and only a failed publication can overwrite a completed row.

`AgentConnection_proofs`.  The invariant says that before any contact the state
is one of those reachable without an answer (`ContactFirst`), and what a
heartbeat between its two reads of the state may find there
(`OfflineIsLeftFirst`, `IntentKnown`).

`TelemetrySync_proofs`.  That a deleted row is stored depends on what an
acceptance means, so the invariant says what each phase of an upload implies:
what is no longer left to store is stored (`StoredSoFar`), a receipt stands for
a batch that is stored completely (`ReceiptsTruthful`), the upload a cycle
waits for is what it claimed (`UploadIsHand`), and claimed rows stay IN_FLIGHT
until the cycle ends (`ClaimedInFlight`).  That no good record is quarantined
needs that a refusal has a cause in the batch (`RefusedForCause`), so that a
refused batch of one is the bad record (`RefusedAlone`).  `Refinement` follows
because every uploaded record is or was in the queue (`UploadsCollected`): with
`NothingLost`, what an abandoned upload stores late is still at the agent or
already stored.

`RuleCatalog_proofs`.  The invariant says what a thread between its read and its
write holds: the row it read is the one its history has for that version, and
the row it will write is the next version (`RequestsFit`).  As snapshots are
never changed (`SnapshotsNeverChange`), the insertion of the next version
succeeds only if the row is still the one that was read, which gives
`EditsAreNotLost`; a deleted rule leaves its versions, the first one among
them (`FirstStays`), so that its id cannot be created again and `HistoryComplete`
is kept; and matches name snapshots that stay (`FoundStands`).  For
`Refinement` the snapshots of a rule are a set with consecutive numbers, and the
lemmas about `InOrder` show that listing them and adding the next one commute.
That an edit is computed from the latest definition is the same fact as
`EditsAreNotLost`, now as the guard of the abstract edit.

`DetectionPipeline_proofs`.  The score after the rules, the replay and the traces
of a tree are recursive functions.  That they exist, and agree with their
definitions, is proved by minimal counterexample: the naturals are
well-founded, so a set of naturals at which a claim fails would have a least
member (`LeastNat`, `Recursion`).  The risk after a detection is the clamped sum
of the deltas because no delta is negative (`ScoresSum`), although the engine
clamps after each.  An error reaches the root of a tree, as every node but the
root is a child (`ErrorsReachRoot`).  The replayed engine knows, at every time,
the failures no alarm has used and the events of the window (`ReplayFits`); the
alarms satisfy the equation that defines the suspicious successes, and that
equation has one solution (`AlarmsAreSuspicious`); so `Correlate` returns what is
`Expected`, if no more events came before than are replayed (`FindingsAreExact`).
That is a fact about one replay; `AlarmsAreDisjoint` is about all detections.
Each record in `logins` is what `Expected` says of the events it had seen
(`LoginsFit`); whether a login is suspicious depends on the events before it only
(`SuspiciousIsLocal`); so a detection that has seen what an earlier one had seen
decides about that login as the earlier one did, and the failures its replay
leaves are those left by the committed alarms (`AlarmsAgree`).  The decay stays
within its rate because whole points of two stretches of time are not more than
those of both (`WholePoints`, `DecayFits`).

`OfflineCollection_proofs`.  The journal is what a line that is read twice can
rely on.  The invariant ties the command of an event, its evidence and the
agent's actions to the journal (`CommandFits`, `EvidenceFits`), says what
`collect` knows between two of its writes (`StageFits`), and what holds besides
as long as it was never interrupted (`Uninterrupted`), on which `ActionsReported`
and the last part of `ActsOnce` rest.  `ReportsAreTrue` adds that an outcome says
what the agent did, a fact about the run between the claim in the journal and
its report, which the refinement of `CommandContract` needs; that of
`TelemetryTransfer` follows from `CollectedKept` and what an acknowledgement means.

`Contracts_proofs`.  That a component implements an abstract specification is
worth as much as that specification says; here it is shown to say, without any
assumption on the constants, that a command acts at most once, its outcome is
true and final, a collected record is never without a copy, a rule's history
is only added to and an edit of anything but its latest definition is refused,
an event has one effect per completion, none is given up silently, and every
effect leaves its notice in the same step.

`AtMostOnce`, `OutcomeMatchesEffect`, `ReportedOnlyIfStored`, `CountedOnce`,
`StoppedOnlyWithAudit`, `NoLostEdit`, `NothingLost` and `ReportIsAccepted` are proved
and have no run of their own: the refinement properties that are run, or the
invariants they are part of, imply them.  `FindingsExact` is proved only, as the
step to `AlarmsCountOnce`.

Every invariant, action property and refinement that a passing run checks is
also proved.  Only model-checked: the liveness properties (`OpenCommandsClose`,
`ReportsSettle`, `EventsSettle`, `PublicationsDelivered`, `Reconnects`,
`NoticesOutage`, `ShutdownEnds`, `GoodArrive`, `BadIsolated`, `LinesCollected`), which
need `ENABLED` and fairness, about which this prover does not reason, and the
violated properties, which TLC refutes.

## 5. Where documents and code disagree

1. `EveryExecutionReported`: ARCHITECTURE.md:23 promises that every execution
   is reported; the manager refuses reports with a late `executed_at`
   (`api/ingestion.py:71`) or an oversized field (line 23) for ever.
2. `AppliedOnce`: TASK_4_IMPLEMENTATION_REPORT.md:49 promises that retries are
   not counted twice; the failure handler (`api/background.py:84`) overwrites a
   COMPLETED row, for instance when publishing fails after the commit.
   `CountedOnce` states what does hold always, and `AsReportedUnlessDisturbed` when
   the promise holds.
3. `ExhaustedIsDeadLettered`: TASK_4_IMPLEMENTATION_REPORT.md:78; a restart
   during the last attempt leaves the event exhausted, with the retry time it
   had or, without one, that of the restart, and without the audit event
   (`api/background.py:25`).  Without a restart it holds
   (`AsReportedUnlessDisturbed`).
4. `StopsCleanly`: TASK_3_IMPLEMENTATION_REPORT.md:38; a heartbeat that outlives
   the stop forces OFFLINE, and OFFLINE to STOPPED is illegal
   (`agent/agent_daemon.py:448`, `:611`).
5. `EnabledPoliciesEvaluated`: TASK_4_IMPLEMENTATION_REPORT.md:60 promises that
   enabled policies are evaluated automatically; a request thread that reloads
   the policies empties the shared list for a moment (`api/server.py:268`), and
   a detection that matches then is decided without any (`engine/pipeline.py:140`).
   `DecidedWithStored` states what does hold.

Met on the way, and part of the models:

- CONTRACTS.md:65 has a failed synchronisation lead to DEGRADED; the upload cycle
  leaves SYNCING, or ONLINE with rows still queued
  (`agent/agent_daemon.py:469`).
- An offline command that expired before its execution makes `execute_command`
  raise for the same line on every poll (`agent/agent_daemon.py:362`), unlike
  TASK_3_IMPLEMENTATION_REPORT.md:100; `Blocked` names these states, and
  `LinesCollected` says that nothing else stops the collector.
- What the agent did offline may stay unreported: `import_offline` refuses an
  outcome UNKNOWN (`api/ingestion.py:247`) and an expired configuration, and
  evidence that comes for an event already stored is dropped.  `ActionReported`
  excludes exactly these.
- An incident that is detected again says NOT_EXECUTED though its command is
  queued (`engine/pipeline.py:155`).
- A comparison that raises `TypeError` counts as false, also under NOT, while
  `engine/events/conditions.py:108` calls incomplete evaluation never evidence;
  `ErrorNeverMatches` is about the evaluations the code reports as errors.
- Failed logins can count in two alarms.  "Clear processed failures" clears them
  in the replay of one detection (`engine/correlation/engine.py`), and that
  replay has only the events that were COMPLETED, and not later, when the
  worker read its window, before the write lock (`engine/pipeline.py:19-47`).
  Two successful logins after the same failures both raise an alarm if the later
  one is detected first, or both at the same time.  `AlarmsCountOnce` excludes
  exactly the logins whose detection missed an earlier one, or saw other events
  before that one than its own detection did.
- Findings are those of the definition only up to 1000 earlier events
  (`engine/pipeline.py:38`); beyond them failures are forgotten.
- Policies have no versions: of two concurrent updates the later one wins.
- Nothing in the manager closes an incident, so that a critical one stops the
  decay of the agent's risk for good.

## 6. Not modelled, and the plan

Abstractions of the present models: one agent; `CommandLifecycle` has the
manager's commands, `OfflineCollection` the agent's own; reports carry a status
and the one defect the manager refuses; failures of the agent's queue database
are not in `AgentConnection` (failures of its state store are); rules and
policies do not change within `DetectionPipeline`, a policy's condition is its
range of risk scores, and for which policies a command can be built is a choice;
recovery in `EventProcessing` reads all pending publications, not 200, whatever
their size; a report in `OfflineCollection` that `command_result` refuses for an
output or error of over 10,000 characters (`api/ingestion.py:22-24`) appears only as
a failed write, although the line would meet the refusal at every reading, so
that `LinesCollected` and `ActionReported` are about reports that are taken; in
`TelemetrySync` a record collected twice has the same payload (it has not in
`OfflineCollection`), and `recover_legacy_batch_rejections`, a one-time
migration, is left out; the feed of `OfflineCollection` is not rotated.

Not modelled, and why:

- the order, payload limit and pruning of the realtime outbox: the models keep
  what is to be delivered as a set, and the order is the reader's affair;
- the manager's view of an agent's liveness: displayed and audited, nothing in
  the models acts on it;
- operator authentication: sessions are created, checked and deleted in single
  statements, with the cryptographic part in library code;
- the Wazuh adapter, serialisation, templates and parameters of PowerShell
  scripts, operating-system collectors: data conversion and input without
  protocol state;
- WebSocket framing, the dashboard, installers and demonstrations: output.

What a next step could add, in this order: the outbox's stream with its window
of 200 and pruning, so that the two hazards of `api/server.py:195` and `:242` get
properties; rotation of the feed in `OfflineCollection`; the liveness thresholds.
To prove, next: an abstract specification of the connection's states, and one
of what a detection does to a score, with the refinements.
