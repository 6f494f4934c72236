------------------------- MODULE CommandLifecycle -------------------------
(***************************************************************************)
(* A response command from the operator's request to the acknowledged      *)
(* report: the manager's `commands` row (api/server.py, api/ingestion.py,  *)
(* api/background.py), the heartbeat reply that carries it, the agent's    *)
(* bounded in-memory queue, the durable `command_journal`, the executor    *)
(* and the result uploads (agent/agent_daemon.py,                          *)
(* agent/commands/command_receiver.py, agent/storage/offline_queue.py).    *)
(*                                                                         *)
(* Abstractions.                                                           *)
(*  - One agent, and commands the manager issues (execution_source         *)
(*    MANAGER).  Commands the agent issues to itself while offline are not *)
(*    uploaded by upload_results and are not in this module.               *)
(*  - `expires_at` is compared with two clocks that may disagree:          *)
(*    lapsedAgent and lapsedManager hold the commands whose expiry each    *)
(*    host has already seen pass.                                          *)
(*  - `sent` only grows: a posted result may reach the manager late, again *)
(*    (a retry and its timed-out predecessor), or never.  `answered` holds *)
(*    the threads whose current request the manager answered with 200.     *)
(*  - A report is its status plus the one thing that makes the manager     *)
(*    refuse it: an executed_at after expires_at ("late"), or an output or *)
(*    error longer than 10000 characters ("oversized").                    *)
(*  - A crash loses memory; the restart runs the journal recovery before   *)
(*    any worker starts, so both are one step.                             *)
(***************************************************************************)
EXTENDS Naturals, Sequences, FiniteSets

CONSTANTS
  Command,          \* the command_id values
  QueueSize,        \* maxsize of the agent's command_queue
  MaxCrashes,       \* bound on agent restarts
  None              \* SQL NULL, and "no command" for an idle thread

CommandWorker   == "command-worker"
HeartbeatWorker == "heartbeat-worker"
UploadWorker    == "telemetry-upload-worker"
Thread          == {CommandWorker, HeartbeatWorker, UploadWorker}

Terminal == {"SUCCESS", "FAILED", "UNKNOWN", "REJECTED"}
Report   == [status : Terminal, defect : {"none", "late", "oversized"}]
Message  == [cmd : Command, body : Report \cup {[status |-> "EXECUTING"]}]

ASSUME CommandAssumption ==
  /\ QueueSize \in Nat \ {0}
  /\ MaxCrashes \in Nat
  /\ None \notin Command \cup Report

VARIABLES
  \* the manager's database
  row,              \* commands.status, "NONE" before the row exists
  evidence,         \* the terminal report stored with the row
  lapsedManager,    \* commands expired by the manager's clock
  \* the network
  sent,             \* results posted so far
  answered,         \* threads whose request was answered with HTTP 200
  delivery,         \* pending_commands of the heartbeat reply being handled
  \* the agent's memory
  inbox,            \* command_queue
  pc, cmd,          \* where each thread is, and the command it handles
  todo,             \* the rows upload_results still has to post
  pending,          \* the report a thread has built and not yet stored
  \* the agent's disk and clock
  claim, report, reported,   \* command_journal: state, report, reported
  lapsedAgent,      \* commands expired by the agent's clock
  \* the endpoint, and bounds
  executions,       \* how often each action really ran
  crashes

managerVars == <<row, evidence, lapsedManager>>
netVars     == <<sent, answered>>
threadVars  == <<delivery, inbox, pc, cmd, todo, pending>>
journalVars == <<claim, report, reported>>
envVars     == <<lapsedAgent, executions, crashes>>
vars        == <<managerVars, netVars, threadVars, journalVars, envVars>>

\* The body of upload_results' request.
Reports(c) == [cmd |-> c, body |-> report[c]]

Init ==
  /\ row = [c \in Command |-> "NONE"]
  /\ evidence = [c \in Command |-> None]
  /\ lapsedManager = {} /\ lapsedAgent = {}
  /\ sent = {} /\ answered = {}
  /\ delivery = {} /\ inbox = <<>>
  /\ pc = [t \in Thread |-> "idle"]
  /\ cmd = [t \in Thread |-> None]
  /\ todo = [t \in Thread |-> {}]
  /\ pending = [t \in Thread |-> None]
  /\ claim = [c \in Command |-> "ABSENT"]
  /\ report = [c \in Command |-> None]
  /\ reported = [c \in Command |-> FALSE]
  /\ executions = [c \in Command |-> 0]
  /\ crashes = 0

---------------------------------------------------------------------------
(* The manager *)

\* POST /api/zta/commands, script execution and the detection pipeline all
\* insert a row in state QUEUED.
CreateCommand(c) ==
  /\ row[c] = "NONE"
  /\ row' = [row EXCEPT ![c] = "QUEUED"]
  /\ UNCHANGED <<evidence, lapsedManager, netVars, threadVars, journalVars, envVars>>

\* The heartbeat handler sends every unexpired open command again and marks
\* it DISPATCHED in the transaction that selects it.
Heartbeat ==
  /\ pc[HeartbeatWorker] = "idle"
  /\ LET due == {c \in Command : row[c] \in {"QUEUED", "DISPATCHED"} /\ c \notin lapsedManager}
     IN  /\ row' = [c \in Command |-> IF c \in due THEN "DISPATCHED" ELSE row[c]]
         /\ delivery' = due
  /\ pc' = [pc EXCEPT ![HeartbeatWorker] = "reply"]
  /\ UNCHANGED <<evidence, lapsedManager, netVars, inbox, cmd, todo, pending, journalVars, envVars>>

MutRecordStarted(c) ==
  /\ [cmd |-> c, body |-> [status |-> "EXECUTING"]] \in sent
  /\ row' = [row EXCEPT ![c] = "EXECUTING"]
  /\ UNCHANGED <<evidence, lapsedManager, netVars, threadVars, journalVars, envVars>>

\* command_result, status EXECUTING.
RecordStarted(c) ==
  /\ [cmd |-> c, body |-> [status |-> "EXECUTING"]] \in sent
  /\ row[c] = "DISPATCHED"
  /\ row' = [row EXCEPT ![c] = "EXECUTING"]
  /\ UNCHANGED <<evidence, lapsedManager, netVars, threadVars, journalVars, envVars>>

\* An expired row still takes a report, but SUCCESS and FAILED must prove that
\* execution began before the expiry; an oversized field is refused outright.
Acceptable(c, r) ==
  /\ r.defect # "oversized"
  /\ \/ row[c] \in {"DISPATCHED", "EXECUTING"}
     \/ row[c] = "EXPIRED" /\ (r.status \in {"SUCCESS", "FAILED"} => r.defect # "late")

\* The threads waiting for the answer to a post of command c.
Waiting(c) == {t \in Thread : pc[t] = "post" /\ cmd[t] = c}

\* command_result, terminal status, first time; the request may be one that
\* its sender has given up on, and then nobody hears the answer.
RecordReport(c) ==
  \E m \in sent, heard \in SUBSET Waiting(c) :
    /\ m.cmd = c /\ m.body \in Report
    /\ Acceptable(c, m.body)
    /\ row' = [row EXCEPT ![c] = m.body.status]
    /\ evidence' = [evidence EXCEPT ![c] = m.body]
    /\ answered' = answered \cup heard
    /\ UNCHANGED <<lapsedManager, sent, threadVars, journalVars, envVars>>

MutAcknowledgeDuplicate(t) == FALSE

\* command_result, terminal status, again: the same evidence is acknowledged,
\* different evidence is refused (no step).
AcknowledgeDuplicate(t) ==
  /\ pc[t] = "post" /\ t \notin answered
  /\ row[cmd[t]] \in Terminal /\ report[cmd[t]] = evidence[cmd[t]]
  /\ answered' = answered \cup {t}
  /\ UNCHANGED <<managerVars, sent, threadVars, journalVars, envVars>>

MutExpirable == {"QUEUED", "DISPATCHED"}

\* The background tick expires every open command past its expires_at.
Expirable == {"QUEUED", "DISPATCHED", "EXECUTING"}
ExpireCommands ==
  LET over == {c \in lapsedManager : row[c] \in Expirable}
  IN  /\ over # {}
      /\ row' = [c \in Command |-> IF c \in over THEN "EXPIRED" ELSE row[c]]
      /\ UNCHANGED <<evidence, lapsedManager, netVars, threadVars, journalVars, envVars>>

---------------------------------------------------------------------------
(* The agent: delivery *)

MutQueueCommand(c) ==
  /\ pc[HeartbeatWorker] = "reply" /\ c \in delivery
  /\ delivery' = delivery \ {c}
  /\ inbox' = Append(inbox, c)
  /\ UNCHANGED <<managerVars, netVars, pc, cmd, todo, pending, journalVars, envVars>>

\* put_nowait into the bounded queue; a full queue drops the command, which
\* the manager keeps DISPATCHED and sends again.
QueueCommand(c) ==
  /\ pc[HeartbeatWorker] = "reply" /\ c \in delivery
  /\ delivery' = delivery \ {c}
  /\ inbox' = IF Len(inbox) < QueueSize THEN Append(inbox, c) ELSE inbox
  /\ UNCHANGED <<managerVars, netVars, pc, cmd, todo, pending, journalVars, envVars>>

\* While the supervisor is not started (single-shot use, or a shutdown whose
\* join timed out) the heartbeat thread executes the command itself.
ExecuteInline(c) ==
  /\ pc[HeartbeatWorker] = "reply" /\ c \in delivery
  /\ delivery' = delivery \ {c}
  /\ cmd' = [cmd EXCEPT ![HeartbeatWorker] = c]
  /\ pc' = [pc EXCEPT ![HeartbeatWorker] = "claim"]
  /\ UNCHANGED <<managerVars, netVars, inbox, todo, pending, journalVars, envVars>>

\* The reply is used up, or never arrived: the manager's update stands.
EndHeartbeat ==
  /\ pc[HeartbeatWorker] = "reply"
  /\ delivery' = {}
  /\ \E next \in (IF delivery = {} THEN {"idle", "select"} ELSE {"idle"}) :
       pc' = [pc EXCEPT ![HeartbeatWorker] = next]
  /\ UNCHANGED <<managerVars, netVars, inbox, cmd, todo, pending, journalVars, envVars>>

TakeCommand ==
  /\ pc[CommandWorker] = "idle" /\ inbox # <<>>
  /\ inbox' = Tail(inbox)
  /\ cmd' = [cmd EXCEPT ![CommandWorker] = Head(inbox)]
  /\ pc' = [pc EXCEPT ![CommandWorker] = "claim"]
  /\ UNCHANGED <<managerVars, netVars, delivery, todo, pending, journalVars, envVars>>

---------------------------------------------------------------------------
(* The agent: execute_command *)

\* Where a thread continues when execute_command returns.
AfterExecution(t) == IF t = CommandWorker THEN "select" ELSE "reply"

Leave(t, next) ==
  /\ pc' = [pc EXCEPT ![t] = next]
  /\ cmd' = [cmd EXCEPT ![t] = None]

\* validate_command raises: the command worker's cycle ends, the heartbeat
\* thread logs and goes on with the reply.
RefuseExpired(t) ==
  /\ pc[t] = "claim" /\ cmd[t] \in lapsedAgent
  /\ Leave(t, IF t = CommandWorker THEN "idle" ELSE "reply")
  /\ UNCHANGED <<managerVars, netVars, delivery, inbox, todo, pending, journalVars, envVars>>

\* BEGIN IMMEDIATE; no row: insert the claim in state RECEIVED.
ClaimCommand(t) ==
  /\ pc[t] = "claim" /\ cmd[t] \notin lapsedAgent
  /\ claim[cmd[t]] = "ABSENT"
  /\ claim' = [claim EXCEPT ![cmd[t]] = "RECEIVED"]
  /\ pc' = [pc EXCEPT ![t] = "announce"]
  /\ UNCHANGED <<managerVars, netVars, delivery, inbox, cmd, todo, pending, report,
                 reported, envVars>>

\* A row exists: return its report, or EXECUTION_IN_PROGRESS, and run nothing.
AlreadyClaimed(t) ==
  /\ pc[t] = "claim" /\ cmd[t] \notin lapsedAgent
  /\ claim[cmd[t]] # "ABSENT"
  /\ Leave(t, AfterExecution(t))
  /\ UNCHANGED <<managerVars, netVars, delivery, inbox, todo, pending, journalVars, envVars>>

\* State EXECUTING is stored, then announced; the answer is ignored.
Announce(t) ==
  /\ pc[t] = "announce"
  /\ claim' = [claim EXCEPT ![cmd[t]] = "EXECUTING"]
  /\ sent' = sent \cup {[cmd |-> cmd[t], body |-> [status |-> "EXECUTING"]]}
  /\ pc' = [pc EXCEPT ![t] = "process"]
  /\ UNCHANGED <<managerVars, answered, delivery, inbox, cmd, todo, pending, report,
                 reported, envVars>>

MutNotExecuted(t) == [status : {"SUCCESS", "REJECTED"}, defect : {"none"}]

\* process_command: no effect.  A second expiry check (executed_at was taken
\* just before it, so it may or may not be late), a refused template or
\* parameter, or an action this host cannot perform.
NotExecuted(t) ==
  IF cmd[t] \in lapsedAgent
  THEN {[status |-> "FAILED", defect |-> d] : d \in {"none", "late"}}
  ELSE {[status |-> s, defect |-> "none"] : s \in {"REJECTED", "FAILED"}}

Decline(t) ==
  /\ pc[t] = "process"
  /\ \E r \in NotExecuted(t) : pending' = [pending EXCEPT ![t] = r]
  /\ pc' = [pc EXCEPT ![t] = "record"]
  /\ UNCHANGED <<managerVars, netVars, delivery, inbox, cmd, todo, journalVars, envVars>>

Authorize(t) ==
  /\ pc[t] = "process" /\ cmd[t] \notin lapsedAgent
  /\ pc' = [pc EXCEPT ![t] = "run"]
  /\ UNCHANGED <<managerVars, netVars, delivery, inbox, cmd, todo, pending, journalVars, envVars>>

\* The verified outcome.  A demo script stamps executed_at after the check, so
\* it can be late; a template keeps the time taken before the check, but the
\* error text it failed with is not cut to 1000 characters; only a template
\* can time out or end unverified (UNKNOWN).
Executed(t) ==
  LET late == IF cmd[t] \in lapsedAgent THEN {"late"} ELSE {}
  IN  [status : {"SUCCESS", "FAILED"}, defect : {"none"} \cup late]
        \cup {[status |-> "FAILED", defect |-> "oversized"],
              [status |-> "UNKNOWN", defect |-> "none"]}

\* The action itself, then the verification that decides the status.
Run(t) ==
  /\ pc[t] = "run"
  /\ executions' = [executions EXCEPT ![cmd[t]] = @ + 1]
  /\ \E r \in Executed(t) : pending' = [pending EXCEPT ![t] = r]
  /\ pc' = [pc EXCEPT ![t] = "record"]
  /\ UNCHANGED <<managerVars, netVars, delivery, inbox, cmd, todo, journalVars,
                 lapsedAgent, crashes>>

\* The final UPDATE of the journal row.
StoreReport(t) ==
  /\ pc[t] = "record"
  /\ claim' = [claim EXCEPT ![cmd[t]] = "FINISHED"]
  /\ report' = [report EXCEPT ![cmd[t]] = pending[t]]
  /\ pending' = [pending EXCEPT ![t] = None]
  /\ Leave(t, AfterExecution(t))
  /\ UNCHANGED <<managerVars, netVars, delivery, inbox, todo, reported, envVars>>

---------------------------------------------------------------------------
(* The agent: upload_results *)

\* One SELECT; the loop then works on this snapshot while others upload too.
SelectReports(t) ==
  /\ pc[t] = (IF t = UploadWorker THEN "idle" ELSE "select")
  /\ todo' = [todo EXCEPT ![t] = {c \in Command : report[c] # None /\ ~reported[c]}]
  /\ pc' = [pc EXCEPT ![t] = IF todo'[t] = {} THEN "idle" ELSE "upload"]
  /\ UNCHANGED <<managerVars, netVars, delivery, inbox, cmd, pending, journalVars, envVars>>

PostReport(t, c) ==
  /\ pc[t] = "upload" /\ c \in todo[t]
  /\ sent' = sent \cup {Reports(c)}
  /\ cmd' = [cmd EXCEPT ![t] = c]
  /\ todo' = [todo EXCEPT ![t] = @ \ {c}]
  /\ pc' = [pc EXCEPT ![t] = "post"]
  /\ UNCHANGED <<managerVars, answered, delivery, inbox, pending, journalVars, envVars>>

NextUpload(t) == IF todo[t] = {} THEN "idle" ELSE "upload"
HangUp(t) == answered' = answered \ {t}

\* HTTP 200.
PostAcknowledged(t) ==
  /\ pc[t] = "post" /\ t \in answered
  /\ reported' = [reported EXCEPT ![cmd[t]] = TRUE]
  /\ HangUp(t)
  /\ Leave(t, NextUpload(t))
  /\ UNCHANGED <<managerVars, sent, delivery, inbox, todo, pending, claim, report, envVars>>

\* Any other HTTP status: the row stays for the next cycle.
PostRejected(t) ==
  /\ pc[t] = "post"
  /\ HangUp(t)
  /\ Leave(t, NextUpload(t))
  /\ UNCHANGED <<managerVars, sent, delivery, inbox, todo, pending, journalVars, envVars>>

\* Timeout or connection error: requests.post raises out of the loop.
PostFailed(t) ==
  /\ pc[t] = "post"
  /\ HangUp(t)
  /\ Leave(t, "idle")
  /\ todo' = [todo EXCEPT ![t] = {}]
  /\ UNCHANGED <<managerVars, sent, delivery, inbox, pending, journalVars, envVars>>

---------------------------------------------------------------------------
(* Environment *)

MutInterrupted(c) == claim[c] # "ABSENT"
Interrupted(c) == claim[c] \in {"RECEIVED", "EXECUTING"} /\ report[c] = None

MutRecoveredReport == [status |-> "REJECTED", defect |-> "none"]
RecoveredReport == [status |-> "UNKNOWN", defect |-> "none"]

\* recover_interrupted_commands closes every unfinished claim as UNKNOWN.
CrashAndRecover ==
  /\ crashes < MaxCrashes
  /\ crashes' = crashes + 1
  /\ delivery' = {} /\ inbox' = <<>>
  /\ pc' = [t \in Thread |-> "idle"]
  /\ cmd' = [t \in Thread |-> None]
  /\ todo' = [t \in Thread |-> {}]
  /\ pending' = [t \in Thread |-> None]
  /\ claim' = [c \in Command |-> IF Interrupted(c) THEN "FINISHED" ELSE claim[c]]
  /\ report' = [c \in Command |-> IF Interrupted(c)
                                  THEN RecoveredReport
                                  ELSE report[c]]
  /\ answered' = {}
  /\ UNCHANGED <<managerVars, sent, reported, lapsedAgent, executions>>

ManagerClock(c) ==
  /\ row[c] # "NONE" /\ c \notin lapsedManager
  /\ lapsedManager' = lapsedManager \cup {c}
  /\ UNCHANGED <<row, evidence, netVars, threadVars, journalVars, envVars>>

AgentClock(c) ==
  /\ row[c] # "NONE" /\ c \notin lapsedAgent
  /\ lapsedAgent' = lapsedAgent \cup {c}
  /\ UNCHANGED <<managerVars, netVars, threadVars, journalVars, executions, crashes>>

---------------------------------------------------------------------------
ManagerNext ==
  \/ ExpireCommands
  \/ \E c \in Command : \/ CreateCommand(c) \/ RecordStarted(c)
                        \/ RecordReport(c)
  \/ \E t \in Thread : AcknowledgeDuplicate(t)

DeliveryNext ==
  \/ Heartbeat \/ EndHeartbeat \/ TakeCommand
  \/ \E c \in Command : QueueCommand(c) \/ ExecuteInline(c)

ExecuteNext(t) ==
  \/ RefuseExpired(t) \/ ClaimCommand(t) \/ AlreadyClaimed(t) \/ Announce(t)
  \/ Decline(t) \/ Authorize(t) \/ Run(t) \/ StoreReport(t)

UploadNext(t) ==
  \/ SelectReports(t) \/ PostAcknowledged(t) \/ PostRejected(t) \/ PostFailed(t)
  \/ \E c \in Command : PostReport(t, c)

EnvironmentNext ==
  \/ CrashAndRecover
  \/ \E c \in Command : ManagerClock(c) \/ AgentClock(c)

Next ==
  \/ ManagerNext
  \/ DeliveryNext
  \/ \E t \in Thread : ExecuteNext(t) \/ UploadNext(t)
  \/ EnvironmentNext

Spec == Init /\ [][Next]_vars

\* Scheduling the code provides: the manager's tick runs every second and its
\* clock advances, and the upload worker keeps cycling; and, of the network,
\* that an upload tried again and again is handled and answered in the end.
\* Nothing is assumed of the heartbeat and command workers.
Fairness ==
  /\ WF_vars(ExpireCommands)
  /\ \A c \in Command : WF_vars(ManagerClock(c))
  /\ \A c \in Command : WF_vars(RecordReport(c))
  /\ SF_vars(AcknowledgeDuplicate(UploadWorker))
  /\ WF_vars(UploadNext(UploadWorker))
  /\ SF_vars(PostAcknowledged(UploadWorker))

FairSpec == Spec /\ Fairness

---------------------------------------------------------------------------
(* Properties *)

\* Every variable keeps its type; in particular the agent's command queue
\* never exceeds its maxsize (agent_daemon.py:66).
TypeOK ==
  /\ row \in [Command -> {"NONE", "QUEUED", "DISPATCHED", "EXECUTING", "EXPIRED"} \cup Terminal]
  /\ evidence \in [Command -> Report \cup {None}]
  /\ lapsedManager \subseteq Command /\ lapsedAgent \subseteq Command
  /\ sent \subseteq Message /\ answered \subseteq Thread
  /\ delivery \subseteq Command
  /\ inbox \in Seq(Command) /\ Len(inbox) <= QueueSize
  /\ pc \in [Thread -> {"idle", "reply", "claim", "announce", "process", "run",
                        "record", "select", "upload", "post"}]
  /\ cmd \in [Thread -> Command \cup {None}]
  /\ todo \in [Thread -> SUBSET Command]
  /\ pending \in [Thread -> Report \cup {None}]
  /\ claim \in [Command -> {"ABSENT", "RECEIVED", "EXECUTING", "FINISHED"}]
  /\ report \in [Command -> Report \cup {None}]
  /\ reported \in [Command -> BOOLEAN]
  /\ executions \in [Command -> Nat]
  /\ crashes \in 0..MaxCrashes

\* However often a command is dispatched, queued, picked up by two threads or
\* found half done after a restart, its action runs at most once: "command_id
\* is the at-most-once key" (CONTRACTS.md:72).
AtMostOnce == \A c \in Command : executions[c] <= 1

\* The manager's terminal status is the one the agent's journal holds, through
\* lost answers, repeated uploads, expiry and restarts.
ManagerAgreesWithJournal ==
  \A c \in Command : evidence[c] # None => evidence[c] = report[c] /\ row[c] = evidence[c].status

\* The recorded outcome tells the truth about the endpoint: SUCCESS only if
\* the action ran, REJECTED only if it did not (and never will).
OutcomeMatchesEffect ==
  \A c \in Command : /\ row[c] = "SUCCESS" => executions[c] = 1
                     /\ row[c] = "REJECTED" => executions[c] = 0

\* The agent stops uploading a report only when the manager has stored exactly
\* that report ("unacknowledged records remain locally durable").
ReportedOnlyIfStored ==
  \A c \in Command : reported[c] => report[c] # None /\ evidence[c] = report[c]

\* A row never goes back: in particular a late EXECUTING or a repeated
\* dispatch cannot reopen a closed or expired command, and a terminal status
\* is final.
Rank(s) == CASE s = "NONE" -> 0 [] s = "QUEUED" -> 1 [] s = "DISPATCHED" -> 2
             [] s = "EXECUTING" -> 3 [] s = "EXPIRED" -> 4 [] OTHER -> 5
RowNeverRegresses ==
  [][\A c \in Command : row'[c] # row[c] => Rank(row'[c]) > Rank(row[c])]_vars

\* A command is closed by a report or by the expiry, whatever the agent does.
OpenCommandsClose ==
  \A c \in Command : row[c] # "NONE" ~> row[c] \in Terminal \cup {"EXPIRED"}

\* A finished command's report reaches the manager and is acknowledged, unless
\* the report is one the manager refuses for ever.
ReportsSettle ==
  \A c \in Command : report[c] # None /\ report[c].defect = "none" ~> reported[c]

\* The sentence "Every execution is claimed once in the local command journal,
\* verified, completed durably, and reported" (ARCHITECTURE.md:23), for the
\* executions the journal has completed and verified.
EveryExecutionReported ==
  \A c \in Command : report[c] # None /\ report[c].status = "SUCCESS" ~> reported[c]

\* The lifecycle implements the contract the manager offers its operators.
Phase(s) == CASE s = "NONE" -> "none" [] s = "EXPIRED" -> "expired"
              [] s \in Terminal -> "closed" [] OTHER -> "open"
Contract == INSTANCE CommandContract WITH
  Outcome   <- Terminal,
  NoOutcome <- None,
  phase     <- [c \in Command |-> Phase(row[c])],
  runs      <- executions,
  outcome   <- [c \in Command |-> IF evidence[c] = None THEN None ELSE evidence[c].status]
ImplementsContract == Contract!Spec
==========================================================================
