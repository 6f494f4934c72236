------------------------- MODULE OfflineCollection -------------------------
(***************************************************************************)
(* The collection of events by the agent while the manager may be away     *)
(* (agent/collectors.py JsonlCollector, agent/agent_daemon.py collect and  *)
(* process_offline_event), the commands it gives itself then, and the      *)
(* evidence of both that the manager imports (api/ingestion.py).           *)
(*                                                                         *)
(* The collector reads line after line, hands each to collect, and then    *)
(* saves its offset.  Without contact, collect detects the event with the  *)
(* cached configuration, executes the command of an offline policy, and    *)
(* queues the event with the evidence.  Every write is a transaction of    *)
(* its own, and a crash may come between any two: the line is then read    *)
(* again, perhaps with contact, or after the command's or the cache's      *)
(* expiry.                                                                 *)
(*                                                                         *)
(* Abstractions.                                                           *)
(*  - A line is its number and its event; the feed is not rotated.         *)
(*  - The event of a line in Triggers matches a rule of every              *)
(*    configuration, and the configuration may authorise the policy of     *)
(*    that rule; the other lines match nothing.  DetectionPipeline has the *)
(*    evaluation.                                                          *)
(*  - A report is one that command_result takes.  It refuses an output or  *)
(*    error of more than 10,000 characters (api/ingestion.py:22-24), which *)
(*    the executors do not always cut (execution/script_executor.py:71,    *)
(*    powershell/ps_executor.py:232).  The refusal appears as a            *)
(*    WriteFails, which is bounded; the code would meet it at every        *)
(*    reading of the line.                                                 *)
(*  - CommandLifecycle has the execution of a command, TelemetrySync the   *)
(*    batches, retries and quarantine of the upload.                       *)
(***************************************************************************)
EXTENDS Integers

CONSTANTS
  NumLines,
  Triggers,          \* lines whose event triggers the policy
  CommandLife,       \* ticks until a command expires
  CacheLife,         \* ticks until a configuration expires
  MaxTime,           \* bound on the clock
  MaxRefreshes,      \* bound on new configurations
  MaxInterruptions,  \* bound on crashes and failed writes
  None

Line == 1..NumLines

Outcome  == {"SUCCESS", "FAILED", "UNKNOWN", "REJECTED"}
Open     == {"QUEUED", "DISPATCHED"}
Command  == {"UNDETECTED", "NO_COMMAND"} \cup Open \cup Outcome
Cache    == [expires : Nat, allows : BOOLEAN]
Evidence == [command : Command, late : BOOLEAN, agrees : BOOLEAN]
Record   == [source : {"AGENT_ONLINE", "AGENT_OFFLINE"},
             evidence : Evidence \cup {None}]
Row      == [record : Record, refused : BOOLEAN]
Stage    == {"evaluated", "claimed", "executed", "reported", "unevaluated", "queued"}

ASSUME OfflineAssumption ==
  /\ NumLines \in Nat /\ Triggers \subseteq Line
  /\ CommandLife \in Nat \ {0} /\ CacheLife \in Nat \ {0}
  /\ MaxTime \in Nat /\ MaxRefreshes \in Nat /\ MaxInterruptions \in Nat
  /\ None \notin Outcome \cup {"EXECUTING"} \cup Stage \cup Evidence \cup Record \cup Row
  /\ None \notin Cache

VARIABLES
  \* agent, on disk
  cursor,        \* lines up to the saved offset
  cache,         \* the configuration, or None
  command,       \* status of the command of each event in the local database
  deadline,      \* its expires_at
  allowed,       \* whether the policy was authorised when the event was detected
  journal,       \* command_journal: None, EXECUTING or the report
  queue,         \* offline_events
  \* agent, in memory
  stage,         \* how far collect is with the line after the cursor
  outcome,       \* what the handler of the command has returned
  \* surroundings
  online,        \* connection_state = ONLINE
  clock,
  \* manager
  stored,        \* zta_events, with the imported evidence
  ordered,       \* lines for whose event the manager dispatched a command
  \* history and bounds
  effects,       \* times the agent acted on each event by itself
  interruptions,
  refreshes

agent == <<cursor, cache, command, deadline, allowed, journal, queue>>
vars == <<agent, stage, outcome, online, clock, stored, ordered, effects,
          interruptions, refreshes>>

Init ==
  /\ cursor = 0
  /\ cache \in {None, [expires |-> CacheLife, allows |-> TRUE]}
  /\ command  = [l \in Line |-> "UNDETECTED"]
  /\ deadline = [l \in Line |-> 0]
  /\ allowed  = [l \in Line |-> FALSE]
  /\ journal  = [l \in Line |-> None]
  /\ queue    = [l \in Line |-> None]
  /\ stage = None /\ outcome = None
  /\ online \in BOOLEAN
  /\ clock = 0
  /\ stored = [l \in Line |-> None]
  /\ ordered = {}
  /\ effects = [l \in Line |-> 0]
  /\ interruptions = 0 /\ refreshes = 0

\* The line the collector reads.
Here == cursor + 1

\* verify: the signature is right and the time has not come.
CacheValid == cache # None /\ clock < cache.expires

---------------------------------------------------------------------------
(* Collection with contact *)

OnlineRow == [record |-> [source |-> "AGENT_ONLINE", evidence |-> None],
              refused |-> FALSE]

\* enqueue takes an event it has, and raises if the two differ.
CollectOnline ==
  /\ online /\ stage = None /\ Here \in Line
  /\ \/ queue[Here] = None /\ queue' = [queue EXCEPT ![Here] = OnlineRow]
     \/ queue[Here] # None /\ queue[Here].record = OnlineRow.record
        /\ UNCHANGED queue
  /\ stage' = "queued"
  /\ UNCHANGED <<cursor, cache, command, deadline, allowed, journal, outcome,
                 online, clock, stored, ordered, effects, interruptions, refreshes>>

\* Mutant: the offset is saved before the line is read.
MutSaveOffset ==
  /\ stage = None /\ Here \in Line
  /\ cursor' = Here
  /\ UNCHANGED <<cache, command, deadline, allowed, journal, queue, stage,
                 outcome, online, clock, stored, ordered, effects,
                 interruptions, refreshes>>

\* Mutant: the poll goes on with the stage of the line before.
MutKeepStage ==
  /\ stage = "queued"
  /\ cursor' = Here
  /\ UNCHANGED <<cache, command, deadline, allowed, journal, queue, stage,
                 outcome, online, clock, stored, ordered, effects,
                 interruptions, refreshes>>

SaveOffset ==
  /\ stage = "queued"
  /\ cursor' = Here
  /\ stage' = None
  /\ UNCHANGED <<cache, command, deadline, allowed, journal, queue, outcome,
                 online, clock, stored, ordered, effects, interruptions, refreshes>>

---------------------------------------------------------------------------
(* Collection without contact: process_offline_event, under local_lock *)

\* Mutant: the event must have been queued with contact.
MutCollectQueued ==
  /\ ~online /\ stage = None /\ Here \in Line
  /\ queue[Here] # None /\ queue[Here].record = OnlineRow.record
  /\ stage' = "queued"
  /\ UNCHANGED <<agent, outcome, online, clock, stored, ordered, effects,
                 interruptions, refreshes>>

\* The event is in the queue already.
CollectQueued ==
  /\ ~online /\ stage = None /\ Here \in Line
  /\ queue[Here] # None
  /\ stage' = "queued"
  /\ UNCHANGED <<agent, outcome, online, clock, stored, ordered, effects,
                 interruptions, refreshes>>

CollectUnevaluated ==
  /\ ~online /\ stage = None /\ Here \in Line
  /\ queue[Here] = None /\ ~CacheValid
  /\ stage' = "unevaluated"
  /\ UNCHANGED <<agent, outcome, online, clock, stored, ordered, effects,
                 interruptions, refreshes>>

\* The local engine detects the event, unless it has completed it before.
\* built says whether build_command accepts the event.
Evaluate(built) ==
  /\ ~online /\ stage = None /\ Here \in Line
  /\ queue[Here] = None /\ CacheValid
  /\ stage' = "evaluated"
  /\ IF command[Here] = "UNDETECTED"
     THEN /\ allowed' = [allowed EXCEPT ![Here] = cache.allows]
          /\ IF Here \in Triggers /\ cache.allows /\ built
             THEN /\ command' = [command EXCEPT ![Here] = "QUEUED"]
                  /\ deadline' = [deadline EXCEPT ![Here] = clock + CommandLife]
             ELSE /\ command' = [command EXCEPT ![Here] = "NO_COMMAND"]
                  /\ UNCHANGED deadline
     ELSE UNCHANGED <<command, deadline, allowed>>
  /\ UNCHANGED <<cursor, cache, journal, queue, outcome, online, clock, stored,
                 ordered, effects, interruptions, refreshes>>

\* validate_command
Authorised == CacheValid /\ cache.allows /\ clock < deadline[Here]

\* execute_command raises, and collect with it; the line will be read again.
Refuse ==
  /\ stage = "evaluated" /\ command[Here] \in Open /\ ~Authorised
  /\ command' = [command EXCEPT ![Here] = "DISPATCHED"]
  /\ stage' = None
  /\ UNCHANGED <<cursor, cache, deadline, allowed, journal, queue, outcome,
                 online, clock, stored, ordered, effects, interruptions, refreshes>>

\* Mutant: the journal is not looked at.
MutUnclaimed == TRUE

Unclaimed == journal[Here] = None

Claim ==
  /\ stage = "evaluated" /\ command[Here] \in Open /\ Authorised
  /\ Unclaimed
  /\ command' = [command EXCEPT ![Here] = "DISPATCHED"]
  /\ journal' = [journal EXCEPT ![Here] = "EXECUTING"]
  /\ stage' = "claimed"
  /\ UNCHANGED <<cursor, cache, deadline, allowed, queue, outcome, online, clock,
                 stored, ordered, effects, interruptions, refreshes>>

\* Mutant: a command in the journal counts as executed.
MutReuse ==
  /\ stage = "evaluated" /\ command[Here] \in Open /\ Authorised
  /\ ~Unclaimed
  /\ command' = [command EXCEPT ![Here] = "SUCCESS"]
  /\ UNCHANGED <<cursor, cache, deadline, allowed, journal, queue, stage, outcome,
                 online, clock, stored, ordered, effects, interruptions, refreshes>>

\* What the journal answers for a command it has: the report of the earlier
\* execution, or that nothing is known of one that did not end.
Journalled(l) == IF journal[l] = "EXECUTING" THEN "UNKNOWN" ELSE journal[l]

\* The command is not executed again.
Reuse ==
  /\ stage = "evaluated" /\ command[Here] \in Open /\ Authorised
  /\ ~Unclaimed
  /\ command' = [command EXCEPT ![Here] = Journalled(Here)]
  /\ UNCHANGED <<cursor, cache, deadline, allowed, journal, queue, stage, outcome,
                 online, clock, stored, ordered, effects, interruptions, refreshes>>

\* The handler may fail, or not know, after it has acted.
Execute(result, acts) ==
  /\ stage = "claimed"
  /\ result = "SUCCESS" => acts
  /\ result = "REJECTED" => ~acts
  /\ outcome' = result
  /\ effects' = [effects EXCEPT ![Here] = IF acts THEN @ + 1 ELSE @]
  /\ stage' = "executed"
  /\ UNCHANGED <<agent, online, clock, stored, ordered, interruptions, refreshes>>

Report ==
  /\ stage = "executed"
  /\ journal' = [journal EXCEPT ![Here] = outcome]
  /\ outcome' = None
  /\ stage' = "reported"
  /\ UNCHANGED <<cursor, cache, command, deadline, allowed, queue, online, clock,
                 stored, ordered, effects, interruptions, refreshes>>

\* command_result on the local database.
Result ==
  /\ stage = "reported"
  /\ command' = [command EXCEPT ![Here] = journal[Here]]
  /\ stage' = "evaluated"
  /\ UNCHANGED <<cursor, cache, deadline, allowed, journal, queue, outcome, online,
                 clock, stored, ordered, effects, interruptions, refreshes>>

\* Mutant: the evidence is not queued with the event.
MutEvidenceOf(l) == None

\* The evidence names the configuration that is in force now, which may not be
\* the one the event was detected with.
EvidenceOf(l) ==
  IF stage = "unevaluated" THEN None
  ELSE [command |-> command[l], late |-> clock > cache.expires,
        agrees |-> l \in Triggers => allowed[l] = cache.allows]

EnqueueOffline ==
  /\ stage \in {"evaluated", "unevaluated"}
  /\ stage = "evaluated" => command[Here] \notin Open
  /\ queue' = [queue EXCEPT ![Here] =
       [record |-> [source |-> "AGENT_OFFLINE", evidence |-> EvidenceOf(Here)],
        refused |-> FALSE]]
  /\ stage' = "queued"
  /\ UNCHANGED <<cursor, cache, command, deadline, allowed, journal, outcome,
                 online, clock, stored, ordered, effects, interruptions, refreshes>>

CollectOffline ==
  \/ CollectQueued \/ CollectUnevaluated
  \/ \E built \in BOOLEAN : Evaluate(built)
  \/ Refuse \/ Claim \/ Reuse
  \/ \E result \in Outcome, acts \in BOOLEAN : Execute(result, acts)
  \/ Report \/ Result \/ EnqueueOffline

---------------------------------------------------------------------------
(* Upload *)

\* import_offline, for evidence the agent has made.
Importable(evidence) ==
  /\ ~evidence.late /\ evidence.agrees
  /\ evidence.command \in {"NO_COMMAND", "SUCCESS", "FAILED"}

\* ingest of a new event: evidence that is refused takes the event with it,
\* and in the end the upload quarantines the row.
Upload(l) ==
  /\ online /\ queue[l] # None /\ ~queue[l].refused /\ stored[l] = None
  /\ LET record == queue[l].record
     IN  IF record.evidence = None \/ Importable(record.evidence)
         THEN stored' = [stored EXCEPT ![l] = record] /\ UNCHANGED queue
         ELSE /\ queue' = [queue EXCEPT ![l] = [record |-> record, refused |-> TRUE]]
              /\ UNCHANGED stored
  /\ UNCHANGED <<cursor, cache, command, deadline, allowed, journal, stage,
                 outcome, online, clock, ordered, effects, interruptions, refreshes>>

\* The event is stored: the evidence of a row that comes later is not looked
\* at, and the answer that names the event deletes the row.
Acknowledge(l) ==
  /\ online /\ queue[l] # None /\ ~queue[l].refused /\ stored[l] # None
  /\ queue' = [queue EXCEPT ![l] = None]
  /\ UNCHANGED <<cursor, cache, command, deadline, allowed, journal, stage,
                 outcome, online, clock, stored, ordered, effects,
                 interruptions, refreshes>>

\* The manager responds only to events that were collected with contact.
Live(l) == stored[l] # None /\ stored[l].source = "AGENT_ONLINE"

ManagerResponds(l) ==
  /\ Live(l) /\ l \in Triggers \ ordered
  /\ ordered' = ordered \cup {l}
  /\ UNCHANGED <<agent, stage, outcome, online, clock, stored, effects,
                 interruptions, refreshes>>

---------------------------------------------------------------------------
(* Surroundings *)

\* configure waits for local_lock.
Configure(allows) ==
  /\ online /\ stage \in {None, "queued"} /\ refreshes < MaxRefreshes
  /\ cache' = [expires |-> clock + CacheLife, allows |-> allows]
  /\ refreshes' = refreshes + 1
  /\ UNCHANGED <<cursor, command, deadline, allowed, journal, queue, stage,
                 outcome, online, clock, stored, ordered, effects, interruptions>>

Switch ==
  /\ online' = ~online
  /\ UNCHANGED <<agent, stage, outcome, clock, stored, ordered, effects,
                 interruptions, refreshes>>

Tick ==
  /\ clock < MaxTime
  /\ clock' = clock + 1
  /\ UNCHANGED <<agent, stage, outcome, online, stored, ordered, effects,
                 interruptions, refreshes>>

\* The constructor of the queue closes what the journal left open.
Crash ==
  /\ interruptions < MaxInterruptions
  /\ interruptions' = interruptions + 1
  /\ stage' = None /\ outcome' = None
  /\ journal' = [l \in Line |-> IF journal[l] = "EXECUTING" THEN "UNKNOWN" ELSE journal[l]]
  /\ UNCHANGED <<cursor, cache, command, deadline, allowed, queue, online, clock,
                 stored, ordered, effects, refreshes>>

\* A write to the journal, the local database, the queue or of the offset
\* fails, and the poll with it.
WriteFails ==
  /\ interruptions < MaxInterruptions
  /\ stage # None
  /\ interruptions' = interruptions + 1
  /\ stage' = None /\ outcome' = None
  /\ UNCHANGED <<agent, online, clock, stored, ordered, effects, refreshes>>

Collect == CollectOnline \/ CollectOffline \/ SaveOffset

Next ==
  \/ Collect
  \/ \E l \in Line : Upload(l) \/ Acknowledge(l) \/ ManagerResponds(l)
  \/ \E allows \in BOOLEAN : Configure(allows)
  \/ Switch \/ Tick \/ Crash \/ WriteFails

\* The collector polls for ever, and the upload goes on whenever there is
\* contact.
Fairness ==
  /\ WF_vars(Collect)
  /\ \A l \in Line : SF_vars(Upload(l)) /\ SF_vars(Acknowledge(l))

Spec == Init /\ [][Next]_vars /\ Fairness

---------------------------------------------------------------------------
(* Properties *)

\* Type invariant.
TypeOK ==
  /\ cursor \in 0..NumLines
  /\ cache \in Cache \cup {None}
  /\ command \in [Line -> Command]
  /\ deadline \in [Line -> Nat]
  /\ allowed \in [Line -> BOOLEAN]
  /\ journal \in [Line -> Outcome \cup {"EXECUTING", None}]
  /\ queue \in [Line -> Row \cup {None}]
  /\ stage \in Stage \cup {None}
  /\ stage # None => Here \in Line
  /\ outcome \in Outcome \cup {None}
  /\ online \in BOOLEAN /\ clock \in 0..MaxTime
  /\ stored \in [Line -> Record \cup {None}]
  /\ ordered \subseteq Triggers
  /\ effects \in [Line -> Nat]
  /\ interruptions \in 0..MaxInterruptions /\ refreshes \in 0..MaxRefreshes

\* However often a line is read again, the agent acts on its event at most
\* once by itself, and only on an event for which the policy was authorised;
\* and if collect was never interrupted, it does not act on an event the
\* manager responds to.
ActsOnce ==
  \A l \in Line :
    /\ effects[l] <= 1
    /\ effects[l] = 1 => l \in Triggers /\ allowed[l]
    /\ interruptions = 0 /\ effects[l] = 1 => l \notin ordered

\* What the collector has passed is in the queue or at the manager.
CollectedKept ==
  \A l \in 1..cursor : queue[l] # None \/ stored[l] # None

\* The records of a line: in the queue and at the manager.
RecordsOf(l) ==
  (IF queue[l] = None THEN {} ELSE {queue[l].record})
  \cup (IF stored[l] = None THEN {} ELSE {stored[l]})

\* What the evidence says of the command is what the journal says, also if
\* the execution was interrupted and the line read again.
EvidenceTrue ==
  \A l \in Line : \A record \in RecordsOf(l) : record.evidence # None =>
    IF journal[l] = None THEN record.evidence.command = "NO_COMMAND"
    ELSE record.evidence.command = Journalled(l)

\* Unless collect was interrupted, what the agent did by itself is in the
\* evidence of the event when the collector passes it, and the manager
\* refuses it only if the outcome is not definite or the configuration
\* expired while the event was evaluated.
ActionReported ==
  interruptions = 0 =>
    \A l \in 1..cursor :
      /\ journal[l] # None => \E record \in RecordsOf(l) : record.evidence # None
      /\ queue[l] # None /\ queue[l].refused =>
           \/ journal[l] \in {"UNKNOWN", "REJECTED"}
           \/ queue[l].record.evidence.late

\* The collector cannot pass its line: the command of the event may not be
\* executed any more, or the event is in quarantine with its evidence.
Blocked ==
  /\ Here \in Line
  /\ \/ command[Here] \in Open /\ CacheValid
        /\ (clock >= deadline[Here] \/ ~cache.allows)
     \/ queue[Here] # None /\ queue[Here].refused

\* Every line is collected in the end, unless the collector stands before one
\* that it cannot pass.
LinesCollected == \A l \in Line : []<>(l <= cursor \/ Blocked)

\* The command the agent gives itself keeps the contract of a command the
\* manager gives: it is requested by the detection and closed by its result.
Phase(s) == CASE s \in Open    -> "open"
              [] s \in Outcome -> "closed"
              [] OTHER         -> "none"

Contract == INSTANCE CommandContract WITH
  Command   <- Line,
  NoOutcome <- None,
  phase     <- [l \in Line |-> Phase(command[l])],
  runs      <- effects,
  outcome   <- [l \in Line |-> IF command[l] \in Outcome THEN command[l] ELSE None]

Transfer == INSTANCE TelemetryTransfer WITH
  Record    <- Line,
  atAgent   <- {l \in Line : queue[l] # None},
  atManager <- {l \in Line : stored[l] # None}

\* Without the manager the agent promises the same as with it: the command of
\* an event acts at most once, it closes with one true outcome that no later
\* reading of the line changes, and the event passes from the queue to the
\* manager's table without being out of both.
ImplementsContracts == Contract!Spec /\ Transfer!Spec
=============================================================================
