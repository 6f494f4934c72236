---------------------- MODULE AgentConnection_proofs ----------------------
(***************************************************************************)
(* Proofs about AgentConnection for every number of store faults: type     *)
(* correctness, that ONLINE always rests on an answer of the manager in    *)
(* this process, and that the manager is never sent a state it refuses.    *)
(***************************************************************************)
EXTENDS AgentConnection, TLAPS

\* An upload cycle only exists, and SYNCING is only said, once the manager has
\* answered: the worker's guard and the heartbeat's answer come first.
ContactFirst ==
  /\ state \in {"ONLINE", "SYNCING"} => contact # "never"
  /\ pc[UploadWorker] \in {"claim", "flag", "drained", "post", "conclude"} => contact # "never"
  /\ pc[HeartbeatWorker] = "accept" => contact # "never"

\* Until shutdown only the heartbeat worker says OFFLINE, and it says
\* RECONNECTING again before it reads the state it reports.
OfflineIsLeftFirst ==
  main = "running" =>
    /\ state \notin {"STOPPING", "STOPPED"}
    /\ pc[HeartbeatWorker] = "attempt" /\ state = "OFFLINE" => prev = "OFFLINE"
    /\ pc[HeartbeatWorker] = "telemetry" => state # "OFFLINE"

\* A worker that has something to set knows what.
IntentKnown ==
  /\ pc[HeartbeatWorker] = "attempt" => prev \in STATES
  /\ pc[HeartbeatWorker] = "accept" => desired \in {"ONLINE", "SYNCING"}
  /\ pc[UploadWorker] = "conclude" => aim \in {"ONLINE", "SYNCING", "DEGRADED"}

\* TypeOK in three parts.
StateType ==
  /\ state \in STATES
  /\ backlog \subseteq {"due", "later", "claimed"}
  /\ main \in {"running", "stop", "joining", "joined", "stopped", "raised", "killed"}
  /\ manager \in {"reachable", "unreachable"}
  /\ contact \in {"never", "answered", "failed"}
ThreadType ==
  /\ pc \in [Worker -> {"idle", "attempt", "telemetry", "snapshot", "post", "accept", "fail",
                        "report", "claim", "flag", "drained", "conclude", "ended"}]
  /\ prev \in STATES \cup {None} /\ reported \in STATES \cup {None}
  /\ desired \in {"ONLINE", "SYNCING", None}
  /\ verdict \in {"set aside", "acknowledged", "malformed", "refused", "failed", None}
  /\ aim \in {"ONLINE", "SYNCING", "DEGRADED", None}
FaultType == storeFaults \in 0..MaxStoreFaults

IInv ==
  /\ StateType
  /\ ThreadType
  /\ FaultType
  /\ ContactFirst
  /\ OfflineIsLeftFirst
  /\ IntentKnown
  /\ ReportIsAccepted

\* The names the actions use.
LEMMA Names ==
  /\ {"STARTING", "CONNECTING", "ONLINE", "DEGRADED", "OFFLINE", "RECONNECTING", "SYNCING",
      "STOPPING", "STOPPED"} \subseteq STATES
  /\ HeartbeatWorker \in Worker /\ UploadWorker \in Worker
  /\ HeartbeatWorker # UploadWorker
BY DEF STATES, Worker, HeartbeatWorker, UploadWorker

LEMMA InvariantInit == Init => IInv
BY ConnectionAssumption, Names
   DEF Init, IInv, StateType, ThreadType, FaultType, ContactFirst, OfflineIsLeftFirst,
       IntentKnown, ReportIsAccepted, ConnectionAssumption, Reportable

LEMMA InvariantNext == IInv /\ [Next]_vars => IInv'
<1> SUFFICES ASSUME IInv, [Next]_vars PROVE IInv'
  OBVIOUS
<1> USE ConnectionAssumption, Names
    DEF ConnectionAssumption, IInv, vars, heartbeatVars, uploadVars, At, Goto, EndCycle, stopping
<1>1. CASE UNCHANGED vars
  <2>1. StateType'
    BY <1>1 DEF StateType, ThreadType, IntentKnown
  <2>2. ThreadType'
    BY <1>1 DEF StateType, ThreadType
  <2>3. IntentKnown' /\ ContactFirst'
    BY <1>1 DEF StateType, ThreadType, IntentKnown, ContactFirst
  <2>4. OfflineIsLeftFirst' /\ ReportIsAccepted'
    BY <1>1 DEF StateType, ThreadType, IntentKnown, OfflineIsLeftFirst,
      ReportIsAccepted, Reportable
  <2>5. FaultType'
    BY <1>1 DEF FaultType
  <2> QED BY <2>1, <2>2, <2>3, <2>4, <2>5
<1>2. CASE BeginHeartbeat
  <2>1. StateType'
    BY <1>2 DEF BeginHeartbeat, StateType, ThreadType, IntentKnown
  <2>2. ThreadType'
    BY <1>2 DEF BeginHeartbeat, StateType, ThreadType
  <2>3. IntentKnown' /\ ContactFirst'
    BY <1>2 DEF BeginHeartbeat, StateType, ThreadType, IntentKnown, ContactFirst
  <2>4. OfflineIsLeftFirst' /\ ReportIsAccepted'
    BY <1>2 DEF BeginHeartbeat, StateType, ThreadType, IntentKnown,
      OfflineIsLeftFirst, ReportIsAccepted, Reportable
  <2>5. FaultType'
    BY <1>2 DEF BeginHeartbeat, FaultType
  <2> QED BY <2>1, <2>2, <2>3, <2>4, <2>5
<1>3. CASE Attempt
  <2>1. StateType'
    BY <1>3 DEF Attempt, Connects, Forced, AttemptTarget, Move, Allowed, StateType,
      ThreadType, IntentKnown
  <2>2. ThreadType'
    BY <1>3 DEF Attempt, Connects, Forced, AttemptTarget, Move, Allowed, StateType,
      ThreadType
  <2>3. IntentKnown' /\ ContactFirst'
    BY <1>3 DEF Attempt, Connects, Forced, AttemptTarget, Move, Allowed, StateType,
      ThreadType, IntentKnown, ContactFirst
  <2>4. OfflineIsLeftFirst' /\ ReportIsAccepted'
    BY <1>3 DEF Attempt, Connects, Forced, AttemptTarget, Move, Allowed, StateType,
      ThreadType, IntentKnown, OfflineIsLeftFirst, ReportIsAccepted, Reportable
  <2>5. FaultType'
    BY <1>3 DEF Attempt, Connects, Forced, AttemptTarget, Move, Allowed, FaultType
  <2> QED BY <2>1, <2>2, <2>3, <2>4, <2>5
<1>4. CASE AttemptRaises
  <2>1. StateType'
    BY <1>4 DEF AttemptRaises, Connects, Forced, AttemptTarget, MoveUnsaved,
      Allowed, StateType, ThreadType, IntentKnown
  <2>2. ThreadType'
    BY <1>4 DEF AttemptRaises, Connects, Forced, AttemptTarget, MoveUnsaved,
      Allowed, StateType, ThreadType
  <2>3. IntentKnown' /\ ContactFirst'
    BY <1>4 DEF AttemptRaises, Connects, Forced, AttemptTarget, MoveUnsaved,
      Allowed, StateType, ThreadType, IntentKnown, ContactFirst
  <2>4. OfflineIsLeftFirst' /\ ReportIsAccepted'
    BY <1>4 DEF AttemptRaises, Connects, Forced, AttemptTarget, MoveUnsaved,
      Allowed, StateType, ThreadType, IntentKnown, OfflineIsLeftFirst,
      ReportIsAccepted, Reportable
  <2>5. FaultType'
    BY <1>4 DEF AttemptRaises, Connects, Forced, AttemptTarget, MoveUnsaved,
      Allowed, FaultType
  <2> QED BY <2>1, <2>2, <2>3, <2>4, <2>5
<1>5. CASE ReadTelemetry
  <2>1. StateType'
    BY <1>5 DEF ReadTelemetry, StateType, ThreadType, IntentKnown
  <2>2. ThreadType'
    BY <1>5 DEF ReadTelemetry, StateType, ThreadType
  <2>3. IntentKnown' /\ ContactFirst'
    BY <1>5 DEF ReadTelemetry, StateType, ThreadType, IntentKnown, ContactFirst
  <2>4. OfflineIsLeftFirst' /\ ReportIsAccepted'
    BY <1>5 DEF ReadTelemetry, StateType, ThreadType, IntentKnown,
      OfflineIsLeftFirst, ReportIsAccepted, Reportable, STATES
  <2>5. FaultType'
    BY <1>5 DEF ReadTelemetry, FaultType
  <2> QED BY <2>1, <2>2, <2>3, <2>4, <2>5
<1>6. CASE Snapshot
  <2>1. StateType'
    BY <1>6 DEF Snapshot, StateType, ThreadType, IntentKnown
  <2>2. ThreadType'
    BY <1>6 DEF Snapshot, StateType, ThreadType
  <2>3. IntentKnown' /\ ContactFirst'
    BY <1>6 DEF Snapshot, StateType, ThreadType, IntentKnown, ContactFirst
  <2>4. OfflineIsLeftFirst' /\ ReportIsAccepted'
    BY <1>6 DEF Snapshot, StateType, ThreadType, IntentKnown, OfflineIsLeftFirst,
      ReportIsAccepted, Reportable
  <2>5. FaultType'
    BY <1>6 DEF Snapshot, FaultType
  <2> QED BY <2>1, <2>2, <2>3, <2>4, <2>5
<1>7. CASE HeartbeatAnswered
  <2>1. StateType'
    BY <1>7 DEF HeartbeatAnswered, StateType, ThreadType, IntentKnown
  <2>2. ThreadType'
    BY <1>7 DEF HeartbeatAnswered, StateType, ThreadType
  <2>3. IntentKnown' /\ ContactFirst'
    BY <1>7 DEF HeartbeatAnswered, StateType, ThreadType, IntentKnown, ContactFirst
  <2>4. OfflineIsLeftFirst' /\ ReportIsAccepted'
    BY <1>7 DEF HeartbeatAnswered, StateType, ThreadType, IntentKnown,
      OfflineIsLeftFirst, ReportIsAccepted, Reportable
  <2>5. FaultType'
    BY <1>7 DEF HeartbeatAnswered, FaultType
  <2> QED BY <2>1, <2>2, <2>3, <2>4, <2>5
<1>8. CASE HeartbeatUnanswered
  <2>1. StateType'
    BY <1>8 DEF HeartbeatUnanswered, StateType, ThreadType, IntentKnown
  <2>2. ThreadType'
    BY <1>8 DEF HeartbeatUnanswered, StateType, ThreadType
  <2>3. IntentKnown' /\ ContactFirst'
    BY <1>8 DEF HeartbeatUnanswered, StateType, ThreadType, IntentKnown,
      ContactFirst
  <2>4. OfflineIsLeftFirst' /\ ReportIsAccepted'
    BY <1>8 DEF HeartbeatUnanswered, StateType, ThreadType, IntentKnown,
      OfflineIsLeftFirst, ReportIsAccepted, Reportable
  <2>5. FaultType'
    BY <1>8 DEF HeartbeatUnanswered, FaultType
  <2> QED BY <2>1, <2>2, <2>3, <2>4, <2>5
<1>9. CASE AcceptHeartbeat
  <2>1. StateType'
    BY <1>9 DEF AcceptHeartbeat, Move, StateType, ThreadType, IntentKnown
  <2>2. ThreadType'
    BY <1>9 DEF AcceptHeartbeat, Move, StateType, ThreadType
  <2>3. IntentKnown' /\ ContactFirst'
    BY <1>9 DEF AcceptHeartbeat, Move, StateType, ThreadType, IntentKnown,
      ContactFirst
  <2>4. OfflineIsLeftFirst' /\ ReportIsAccepted'
    BY <1>9 DEF AcceptHeartbeat, Move, StateType, ThreadType, IntentKnown,
      OfflineIsLeftFirst, ReportIsAccepted, Reportable
  <2>5. FaultType'
    BY <1>9 DEF AcceptHeartbeat, Move, FaultType
  <2> QED BY <2>1, <2>2, <2>3, <2>4, <2>5
<1>10. CASE AcceptRaises
  <2>1. StateType'
    BY <1>10 DEF AcceptRaises, Move, MoveUnsaved, StateType, ThreadType, IntentKnown
  <2>2. ThreadType'
    BY <1>10 DEF AcceptRaises, Move, MoveUnsaved, StateType, ThreadType
  <2>3. IntentKnown' /\ ContactFirst'
    BY <1>10 DEF AcceptRaises, Move, MoveUnsaved, StateType, ThreadType,
      IntentKnown,
      ContactFirst
  <2>4. OfflineIsLeftFirst' /\ ReportIsAccepted'
    BY <1>10 DEF AcceptRaises, Move, MoveUnsaved, StateType, ThreadType,
      IntentKnown,
      OfflineIsLeftFirst, ReportIsAccepted, Reportable
  <2>5. FaultType'
    BY <1>10 DEF AcceptRaises, Move, MoveUnsaved, FaultType
  <2> QED BY <2>1, <2>2, <2>3, <2>4, <2>5
<1>11. CASE HeartbeatFails
  <2>1. StateType'
    BY <1>11 DEF HeartbeatFails, Move, MoveUnsaved, StateType, ThreadType,
      IntentKnown
  <2>2. ThreadType'
    BY <1>11 DEF HeartbeatFails, Move, MoveUnsaved, StateType, ThreadType
  <2>3. IntentKnown' /\ ContactFirst'
    BY <1>11 DEF HeartbeatFails, Move, MoveUnsaved, StateType, ThreadType,
      IntentKnown, ContactFirst
  <2>4. OfflineIsLeftFirst' /\ ReportIsAccepted'
    BY <1>11 DEF HeartbeatFails, Move, MoveUnsaved, StateType, ThreadType,
      IntentKnown, OfflineIsLeftFirst, ReportIsAccepted, Reportable
  <2>5. FaultType'
    BY <1>11 DEF HeartbeatFails, Move, MoveUnsaved, FaultType
  <2> QED BY <2>1, <2>2, <2>3, <2>4, <2>5
<1>12. CASE BeginUpload
  <2>1. StateType'
    BY <1>12 DEF BeginUpload, Connected, StateType, ThreadType, IntentKnown
  <2>2. ThreadType'
    BY <1>12 DEF BeginUpload, Connected, StateType, ThreadType
  <2>3. IntentKnown' /\ ContactFirst'
    BY <1>12 DEF BeginUpload, Connected, StateType, ThreadType, IntentKnown,
      ContactFirst
  <2>4. OfflineIsLeftFirst' /\ ReportIsAccepted'
    BY <1>12 DEF BeginUpload, Connected, StateType, ThreadType, IntentKnown,
      OfflineIsLeftFirst, ReportIsAccepted, Reportable
  <2>5. FaultType'
    BY <1>12 DEF BeginUpload, Connected, FaultType
  <2> QED BY <2>1, <2>2, <2>3, <2>4, <2>5
<1>13. CASE ClaimBatch
  <2>1. StateType'
    <3>1. \A b \in Claimable : b \subseteq {"due", "later", "claimed"}
      BY DEF Claimable, StateType
    <3>2. backlog' \subseteq {"due", "later", "claimed"}
      BY <1>13, <3>1 DEF ClaimBatch
    <3> QED BY <1>13, <3>2 DEF ClaimBatch, StateType
  <2>2. ThreadType'
    BY <1>13 DEF ClaimBatch, Claimable, StateType, ThreadType
  <2>3. IntentKnown' /\ ContactFirst'
    BY <1>13 DEF ClaimBatch, Claimable, StateType, ThreadType, IntentKnown,
      ContactFirst
  <2>4. OfflineIsLeftFirst' /\ ReportIsAccepted'
    BY <1>13 DEF ClaimBatch, Claimable, StateType, ThreadType, IntentKnown,
      OfflineIsLeftFirst, ReportIsAccepted, Reportable
  <2>5. FaultType'
    BY <1>13 DEF ClaimBatch, Claimable, FaultType
  <2> QED BY <2>1, <2>2, <2>3, <2>4, <2>5
<1>14. CASE NothingDue
  <2>1. StateType'
    BY <1>14 DEF NothingDue, StateType, ThreadType, IntentKnown
  <2>2. ThreadType'
    BY <1>14 DEF NothingDue, StateType, ThreadType
  <2>3. IntentKnown' /\ ContactFirst'
    BY <1>14 DEF NothingDue, StateType, ThreadType, IntentKnown, ContactFirst
  <2>4. OfflineIsLeftFirst' /\ ReportIsAccepted'
    BY <1>14 DEF NothingDue, StateType, ThreadType, IntentKnown, OfflineIsLeftFirst,
      ReportIsAccepted, Reportable
  <2>5. FaultType'
    BY <1>14 DEF NothingDue, FaultType
  <2> QED BY <2>1, <2>2, <2>3, <2>4, <2>5
<1>15. CASE Drained
  <2>1. StateType'
    BY <1>15 DEF Drained, Move, MoveUnsaved, StateType, ThreadType, IntentKnown
  <2>2. ThreadType'
    BY <1>15 DEF Drained, Move, MoveUnsaved, StateType, ThreadType
  <2>3. IntentKnown' /\ ContactFirst'
    BY <1>15 DEF Drained, Move, MoveUnsaved, StateType, ThreadType, IntentKnown,
      ContactFirst
  <2>4. OfflineIsLeftFirst' /\ ReportIsAccepted'
    BY <1>15 DEF Drained, Move, MoveUnsaved, StateType, ThreadType, IntentKnown,
      OfflineIsLeftFirst, ReportIsAccepted, Reportable
  <2>5. FaultType'
    BY <1>15 DEF Drained, Move, MoveUnsaved, FaultType
  <2> QED BY <2>1, <2>2, <2>3, <2>4, <2>5
<1>16. CASE FlagSyncing
  <2>1. StateType'
    BY <1>16 DEF FlagSyncing, Move, StateType, ThreadType, IntentKnown
  <2>2. ThreadType'
    BY <1>16 DEF FlagSyncing, Move, StateType, ThreadType
  <2>3. IntentKnown' /\ ContactFirst'
    BY <1>16 DEF FlagSyncing, Move, StateType, ThreadType, IntentKnown, ContactFirst
  <2>4. OfflineIsLeftFirst' /\ ReportIsAccepted'
    BY <1>16 DEF FlagSyncing, Move, StateType, ThreadType, IntentKnown,
      OfflineIsLeftFirst, ReportIsAccepted, Reportable
  <2>5. FaultType'
    BY <1>16 DEF FlagSyncing, Move, FaultType
  <2> QED BY <2>1, <2>2, <2>3, <2>4, <2>5
<1>17. CASE FlagRaises
  <2>1. StateType'
    BY <1>17 DEF FlagRaises, MoveUnsaved, StateType, ThreadType, IntentKnown
  <2>2. ThreadType'
    BY <1>17 DEF FlagRaises, MoveUnsaved, StateType, ThreadType
  <2>3. IntentKnown' /\ ContactFirst'
    BY <1>17 DEF FlagRaises, MoveUnsaved, StateType, ThreadType, IntentKnown,
      ContactFirst
  <2>4. OfflineIsLeftFirst' /\ ReportIsAccepted'
    BY <1>17 DEF FlagRaises, MoveUnsaved, StateType, ThreadType, IntentKnown,
      OfflineIsLeftFirst, ReportIsAccepted, Reportable
  <2>5. FaultType'
    BY <1>17 DEF FlagRaises, MoveUnsaved, FaultType
  <2> QED BY <2>1, <2>2, <2>3, <2>4, <2>5
<1>18. CASE SetAside
  <2>1. StateType'
    BY <1>18 DEF SetAside, Settle, Unclaimed, ByDepth, StateType, ThreadType,
      IntentKnown
  <2>2. ThreadType'
    BY <1>18 DEF SetAside, Settle, Unclaimed, ByDepth, StateType, ThreadType
  <2>3. IntentKnown' /\ ContactFirst'
    BY <1>18 DEF SetAside, Settle, Unclaimed, ByDepth, StateType, ThreadType,
      IntentKnown, ContactFirst
  <2>4. OfflineIsLeftFirst' /\ ReportIsAccepted'
    BY <1>18 DEF SetAside, Settle, Unclaimed, ByDepth, StateType, ThreadType,
      IntentKnown, OfflineIsLeftFirst, ReportIsAccepted, Reportable
  <2>5. FaultType'
    BY <1>18 DEF SetAside, Settle, Unclaimed, ByDepth, FaultType
  <2> QED BY <2>1, <2>2, <2>3, <2>4, <2>5
<1>19. CASE Acknowledged
  <2>1. StateType'
    BY <1>19 DEF Acknowledged, Retries, Settle, Unclaimed, ByDepth, StateType,
      ThreadType,
      IntentKnown
  <2>2. ThreadType'
    BY <1>19 DEF Acknowledged, Retries, Settle, Unclaimed, ByDepth, StateType,
      ThreadType
  <2>3. IntentKnown' /\ ContactFirst'
    BY <1>19 DEF Acknowledged, Retries, Settle, Unclaimed, ByDepth, StateType,
      ThreadType,
      IntentKnown, ContactFirst
  <2>4. OfflineIsLeftFirst' /\ ReportIsAccepted'
    BY <1>19 DEF Acknowledged, Retries, Settle, Unclaimed, ByDepth, StateType,
      ThreadType,
      IntentKnown, OfflineIsLeftFirst, ReportIsAccepted, Reportable
  <2>5. FaultType'
    BY <1>19 DEF Acknowledged, Retries, Settle, Unclaimed, ByDepth, FaultType
  <2> QED BY <2>1, <2>2, <2>3, <2>4, <2>5
<1>20. CASE Malformed
  <2>1. StateType'
    BY <1>20 DEF Malformed, Settle, Unclaimed, StateType, ThreadType, IntentKnown
  <2>2. ThreadType'
    BY <1>20 DEF Malformed, Settle, Unclaimed, StateType, ThreadType
  <2>3. IntentKnown' /\ ContactFirst'
    BY <1>20 DEF Malformed, Settle, Unclaimed, StateType, ThreadType, IntentKnown,
      ContactFirst
  <2>4. OfflineIsLeftFirst' /\ ReportIsAccepted'
    BY <1>20 DEF Malformed, Settle, Unclaimed, StateType, ThreadType, IntentKnown,
      OfflineIsLeftFirst, ReportIsAccepted, Reportable
  <2>5. FaultType'
    BY <1>20 DEF Malformed, Settle, Unclaimed, FaultType
  <2> QED BY <2>1, <2>2, <2>3, <2>4, <2>5
<1>21. CASE UploadFails
  <2>1. StateType'
    BY <1>21 DEF UploadFails, Retries, Settle, Unclaimed, StateType, ThreadType,
      IntentKnown
  <2>2. ThreadType'
    BY <1>21 DEF UploadFails, Retries, Settle, Unclaimed, StateType, ThreadType
  <2>3. IntentKnown' /\ ContactFirst'
    BY <1>21 DEF UploadFails, Retries, Settle, Unclaimed, StateType, ThreadType,
      IntentKnown,
      ContactFirst
  <2>4. OfflineIsLeftFirst' /\ ReportIsAccepted'
    BY <1>21 DEF UploadFails, Retries, Settle, Unclaimed, StateType, ThreadType,
      IntentKnown,
      OfflineIsLeftFirst, ReportIsAccepted, Reportable
  <2>5. FaultType'
    BY <1>21 DEF UploadFails, Retries, Settle, Unclaimed, FaultType
  <2> QED BY <2>1, <2>2, <2>3, <2>4, <2>5
<1>22. CASE Conclude
  <2>1. StateType'
    BY <1>22 DEF Conclude, Move, News, StateType, ThreadType, IntentKnown
  <2>2. ThreadType'
    BY <1>22 DEF Conclude, Move, News, StateType, ThreadType
  <2>3. IntentKnown' /\ ContactFirst'
    BY <1>22 DEF Conclude, Move, News, StateType, ThreadType, IntentKnown,
      ContactFirst
  <2>4. OfflineIsLeftFirst' /\ ReportIsAccepted'
    BY <1>22 DEF Conclude, Move, News, StateType, ThreadType, IntentKnown,
      OfflineIsLeftFirst, ReportIsAccepted, Reportable
  <2>5. FaultType'
    BY <1>22 DEF Conclude, Move, News, FaultType
  <2> QED BY <2>1, <2>2, <2>3, <2>4, <2>5
<1>23. CASE ConcludeRaises
  <2>1. StateType'
    BY <1>23 DEF ConcludeRaises, Retries, MoveUnsaved, News, StateType, ThreadType,
      IntentKnown
  <2>2. ThreadType'
    BY <1>23 DEF ConcludeRaises, Retries, MoveUnsaved, News, StateType, ThreadType
  <2>3. IntentKnown' /\ ContactFirst'
    BY <1>23 DEF ConcludeRaises, Retries, MoveUnsaved, News, StateType, ThreadType,
      IntentKnown, ContactFirst
  <2>4. OfflineIsLeftFirst' /\ ReportIsAccepted'
    BY <1>23 DEF ConcludeRaises, Retries, MoveUnsaved, News, StateType, ThreadType,
      IntentKnown, OfflineIsLeftFirst, ReportIsAccepted, Reportable
  <2>5. FaultType'
    <3>1. MoveUnsaved(aim)
      BY <1>23 DEF ConcludeRaises
    <3> QED BY <3>1 DEF MoveUnsaved, FaultType
  <2> QED BY <2>1, <2>2, <2>3, <2>4, <2>5
<1>24. CASE Shutdown
  <2>1. StateType'
    BY <1>24 DEF Shutdown, Move, MoveUnsaved, StateType, ThreadType, IntentKnown
  <2>2. ThreadType'
    BY <1>24 DEF Shutdown, Move, MoveUnsaved, StateType, ThreadType
  <2>3. IntentKnown' /\ ContactFirst'
    BY <1>24 DEF Shutdown, Move, MoveUnsaved, StateType, ThreadType, IntentKnown,
      ContactFirst
  <2>4. OfflineIsLeftFirst' /\ ReportIsAccepted'
    BY <1>24 DEF Shutdown, Move, MoveUnsaved, StateType, ThreadType, IntentKnown,
      OfflineIsLeftFirst, ReportIsAccepted, Reportable
  <2>5. FaultType'
    BY <1>24 DEF Shutdown, Move, MoveUnsaved, FaultType
  <2> QED BY <2>1, <2>2, <2>3, <2>4, <2>5
<1>25. CASE StopWorkers
  <2>1. StateType'
    BY <1>25 DEF StopWorkers, StateType, ThreadType, IntentKnown
  <2>2. ThreadType'
    BY <1>25 DEF StopWorkers, StateType, ThreadType
  <2>3. IntentKnown' /\ ContactFirst'
    BY <1>25 DEF StopWorkers, StateType, ThreadType, IntentKnown, ContactFirst
  <2>4. OfflineIsLeftFirst' /\ ReportIsAccepted'
    BY <1>25 DEF StopWorkers, StateType, ThreadType, IntentKnown,
      OfflineIsLeftFirst, ReportIsAccepted, Reportable
  <2>5. FaultType'
    BY <1>25 DEF StopWorkers, FaultType
  <2> QED BY <2>1, <2>2, <2>3, <2>4, <2>5
<1>26. CASE JoinsEnd
  <2>1. StateType'
    BY <1>26 DEF JoinsEnd, StateType, ThreadType, IntentKnown
  <2>2. ThreadType'
    BY <1>26 DEF JoinsEnd, StateType, ThreadType
  <2>3. IntentKnown' /\ ContactFirst'
    BY <1>26 DEF JoinsEnd, StateType, ThreadType, IntentKnown, ContactFirst
  <2>4. OfflineIsLeftFirst' /\ ReportIsAccepted'
    BY <1>26 DEF JoinsEnd, StateType, ThreadType, IntentKnown, OfflineIsLeftFirst,
      ReportIsAccepted, Reportable
  <2>5. FaultType'
    BY <1>26 DEF JoinsEnd, FaultType
  <2> QED BY <2>1, <2>2, <2>3, <2>4, <2>5
<1>27. CASE Finish
  <2>1. StateType'
    BY <1>27 DEF Finish, Move, MoveUnsaved, StateType, ThreadType, IntentKnown
  <2>2. ThreadType'
    BY <1>27 DEF Finish, Move, MoveUnsaved, StateType, ThreadType
  <2>3. IntentKnown' /\ ContactFirst'
    BY <1>27 DEF Finish, Move, MoveUnsaved, StateType, ThreadType, IntentKnown,
      ContactFirst
  <2>4. OfflineIsLeftFirst' /\ ReportIsAccepted'
    BY <1>27 DEF Finish, Move, MoveUnsaved, StateType, ThreadType, IntentKnown,
      OfflineIsLeftFirst, ReportIsAccepted, Reportable
  <2>5. FaultType'
    BY <1>27 DEF Finish, Move, MoveUnsaved, FaultType
  <2> QED BY <2>1, <2>2, <2>3, <2>4, <2>5
<1>28. CASE Enqueue
  <2>1. StateType'
    BY <1>28 DEF Enqueue, StateType, ThreadType, IntentKnown
  <2>2. ThreadType'
    BY <1>28 DEF Enqueue, StateType, ThreadType
  <2>3. IntentKnown' /\ ContactFirst'
    BY <1>28 DEF Enqueue, StateType, ThreadType, IntentKnown, ContactFirst
  <2>4. OfflineIsLeftFirst' /\ ReportIsAccepted'
    BY <1>28 DEF Enqueue, StateType, ThreadType, IntentKnown, OfflineIsLeftFirst,
      ReportIsAccepted, Reportable
  <2>5. FaultType'
    BY <1>28 DEF Enqueue, FaultType
  <2> QED BY <2>1, <2>2, <2>3, <2>4, <2>5
<1>29. CASE BackoffEnds
  <2>1. StateType'
    BY <1>29 DEF BackoffEnds, StateType, ThreadType, IntentKnown
  <2>2. ThreadType'
    BY <1>29 DEF BackoffEnds, StateType, ThreadType
  <2>3. IntentKnown' /\ ContactFirst'
    BY <1>29 DEF BackoffEnds, StateType, ThreadType, IntentKnown, ContactFirst
  <2>4. OfflineIsLeftFirst' /\ ReportIsAccepted'
    BY <1>29 DEF BackoffEnds, StateType, ThreadType, IntentKnown,
      OfflineIsLeftFirst, ReportIsAccepted, Reportable
  <2>5. FaultType'
    BY <1>29 DEF BackoffEnds, FaultType
  <2> QED BY <2>1, <2>2, <2>3, <2>4, <2>5
<1>30. CASE NetworkChanges
  <2>1. StateType'
    BY <1>30 DEF NetworkChanges, StateType, ThreadType, IntentKnown
  <2>2. ThreadType'
    BY <1>30 DEF NetworkChanges, StateType, ThreadType
  <2>3. IntentKnown' /\ ContactFirst'
    BY <1>30 DEF NetworkChanges, StateType, ThreadType, IntentKnown, ContactFirst
  <2>4. OfflineIsLeftFirst' /\ ReportIsAccepted'
    BY <1>30 DEF NetworkChanges, StateType, ThreadType, IntentKnown,
      OfflineIsLeftFirst, ReportIsAccepted, Reportable
  <2>5. FaultType'
    BY <1>30 DEF NetworkChanges, FaultType
  <2> QED BY <2>1, <2>2, <2>3, <2>4, <2>5
<1>31. CASE Crash
  <2>1. StateType'
    BY <1>31 DEF Crash, Boot, Fresh, Recovered, StateType, ThreadType, IntentKnown
  <2>2. ThreadType'
    BY <1>31 DEF Crash, Boot, Fresh, Recovered, StateType, ThreadType
  <2>3. IntentKnown' /\ ContactFirst'
    BY <1>31 DEF Crash, Boot, Fresh, Recovered, StateType, ThreadType, IntentKnown,
      ContactFirst
  <2>4. OfflineIsLeftFirst' /\ ReportIsAccepted'
    BY <1>31 DEF Crash, Boot, Fresh, Recovered, StateType, ThreadType, IntentKnown,
      OfflineIsLeftFirst, ReportIsAccepted, Reportable
  <2>5. FaultType'
    BY <1>31 DEF Crash, Boot, Fresh, Recovered, FaultType
  <2> QED BY <2>1, <2>2, <2>3, <2>4, <2>5
<1>32. CASE Restart
  <2>1. StateType'
    BY <1>32 DEF Restart, Boot, Fresh, Recovered, StateType, ThreadType, IntentKnown
  <2>2. ThreadType'
    BY <1>32 DEF Restart, Boot, Fresh, Recovered, StateType, ThreadType
  <2>3. IntentKnown' /\ ContactFirst'
    BY <1>32 DEF Restart, Boot, Fresh, Recovered, StateType, ThreadType,
      IntentKnown, ContactFirst
  <2>4. OfflineIsLeftFirst' /\ ReportIsAccepted'
    BY <1>32 DEF Restart, Boot, Fresh, Recovered, StateType, ThreadType,
      IntentKnown, OfflineIsLeftFirst, ReportIsAccepted, Reportable
  <2>5. FaultType'
    BY <1>32 DEF Restart, Boot, Fresh, Recovered, FaultType
  <2> QED BY <2>1, <2>2, <2>3, <2>4, <2>5
<1>33. ASSUME NEW w \in Worker, WorkerEnds(w) PROVE IInv'
  <2>1. StateType'
    BY <1>33 DEF WorkerEnds, StateType, ThreadType, IntentKnown
  <2>2. ThreadType'
    BY <1>33 DEF WorkerEnds, StateType, ThreadType
  <2>3. IntentKnown' /\ ContactFirst'
    BY <1>33 DEF WorkerEnds, StateType, ThreadType, IntentKnown, ContactFirst
  <2>4. OfflineIsLeftFirst' /\ ReportIsAccepted'
    BY <1>33 DEF WorkerEnds, StateType, ThreadType, IntentKnown, OfflineIsLeftFirst,
      ReportIsAccepted, Reportable
  <2>5. FaultType'
    BY <1>33 DEF WorkerEnds, FaultType
  <2> QED BY <2>1, <2>2, <2>3, <2>4, <2>5
<1>34. CASE ReportFailure
  <2>1. StateType'
    BY <1>34 DEF ReportFailure, StateType, ThreadType, IntentKnown
  <2>2. ThreadType'
    BY <1>34 DEF ReportFailure, StateType, ThreadType
  <2>3. IntentKnown' /\ ContactFirst'
    BY <1>34 DEF ReportFailure, StateType, ThreadType, IntentKnown, ContactFirst
  <2>4. OfflineIsLeftFirst' /\ ReportIsAccepted'
    BY <1>34 DEF ReportFailure, StateType, ThreadType, IntentKnown,
      OfflineIsLeftFirst,
      ReportIsAccepted, Reportable
  <2>5. FaultType'
    BY <1>34 DEF ReportFailure, FaultType
  <2> QED BY <2>1, <2>2, <2>3, <2>4, <2>5
<1>35. CASE Refused
  <2>1. StateType'
    BY <1>35 DEF Refused, Retries, Settle, Unclaimed, StateType, ThreadType,
      IntentKnown
  <2>2. ThreadType'
    BY <1>35 DEF Refused, Retries, Settle, Unclaimed, StateType, ThreadType
  <2>3. IntentKnown' /\ ContactFirst'
    BY <1>35 DEF Refused, Retries, Settle, Unclaimed, StateType, ThreadType,
      IntentKnown,
      ContactFirst
  <2>4. OfflineIsLeftFirst' /\ ReportIsAccepted'
    BY <1>35 DEF Refused, Retries, Settle, Unclaimed, StateType, ThreadType,
      IntentKnown,
      OfflineIsLeftFirst, ReportIsAccepted, Reportable
  <2>5. FaultType'
    BY <1>35 DEF Refused, Retries, Settle, Unclaimed, FaultType
  <2> QED BY <2>1, <2>2, <2>3, <2>4, <2>5
<1> QED
  BY <1>1, <1>2, <1>3, <1>4, <1>5, <1>6, <1>7, <1>8, <1>9, <1>10, <1>11, <1>12,
    <1>13, <1>14, <1>15, <1>16, <1>17, <1>18, <1>19, <1>20, <1>21, <1>22, <1>23,
    <1>24, <1>25, <1>26, <1>27, <1>28, <1>29, <1>30, <1>31, <1>32, <1>33, <1>34, <1>35
  DEF Next, HeartbeatNext, UploadNext, StopNext

THEOREM Invariant == Spec => []IInv
BY InvariantInit, InvariantNext, PTL DEF Spec

\* Every variable keeps its type.
THEOREM TypeCorrect == Spec => []TypeOK
<1>1. IInv => TypeOK
  BY DEF IInv, StateType, ThreadType, FaultType, TypeOK
<1> QED BY <1>1, Invariant, PTL

\* ONLINE rests on an answer of the manager to this very process, however
\* heartbeats, uploads, store faults, shutdowns and crashes interleave.
THEOREM OnlineIsEvidence == Spec => []OnlineAfterContact
<1>1. IInv => OnlineAfterContact
  BY DEF IInv, ContactFirst, OnlineAfterContact
<1> QED BY <1>1, Invariant, PTL

\* Until shutdown no heartbeat reports a state that the manager refuses.
THEOREM ReportsAreAccepted == Spec => []ReportIsAccepted
<1>1. IInv => ReportIsAccepted
  BY DEF IInv
<1> QED BY <1>1, Invariant, PTL
===========================================================================
