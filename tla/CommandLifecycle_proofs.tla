---------------------- MODULE CommandLifecycle_proofs ----------------------
(***************************************************************************)
(* Proofs about CommandLifecycle for every set of commands, every queue    *)
(* size and every number of agent restarts: type correctness, an inductive *)
(* invariant, the safety properties it implies, and the step simulation of *)
(* CommandContract.                                                        *)
(***************************************************************************)
EXTENDS CommandLifecycle, SequenceTheorems, TLAPS

---------------------------------------------------------------------------
(* The inductive invariant *)

\* A thread between the journal claim and the stored report.
Owner(t) == pc[t] \in {"announce", "process", "run", "record"}

\* A command a thread or a queue holds was created by the manager.
HeldCommandsExist ==
  /\ \A t \in Thread : pc[t] \in {"claim", "announce", "process", "run", "record", "post"}
                         => cmd[t] \in Command
  /\ \A t \in Thread : cmd[t] \in Command => row[cmd[t]] # "NONE"
  /\ \A c \in Command : claim[c] # "ABSENT" => row[c] # "NONE"
  /\ \A c \in delivery : row[c] # "NONE"
  /\ \A i \in 1..Len(inbox) : row[inbox[i]] # "NONE"

\* One thread owns a claim, and nothing is reported before it is done.
OneOwner ==
  /\ \A t \in Thread : Owner(t) => claim[cmd[t]] \in {"RECEIVED", "EXECUTING"}
  /\ \A t, u \in Thread : Owner(t) /\ Owner(u) /\ cmd[t] = cmd[u] => t = u
  /\ \A c \in Command : report[c] # None <=> claim[c] = "FINISHED"

\* An effect follows the claim and precedes the report.
RunsAfterClaim ==
  /\ \A c \in Command : executions[c] # 0 => claim[c] # "ABSENT"
  /\ \A t \in Thread : pc[t] \in {"announce", "process", "run"} => executions[cmd[t]] = 0

\* A report tells the truth about the effect.
Truthful(r, n) ==
  /\ r.status = "SUCCESS" => n = 1
  /\ r.status = "REJECTED" => n = 0
TruthfulReports ==
  /\ \A t \in Thread : pc[t] = "record" => /\ pending[t] # None
                                           /\ Truthful(pending[t], executions[cmd[t]])
  /\ \A c \in Command : report[c] # None => Truthful(report[c], executions[c])

\* Whatever travels or is stored by the manager is what the journal holds.
OneReport ==
  /\ \A t \in Thread : \A c \in todo[t] : report[c] # None
  /\ \A t \in Thread : pc[t] = "post" => report[cmd[t]] # None
  /\ \A m \in sent : m.body \in Report => report[m.cmd] = m.body
  /\ \A c \in Command : row[c] \in Terminal => evidence[c] # None
  /\ \A t \in answered : pc[t] = "post" /\ evidence[cmd[t]] = report[cmd[t]]

IInv ==
  /\ TypeOK
  /\ HeldCommandsExist
  /\ OneOwner
  /\ RunsAfterClaim
  /\ AtMostOnce
  /\ TruthfulReports
  /\ OneReport
  /\ ManagerAgreesWithJournal
  /\ ReportedOnlyIfStored

---------------------------------------------------------------------------
(* Type correctness *)

LEMMA ReportFacts ==
  /\ RecoveredReport \in Report
  /\ \A t \in Thread : NotExecuted(t) \subseteq Report /\ Executed(t) \subseteq Report
  /\ [status |-> "EXECUTING"] \notin Report
  /\ \A r \in Report : r.status \in Terminal
<1>1. RecoveredReport \in Report
  BY DEF RecoveredReport, Report, Terminal
<1>2. \A t \in Thread : NotExecuted(t) \subseteq Report
  BY DEF NotExecuted, Report, Terminal
<1>3. \A t \in Thread : Executed(t) \subseteq Report
  BY DEF Executed, Report, Terminal
<1>4. [status |-> "EXECUTING"] \notin Report
  BY DEF Report, Terminal
<1>5. \A r \in Report : r.status \in Terminal
  BY DEF Report
<1> QED BY <1>1, <1>2, <1>3, <1>4, <1>5

LEMMA TypeInit == Init => TypeOK
BY CommandAssumption, EmptySeq DEF Init, TypeOK, CommandAssumption

\* TypeOK is preserved given the rest of the invariant: what a thread posts is
\* a command of the manager with a stored report.
LEMMA TypeNext == IInv /\ [Next]_vars => TypeOK'
<1> SUFFICES ASSUME IInv, [Next]_vars PROVE TypeOK'
  OBVIOUS
<1> TypeOK
  BY DEF IInv
<1> USE CommandAssumption DEF CommandAssumption, vars, managerVars, netVars, threadVars,
      journalVars, envVars
<1>1. CASE UNCHANGED vars
  BY <1>1 DEF TypeOK
<1>2. ASSUME NEW c \in Command, CreateCommand(c) PROVE TypeOK'
  BY <1>2 DEF CreateCommand, TypeOK
<1>3. ASSUME NEW c \in Command, RecordStarted(c) PROVE TypeOK'
  BY <1>3 DEF RecordStarted, TypeOK
<1>4. ASSUME NEW c \in Command, RecordReport(c) PROVE TypeOK'
  BY <1>4, ReportFacts DEF RecordReport, Waiting, TypeOK, Message
<1>5. ASSUME NEW t \in Thread, AcknowledgeDuplicate(t) PROVE TypeOK'
  BY <1>5 DEF AcknowledgeDuplicate, TypeOK
<1>6. CASE ExpireCommands
  BY <1>6 DEF ExpireCommands, TypeOK
<1>7. CASE Heartbeat
  BY <1>7 DEF Heartbeat, TypeOK, Thread
<1>8. CASE EndHeartbeat
  BY <1>8 DEF EndHeartbeat, TypeOK, Thread
<1>9. CASE TakeCommand
  <2>1. inbox # <<>> /\ inbox \in Seq(Command)
    BY <1>9 DEF TakeCommand, TypeOK
  <2>2. Head(inbox) \in Command /\ Tail(inbox) \in Seq(Command) /\ Len(Tail(inbox)) = Len(inbox) - 1
    BY <2>1, HeadTailProperties
  <2>3. inbox' = Tail(inbox) /\ Len(inbox) <= QueueSize /\ Len(inbox) \in Nat
    BY <1>9, <2>1, LenProperties DEF TakeCommand, TypeOK
  <2>4. pc' \in [Thread -> {"idle", "reply", "claim", "announce", "process", "run",
                           "record", "select", "upload", "post"}]
        /\ cmd' \in [Thread -> Command \cup {None}]
    BY <1>9, <2>2 DEF TakeCommand, TypeOK, CommandWorker, Thread
  <2>5. inbox' \in Seq(Command) /\ Len(inbox') = Len(inbox) - 1
    BY <2>2, <2>3, Zenon
  <2>6. \A n \in Nat : n <= QueueSize => n - 1 <= QueueSize
    OBVIOUS
  <2>7. Len(inbox') <= QueueSize
    BY <2>3, <2>5, <2>6, ZenonT(20)
  <2> QED BY <1>9, <2>4, <2>5, <2>7 DEF TakeCommand, TypeOK
<1>10. ASSUME NEW c \in Command, QueueCommand(c) PROVE TypeOK'
  BY <1>10, AppendProperties DEF QueueCommand, TypeOK
<1>11. ASSUME NEW c \in Command, ExecuteInline(c) PROVE TypeOK'
  BY <1>11 DEF ExecuteInline, TypeOK, HeartbeatWorker, Thread
<1>12. ASSUME NEW t \in Thread, RefuseExpired(t) \/ AlreadyClaimed(t) PROVE TypeOK'
  BY <1>12 DEF RefuseExpired, AlreadyClaimed, Leave, AfterExecution, TypeOK
<1>13. ASSUME NEW t \in Thread, ClaimCommand(t) PROVE TypeOK'
  BY <1>13 DEF ClaimCommand, TypeOK
<1>14. ASSUME NEW t \in Thread, Announce(t) PROVE TypeOK'
  BY <1>14 DEF Announce, TypeOK, Message, IInv, HeldCommandsExist
<1>15. ASSUME NEW t \in Thread, Decline(t) PROVE TypeOK'
  BY <1>15, ReportFacts DEF Decline, TypeOK
<1>16. ASSUME NEW t \in Thread, Authorize(t) PROVE TypeOK'
  BY <1>16 DEF Authorize, TypeOK
<1>17. ASSUME NEW t \in Thread, Run(t) PROVE TypeOK'
  BY <1>17, ReportFacts DEF Run, TypeOK, IInv, HeldCommandsExist
<1>18. ASSUME NEW t \in Thread, StoreReport(t) PROVE TypeOK'
  BY <1>18 DEF StoreReport, Leave, AfterExecution, TypeOK
<1>19. ASSUME NEW t \in Thread, SelectReports(t) PROVE TypeOK'
  BY <1>19 DEF SelectReports, TypeOK
<1>20. ASSUME NEW t \in Thread, NEW c \in Command, PostReport(t, c) PROVE TypeOK'
  BY <1>20 DEF PostReport, Reports, TypeOK, Message, IInv, OneReport
<1>21. ASSUME NEW t \in Thread, PostAcknowledged(t) PROVE TypeOK'
  BY <1>21 DEF PostAcknowledged, HangUp, Leave, NextUpload, TypeOK
<1>22. ASSUME NEW t \in Thread, PostRejected(t) PROVE TypeOK'
  BY <1>22 DEF PostRejected, HangUp, Leave, NextUpload, TypeOK
<1>23. ASSUME NEW t \in Thread, PostFailed(t) PROVE TypeOK'
  BY <1>23 DEF PostFailed, HangUp, Leave, TypeOK
<1>24. CASE CrashAndRecover
  BY <1>24, ReportFacts DEF CrashAndRecover, TypeOK
<1>25. ASSUME NEW c \in Command, ManagerClock(c) \/ AgentClock(c) PROVE TypeOK'
  BY <1>25 DEF ManagerClock, AgentClock, TypeOK
<1> QED
  BY <1>1, <1>2, <1>3, <1>4, <1>5, <1>6, <1>7, <1>8, <1>9, <1>10, <1>11, <1>12,
    <1>13, <1>14,
     <1>15, <1>16, <1>17, <1>18, <1>19, <1>20, <1>21, <1>22, <1>23, <1>24, <1>25
  DEF Next, ManagerNext, DeliveryNext, ExecuteNext, UploadNext, EnvironmentNext


---------------------------------------------------------------------------
(* The inductive invariant is preserved *)

\* A row with evidence is terminal, so a step that finds it open or expired
\* finds no evidence.
LEMMA EvidenceIsFinal ==
  ASSUME IInv, NEW c \in Command, evidence[c] # None
  PROVE  evidence[c] \in Report /\ evidence[c] = report[c] /\ row[c] \in Terminal
BY ReportFacts DEF IInv, TypeOK, ManagerAgreesWithJournal

LEMMA InvariantNext == IInv /\ [Next]_vars => IInv'
<1> SUFFICES ASSUME IInv, [Next]_vars PROVE IInv'
  OBVIOUS
<1>0. TypeOK /\ TypeOK'
  BY TypeNext DEF IInv
<1> USE CommandAssumption, ReportFacts DEF CommandAssumption, vars, managerVars, netVars, threadVars, journalVars, envVars
<1>1. CASE UNCHANGED vars
  BY <1>1, <1>0 DEF IInv, HeldCommandsExist, OneOwner, Owner, RunsAfterClaim,
    AtMostOnce, TruthfulReports, Truthful, OneReport, ManagerAgreesWithJournal,
    ReportedOnlyIfStored, TypeOK
<1>2. ASSUME NEW c \in Command, CreateCommand(c) PROVE IInv'
  BY <1>2, <1>0 DEF CreateCommand, IInv, HeldCommandsExist, OneOwner, Owner,
    RunsAfterClaim, AtMostOnce, TruthfulReports, Truthful, OneReport,
    ManagerAgreesWithJournal, ReportedOnlyIfStored, TypeOK, Terminal
<1>3. ASSUME NEW c \in Command, RecordStarted(c) PROVE IInv'
  <2>1. HeldCommandsExist'
    BY <1>3 DEF RecordStarted, IInv, HeldCommandsExist
  <2>2. OneOwner'
    BY <1>3 DEF RecordStarted, IInv, OneOwner, Owner
  <2>3. RunsAfterClaim'
    BY <1>3 DEF RecordStarted, IInv, RunsAfterClaim
  <2>4. AtMostOnce'
    BY <1>3 DEF RecordStarted, IInv, AtMostOnce
  <2>5. TruthfulReports'
    BY <1>3 DEF RecordStarted, IInv, TruthfulReports
  <2>6. OneReport'
    BY <1>3, <1>0 DEF RecordStarted, IInv, OneReport, Terminal
  <2>7. ManagerAgreesWithJournal'
    <3> SUFFICES ASSUME NEW d \in Command, evidence'[d] # None
                 PROVE  evidence'[d] = report'[d] /\ row'[d] = evidence'[d].status
      BY DEF ManagerAgreesWithJournal
    <3>1. evidence[d] # None /\ evidence'[d] = evidence[d] /\ report'[d] = report[d]
      BY <1>3 DEF RecordStarted
    <3>2. row[d] \in Terminal
      BY <3>1, EvidenceIsFinal
    <3>3. c # d
      BY <1>3, <3>2 DEF RecordStarted, Terminal
    <3>4. row'[d] = row[d]
      BY <1>3, <3>3, <1>0 DEF RecordStarted, TypeOK
    <3> QED BY <3>1, <3>4 DEF IInv, ManagerAgreesWithJournal
  <2>8. ReportedOnlyIfStored'
    BY <1>3 DEF RecordStarted, IInv, ReportedOnlyIfStored
  <2> QED BY <1>0, <2>1, <2>2, <2>3, <2>4, <2>5, <2>6, <2>7, <2>8 DEF IInv
<1>4. ASSUME NEW c \in Command, RecordReport(c) PROVE IInv'
  <2>1. HeldCommandsExist'
    <3>1. \A d \in Command : row[d] # "NONE" => row'[d] # "NONE"
      <4>1. PICK m \in sent : m.body \in Report /\ row' = [row EXCEPT ![c] = m.body.status]
        BY <1>4 DEF RecordReport
      <4>2. m.body.status # "NONE"
        BY <4>1, ReportFacts DEF Terminal
      <4> QED BY <4>1, <4>2, <1>0 DEF TypeOK
    <3>2. UNCHANGED <<pc, cmd, claim, delivery, inbox>>
      BY <1>4 DEF RecordReport
    <3>3. \A i \in 1..Len(inbox) : inbox[i] \in Command
      BY <1>0 DEF TypeOK
    <3> QED BY <3>1, <3>2, <3>3, <1>0 DEF IInv, HeldCommandsExist, TypeOK
  <2>2. OneOwner'
    BY <1>4 DEF RecordReport, Waiting, Acceptable, IInv, OneOwner, Owner
  <2>3. RunsAfterClaim'
    BY <1>4 DEF RecordReport, Waiting, Acceptable, IInv, RunsAfterClaim
  <2>4. AtMostOnce'
    BY <1>4 DEF RecordReport, Waiting, Acceptable, IInv, AtMostOnce
  <2>5. TruthfulReports'
    BY <1>4 DEF RecordReport, Waiting, Acceptable, IInv, TruthfulReports
  <2>6. OneReport'
    BY <1>4, <1>0 DEF RecordReport, Waiting, Acceptable, IInv, OneReport, TypeOK
  <2>7. ManagerAgreesWithJournal'
    BY <1>4, <1>0 DEF RecordReport, IInv, OneReport, ManagerAgreesWithJournal,
      TypeOK
  <2>8. ReportedOnlyIfStored'
    BY <1>4, <1>0 DEF RecordReport, IInv, OneReport, ReportedOnlyIfStored
  <2> QED BY <1>0, <2>1, <2>2, <2>3, <2>4, <2>5, <2>6, <2>7, <2>8 DEF IInv
<1>5. ASSUME NEW t \in Thread, AcknowledgeDuplicate(t) PROVE IInv'
  BY <1>5, <1>0 DEF AcknowledgeDuplicate, IInv, HeldCommandsExist, OneOwner, Owner,
    RunsAfterClaim, AtMostOnce, TruthfulReports, Truthful, OneReport,
    ManagerAgreesWithJournal, ReportedOnlyIfStored, TypeOK, Terminal
<1>6. ASSUME ExpireCommands PROVE IInv'
  <2>1. HeldCommandsExist'
    BY <1>6, <1>0 DEF ExpireCommands, Expirable, IInv, HeldCommandsExist, TypeOK
  <2>2. OneOwner'
    BY <1>6 DEF ExpireCommands, Expirable, IInv, OneOwner, Owner
  <2>3. RunsAfterClaim'
    BY <1>6 DEF ExpireCommands, Expirable, IInv, RunsAfterClaim
  <2>4. AtMostOnce'
    BY <1>6 DEF ExpireCommands, Expirable, IInv, AtMostOnce
  <2>5. TruthfulReports'
    BY <1>6 DEF ExpireCommands, Expirable, IInv, TruthfulReports
  <2>6. OneReport'
    BY <1>6, <1>0 DEF ExpireCommands, IInv, OneReport, Terminal
  <2>7. ManagerAgreesWithJournal'
    <3> SUFFICES ASSUME NEW d \in Command, evidence'[d] # None
                 PROVE  evidence'[d] = report'[d] /\ row'[d] = evidence'[d].status
      BY DEF ManagerAgreesWithJournal
    <3>1. evidence[d] # None /\ evidence'[d] = evidence[d] /\ report'[d] = report[d]
      BY <1>6 DEF ExpireCommands
    <3>2. row[d] \in Terminal
      BY <3>1, EvidenceIsFinal
    <3>3. row'[d] = row[d]
      BY <1>6, <3>2, <1>0 DEF ExpireCommands, Expirable, Terminal, TypeOK
    <3> QED BY <3>1, <3>3 DEF IInv, ManagerAgreesWithJournal
  <2>8. ReportedOnlyIfStored'
    BY <1>6 DEF ExpireCommands, Expirable, IInv, ReportedOnlyIfStored
  <2> QED BY <1>0, <2>1, <2>2, <2>3, <2>4, <2>5, <2>6, <2>7, <2>8 DEF IInv
<1>7. ASSUME Heartbeat PROVE IInv'
  <2>1. HeldCommandsExist'
    BY <1>7, <1>0 DEF Heartbeat, Thread, IInv, HeldCommandsExist, TypeOK
  <2>2. OneOwner'
    BY <1>7 DEF Heartbeat, Thread, IInv, OneOwner, Owner
  <2>3. RunsAfterClaim'
    BY <1>7 DEF Heartbeat, Thread, IInv, RunsAfterClaim
  <2>4. AtMostOnce'
    BY <1>7 DEF Heartbeat, Thread, IInv, AtMostOnce
  <2>5. TruthfulReports'
    BY <1>7 DEF Heartbeat, Thread, IInv, TruthfulReports
  <2>6. OneReport'
    BY <1>7, <1>0 DEF Heartbeat, IInv, OneReport, Terminal
  <2>7. ManagerAgreesWithJournal'
    BY <1>7, <1>0, EvidenceIsFinal DEF Heartbeat, IInv, ManagerAgreesWithJournal,
      TypeOK, Terminal
  <2>8. ReportedOnlyIfStored'
    BY <1>7 DEF Heartbeat, Thread, IInv, ReportedOnlyIfStored
  <2> QED BY <1>0, <2>1, <2>2, <2>3, <2>4, <2>5, <2>6, <2>7, <2>8 DEF IInv
<1>8. ASSUME EndHeartbeat PROVE IInv'
  BY <1>8, <1>0 DEF EndHeartbeat, Thread, IInv, HeldCommandsExist, OneOwner, Owner,
    RunsAfterClaim, AtMostOnce, TruthfulReports, Truthful, OneReport,
    ManagerAgreesWithJournal, ReportedOnlyIfStored, TypeOK, Terminal
<1>9. ASSUME TakeCommand PROVE IInv'
  BY <1>9, <1>0 DEF TakeCommand, Thread, CommandWorker, IInv, HeldCommandsExist,
    OneOwner, Owner, RunsAfterClaim, AtMostOnce, TruthfulReports, Truthful,
    OneReport, ManagerAgreesWithJournal, ReportedOnlyIfStored, TypeOK, Terminal
<1>10. ASSUME NEW c \in Command, QueueCommand(c) PROVE IInv'
  BY <1>10, <1>0 DEF QueueCommand, IInv, HeldCommandsExist, OneOwner, Owner,
    RunsAfterClaim, AtMostOnce, TruthfulReports, Truthful, OneReport,
    ManagerAgreesWithJournal, ReportedOnlyIfStored, TypeOK, Terminal
<1>11. ASSUME NEW c \in Command, ExecuteInline(c) PROVE IInv'
  BY <1>11, <1>0 DEF ExecuteInline, Thread, HeartbeatWorker, IInv,
    HeldCommandsExist, OneOwner, Owner, RunsAfterClaim, AtMostOnce, TruthfulReports,
    Truthful, OneReport, ManagerAgreesWithJournal, ReportedOnlyIfStored, TypeOK,
    Terminal
<1>12. ASSUME NEW t \in Thread, RefuseExpired(t) PROVE IInv'
  BY <1>12, <1>0 DEF RefuseExpired, Leave, IInv, HeldCommandsExist, OneOwner, Owner,
    RunsAfterClaim, AtMostOnce, TruthfulReports, Truthful, OneReport,
    ManagerAgreesWithJournal, ReportedOnlyIfStored, TypeOK, Terminal
<1>13. ASSUME NEW t \in Thread, AlreadyClaimed(t) PROVE IInv'
  BY <1>13, <1>0 DEF AlreadyClaimed, Leave, AfterExecution, IInv, HeldCommandsExist,
    OneOwner, Owner, RunsAfterClaim, AtMostOnce, TruthfulReports, Truthful,
    OneReport, ManagerAgreesWithJournal, ReportedOnlyIfStored, TypeOK, Terminal
<1>14. ASSUME NEW t \in Thread, ClaimCommand(t) PROVE IInv'
  <2>1. HeldCommandsExist'
    BY <1>14 DEF ClaimCommand, IInv, HeldCommandsExist
  <2>2. OneOwner'
    <3>1. cmd[t] \in Command /\ claim[cmd[t]] = "ABSENT" /\ report[cmd[t]] = None
      BY <1>14 DEF ClaimCommand, IInv, HeldCommandsExist, OneOwner
    <3>2. \A u \in Thread : Owner(u) => cmd[u] \in Command /\ cmd[u] # cmd[t]
      BY <3>1 DEF IInv, HeldCommandsExist, OneOwner, Owner
    <3>3. \A u \in Thread : pc'[u] = IF u = t THEN "announce" ELSE pc[u]
      BY <1>14, <1>0 DEF ClaimCommand, TypeOK
    <3>4. \A d \in Command : claim'[d] = IF d = cmd[t] THEN "RECEIVED" ELSE claim[d]
      BY <1>14, <1>0 DEF ClaimCommand, TypeOK
    <3>5. UNCHANGED <<cmd, report>>
      BY <1>14 DEF ClaimCommand
    <3> QED BY <3>1, <3>2, <3>3, <3>4, <3>5 DEF IInv, OneOwner, Owner
  <2>3. RunsAfterClaim'
    BY <1>14, <1>0 DEF ClaimCommand, IInv, RunsAfterClaim, TypeOK
  <2>4. AtMostOnce'
    BY <1>14 DEF ClaimCommand, IInv, AtMostOnce
  <2>5. TruthfulReports'
    BY <1>14 DEF ClaimCommand, IInv, TruthfulReports
  <2>6. OneReport'
    BY <1>14 DEF ClaimCommand, IInv, OneReport
  <2>7. ManagerAgreesWithJournal'
    BY <1>14 DEF ClaimCommand, IInv, ManagerAgreesWithJournal
  <2>8. ReportedOnlyIfStored'
    BY <1>14 DEF ClaimCommand, IInv, ReportedOnlyIfStored
  <2> QED BY <1>0, <2>1, <2>2, <2>3, <2>4, <2>5, <2>6, <2>7, <2>8 DEF IInv
<1>15. ASSUME NEW t \in Thread, Announce(t) PROVE IInv'
  <2>1. HeldCommandsExist'
    BY <1>15 DEF Announce, IInv, HeldCommandsExist
  <2>2. OneOwner'
    <3>1. Owner(t) /\ cmd[t] \in Command /\ pc'[t] = "process"
      BY <1>15, <1>0 DEF Announce, Owner, IInv, HeldCommandsExist, TypeOK
    <3>2. \A u \in Thread : Owner(u)' <=> Owner(u)
      BY <1>15, <1>0, <3>1 DEF Announce, Owner, TypeOK
    <3>3. \A d \in Command : claim'[d] = IF d = cmd[t] THEN "EXECUTING" ELSE claim[d]
      BY <1>15, <1>0 DEF Announce, TypeOK
    <3>4. claim[cmd[t]] \in {"RECEIVED", "EXECUTING"} /\ UNCHANGED <<cmd, report>>
      BY <1>15, <3>1 DEF Announce, IInv, OneOwner
    <3>5. \A u \in Thread : Owner(u) => cmd[u] \in Command
      BY DEF IInv, HeldCommandsExist, Owner
    <3> QED BY <3>1, <3>2, <3>3, <3>4, <3>5 DEF IInv, OneOwner
  <2>3. RunsAfterClaim'
    BY <1>15 DEF Announce, IInv, RunsAfterClaim
  <2>4. AtMostOnce'
    BY <1>15 DEF Announce, IInv, AtMostOnce
  <2>5. TruthfulReports'
    BY <1>15 DEF Announce, IInv, TruthfulReports
  <2>6. OneReport'
    BY <1>15 DEF Announce, IInv, OneReport
  <2>7. ManagerAgreesWithJournal'
    BY <1>15 DEF Announce, IInv, ManagerAgreesWithJournal
  <2>8. ReportedOnlyIfStored'
    BY <1>15 DEF Announce, IInv, ReportedOnlyIfStored
  <2> QED BY <1>0, <2>1, <2>2, <2>3, <2>4, <2>5, <2>6, <2>7, <2>8 DEF IInv
<1>16. ASSUME NEW t \in Thread, Decline(t) PROVE IInv'
  BY <1>16, <1>0 DEF Decline, NotExecuted, IInv, HeldCommandsExist, OneOwner, Owner,
    RunsAfterClaim, AtMostOnce, TruthfulReports, Truthful, OneReport,
    ManagerAgreesWithJournal, ReportedOnlyIfStored, TypeOK, Terminal
<1>17. ASSUME NEW t \in Thread, Authorize(t) PROVE IInv'
  BY <1>17, <1>0 DEF Authorize, IInv, HeldCommandsExist, OneOwner, Owner,
    RunsAfterClaim, AtMostOnce, TruthfulReports, Truthful, OneReport,
    ManagerAgreesWithJournal, ReportedOnlyIfStored, TypeOK, Terminal
<1>18. ASSUME NEW t \in Thread, Run(t) PROVE IInv'
  <2>1. HeldCommandsExist'
    BY <1>18 DEF Run, Executed, IInv, HeldCommandsExist
  <2>2. OneOwner'
    BY <1>18 DEF Run, Executed, IInv, OneOwner, Owner
  <2>3. RunsAfterClaim'
    <3>1. Owner(t) /\ cmd[t] \in Command /\ claim[cmd[t]] \in {"RECEIVED", "EXECUTING"}
          /\ report[cmd[t]] = None /\ executions[cmd[t]] = 0
      BY <1>18, <1>0 DEF Run, Owner, IInv, HeldCommandsExist, OneOwner,
        RunsAfterClaim, TypeOK
    <3>2. \A d \in Command : executions'[d] = IF d = cmd[t] THEN 1 ELSE executions[d]
      BY <1>18, <1>0, <3>1 DEF Run, TypeOK
    <3>3. \A u \in Thread \ {t} : Owner(u) => cmd[u] \in Command /\ cmd[u] # cmd[t]
      BY <3>1 DEF IInv, OneOwner, HeldCommandsExist, Owner
    <3>4. \A u \in Thread : pc'[u] = IF u = t THEN "record" ELSE pc[u]
      BY <1>18, <1>0 DEF Run, TypeOK
    <3>5. UNCHANGED <<cmd, claim>>
      BY <1>18 DEF Run
    <3> QED BY <3>1, <3>2, <3>3, <3>4, <3>5 DEF IInv, RunsAfterClaim, Owner
  <2>4. AtMostOnce'
    BY <1>18, <1>0 DEF Run, IInv, RunsAfterClaim, AtMostOnce
  <2>5. TruthfulReports'
    <3>1. Owner(t) /\ cmd[t] \in Command /\ claim[cmd[t]] \in {"RECEIVED", "EXECUTING"}
          /\ report[cmd[t]] = None /\ executions[cmd[t]] = 0
      BY <1>18, <1>0 DEF Run, Owner, IInv, HeldCommandsExist, OneOwner,
        RunsAfterClaim, TypeOK
    <3>2. \A d \in Command : executions'[d] = IF d = cmd[t] THEN 1 ELSE executions[d]
      BY <1>18, <1>0, <3>1 DEF Run, TypeOK
    <3>3. \A u \in Thread \ {t} : Owner(u) => cmd[u] \in Command /\ cmd[u] # cmd[t]
      BY <3>1 DEF IInv, OneOwner, HeldCommandsExist, Owner
    <3>4. /\ \A u \in Thread : pc'[u] = IF u = t THEN "record" ELSE pc[u]
          /\ \A u \in Thread \ {t} : pending'[u] = pending[u]
          /\ pending'[t] \in Executed(t)
      BY <1>18, <1>0 DEF Run, TypeOK
    <3>5. Executed(t) \subseteq Report /\ \A r \in Executed(t) : r.status # "REJECTED"
      BY DEF Executed, Report, Terminal
    <3>6. UNCHANGED <<cmd, report>>
      BY <1>18 DEF Run
    <3>7. \A d \in Command : report'[d] # None => Truthful(report'[d], executions'[d])
      BY <3>1, <3>2, <3>6 DEF IInv, TruthfulReports
    <3>8. ASSUME NEW u \in Thread, pc'[u] = "record"
          PROVE  pending'[u] # None /\ Truthful(pending'[u], executions'[cmd'[u]])
      <4>1. CASE u = t
        BY <4>1, <3>1, <3>2, <3>4, <3>5, <3>6 DEF Truthful
      <4>2. CASE u # t
        BY <4>2, <3>2, <3>3, <3>4, <3>6, <3>8 DEF IInv, TruthfulReports, Owner
      <4> QED BY <4>1, <4>2
    <3> QED BY <3>7, <3>8 DEF TruthfulReports
  <2>6. OneReport'
    BY <1>18 DEF Run, Executed, IInv, OneReport
  <2>7. ManagerAgreesWithJournal'
    BY <1>18 DEF Run, Executed, IInv, ManagerAgreesWithJournal
  <2>8. ReportedOnlyIfStored'
    BY <1>18 DEF Run, Executed, IInv, ReportedOnlyIfStored
  <2> QED BY <1>0, <2>1, <2>2, <2>3, <2>4, <2>5, <2>6, <2>7, <2>8 DEF IInv
<1>19. ASSUME NEW t \in Thread, StoreReport(t) PROVE IInv'
  <2>1. HeldCommandsExist'
    BY <1>19, <1>0 DEF StoreReport, Leave, AfterExecution, IInv, HeldCommandsExist,
      TypeOK
  <2>2. OneOwner'
    BY <1>19, <1>0 DEF StoreReport, Leave, AfterExecution, IInv, OneOwner, Owner,
      TruthfulReports, TypeOK
  <2>3. RunsAfterClaim'
    BY <1>19 DEF StoreReport, Leave, AfterExecution, IInv, RunsAfterClaim
  <2>4. AtMostOnce'
    BY <1>19 DEF StoreReport, Leave, AfterExecution, IInv, AtMostOnce
  <2>5. TruthfulReports'
    BY <1>19, <1>0 DEF StoreReport, Leave, AfterExecution, IInv, TruthfulReports,
      TypeOK
  <2>6. OneReport'
    <3>1. Owner(t) /\ cmd[t] \in Command /\ report[cmd[t]] = None /\ pending[t] \in Report
      BY <1>19, <1>0 DEF StoreReport, Owner, IInv, HeldCommandsExist, OneOwner,
        TruthfulReports, TypeOK
    <3>2. \A d \in Command : report'[d] = IF d = cmd[t] THEN pending[t] ELSE report[d]
      BY <1>19, <1>0, <3>1 DEF StoreReport, TypeOK
    <3>3. UNCHANGED <<row, evidence, sent, answered, todo>>
      BY <1>19 DEF StoreReport, Leave
    <3>4. \A u \in Thread \ {t} : pc'[u] = pc[u] /\ cmd'[u] = cmd[u]
      BY <1>19, <1>0 DEF StoreReport, Leave, TypeOK
    <3>5. pc[t] = "record" /\ pc'[t] # "post"
      BY <1>19, <1>0 DEF StoreReport, Leave, AfterExecution, TypeOK
    <3>6. \A d \in Command : report[d] # None => report'[d] = report[d]
      BY <3>1, <3>2
    <3>7. \A u \in Thread : \A d \in todo'[u] : report'[d] # None
      BY <3>3, <3>6, <1>0 DEF IInv, OneReport, TypeOK
    <3>8. \A u \in Thread : pc'[u] = "post" => report'[cmd'[u]] # None
      <4>1. \A u \in Thread : pc[u] = "post" => cmd[u] \in Command /\ report[cmd[u]] # None
        BY DEF IInv, OneReport, HeldCommandsExist
      <4> QED BY <3>4, <3>5, <3>6, <4>1
    <3>9. \A m \in sent' : m.body \in Report => report'[m.cmd] = m.body
      <4>1. \A m \in sent : m.cmd \in Command
        BY <1>0 DEF TypeOK, Message
      <4> QED BY <3>3, <3>6, <4>1 DEF IInv, OneReport
    <3>10. \A u \in answered' : pc'[u] = "post" /\ evidence'[cmd'[u]] = report'[cmd'[u]]
      <4>1. \A u \in answered : /\ u \in Thread \ {t} /\ pc[u] = "post" /\ cmd[u] \in Command
                                /\ report[cmd[u]] # None /\ evidence[cmd[u]] = report[cmd[u]]
        BY <3>5, <1>0 DEF IInv, OneReport, HeldCommandsExist, TypeOK
      <4> QED BY <4>1, <3>3, <3>4, <3>6
    <3> QED BY <3>3, <3>7, <3>8, <3>9, <3>10 DEF IInv, OneReport
  <2>7. ManagerAgreesWithJournal'
    <3>1. Owner(t) /\ cmd[t] \in Command /\ report[cmd[t]] = None /\ pending[t] \in Report
      BY <1>19, <1>0 DEF StoreReport, Owner, IInv, HeldCommandsExist, OneOwner,
        TruthfulReports, TypeOK
    <3>2. \A d \in Command : report'[d] = IF d = cmd[t] THEN pending[t] ELSE report[d]
      BY <1>19, <1>0, <3>1 DEF StoreReport, TypeOK
    <3>3. UNCHANGED <<row, evidence, sent, answered, todo>>
      BY <1>19 DEF StoreReport, Leave
    <3> QED BY <3>1, <3>2, <3>3, EvidenceIsFinal DEF IInv, ManagerAgreesWithJournal
  <2>8. ReportedOnlyIfStored'
    <3>1. cmd[t] \in Command /\ report[cmd[t]] = None
      BY <1>19 DEF StoreReport, Owner, IInv, HeldCommandsExist, OneOwner
    <3>2. \A d \in Command : d # cmd[t] => report'[d] = report[d]
      BY <1>19, <1>0 DEF StoreReport, TypeOK
    <3>3. UNCHANGED <<evidence, reported>>
      BY <1>19 DEF StoreReport
    <3> QED BY <3>1, <3>2, <3>3 DEF IInv, ReportedOnlyIfStored
  <2> QED BY <1>0, <2>1, <2>2, <2>3, <2>4, <2>5, <2>6, <2>7, <2>8 DEF IInv
<1>20. ASSUME NEW t \in Thread, SelectReports(t) PROVE IInv'
  BY <1>20, <1>0 DEF SelectReports, IInv, HeldCommandsExist, OneOwner, Owner,
    RunsAfterClaim, AtMostOnce, TruthfulReports, Truthful, OneReport,
    ManagerAgreesWithJournal, ReportedOnlyIfStored, TypeOK, Terminal
<1>21. ASSUME NEW t \in Thread, NEW c \in Command, PostReport(t, c) PROVE IInv'
  BY <1>21, <1>0 DEF PostReport, Reports, IInv, HeldCommandsExist, OneOwner, Owner,
    RunsAfterClaim, AtMostOnce, TruthfulReports, Truthful, OneReport,
    ManagerAgreesWithJournal, ReportedOnlyIfStored, TypeOK, Terminal
<1>22. ASSUME NEW t \in Thread, PostAcknowledged(t) PROVE IInv'
  BY <1>22, <1>0 DEF PostAcknowledged, HangUp, Leave, NextUpload, IInv,
    HeldCommandsExist, OneOwner, Owner, RunsAfterClaim, AtMostOnce, TruthfulReports,
    Truthful, OneReport, ManagerAgreesWithJournal, ReportedOnlyIfStored, TypeOK,
    Terminal
<1>23. ASSUME NEW t \in Thread, PostRejected(t) PROVE IInv'
  BY <1>23, <1>0 DEF PostRejected, HangUp, Leave, NextUpload, IInv,
    HeldCommandsExist, OneOwner, Owner, RunsAfterClaim, AtMostOnce, TruthfulReports,
    Truthful, OneReport, ManagerAgreesWithJournal, ReportedOnlyIfStored, TypeOK,
    Terminal
<1>24. ASSUME NEW t \in Thread, PostFailed(t) PROVE IInv'
  BY <1>24, <1>0 DEF PostFailed, HangUp, Leave, IInv, HeldCommandsExist, OneOwner,
    Owner, RunsAfterClaim, AtMostOnce, TruthfulReports, Truthful, OneReport,
    ManagerAgreesWithJournal, ReportedOnlyIfStored, TypeOK, Terminal
<1>25. ASSUME CrashAndRecover PROVE IInv'
  <2>1. HeldCommandsExist'
    BY <1>25 DEF CrashAndRecover, Interrupted, IInv, HeldCommandsExist
  <2>2. OneOwner'
    BY <1>25 DEF CrashAndRecover, Interrupted, IInv, OneOwner, Owner
  <2>3. RunsAfterClaim'
    BY <1>25 DEF CrashAndRecover, Interrupted, IInv, RunsAfterClaim
  <2>4. AtMostOnce'
    BY <1>25 DEF CrashAndRecover, Interrupted, IInv, AtMostOnce
  <2>5. TruthfulReports'
    <3>1. /\ \A u \in Thread : pc'[u] = "idle"
          /\ \A d \in Command : report'[d] = IF Interrupted(d) THEN RecoveredReport ELSE report[d]
          /\ UNCHANGED executions
      BY <1>25 DEF CrashAndRecover
    <3>2. \A n \in Nat : Truthful(RecoveredReport, n)
      BY DEF Truthful, RecoveredReport
    <3>3. \A d \in Command : report'[d] # None => Truthful(report'[d], executions'[d])
      <4> SUFFICES ASSUME NEW d \in Command, report'[d] # None
                   PROVE  Truthful(report'[d], executions[d])
        BY <3>1
      <4>1. CASE Interrupted(d)
        BY <4>1, <3>1, <3>2, <1>0 DEF TypeOK
      <4>2. CASE ~Interrupted(d)
        BY <4>2, <3>1 DEF IInv, TruthfulReports
      <4> QED BY <4>1, <4>2
    <3> QED BY <3>1, <3>3 DEF TruthfulReports
  <2>6. OneReport'
    <3>1. /\ \A u \in Thread : pc'[u] = "idle" /\ todo'[u] = {}
          /\ \A d \in Command : report[d] # None => report'[d] = report[d]
          /\ answered' = {} /\ UNCHANGED <<row, evidence, sent>>
      BY <1>25 DEF CrashAndRecover, Interrupted
    <3>2. \A m \in sent : m.cmd \in Command
      BY <1>0 DEF TypeOK, Message
    <3> QED BY <3>1, <3>2 DEF IInv, OneReport
  <2>7. ManagerAgreesWithJournal'
    BY <1>25 DEF CrashAndRecover, Interrupted, IInv, ManagerAgreesWithJournal
  <2>8. ReportedOnlyIfStored'
    BY <1>25 DEF CrashAndRecover, Interrupted, IInv, ReportedOnlyIfStored
  <2> QED BY <1>0, <2>1, <2>2, <2>3, <2>4, <2>5, <2>6, <2>7, <2>8 DEF IInv
<1>26. ASSUME NEW c \in Command, ManagerClock(c) PROVE IInv'
  BY <1>26, <1>0 DEF ManagerClock, IInv, HeldCommandsExist, OneOwner, Owner,
    RunsAfterClaim, AtMostOnce, TruthfulReports, Truthful, OneReport,
    ManagerAgreesWithJournal, ReportedOnlyIfStored, TypeOK, Terminal
<1>27. ASSUME NEW c \in Command, AgentClock(c) PROVE IInv'
  BY <1>27, <1>0 DEF AgentClock, IInv, HeldCommandsExist, OneOwner, Owner,
    RunsAfterClaim, AtMostOnce, TruthfulReports, Truthful, OneReport,
    ManagerAgreesWithJournal, ReportedOnlyIfStored, TypeOK, Terminal
<1> QED
  BY <1>1, <1>2, <1>3, <1>4, <1>5, <1>6, <1>7, <1>8, <1>9, <1>10, <1>11, <1>12,
    <1>13, <1>14, <1>15, <1>16, <1>17, <1>18, <1>19, <1>20, <1>21, <1>22, <1>23,
    <1>24, <1>25, <1>26, <1>27
  DEF Next, ManagerNext, DeliveryNext, ExecuteNext, UploadNext, EnvironmentNext

LEMMA InvariantInit == Init => IInv
<1> SUFFICES ASSUME Init PROVE IInv
  OBVIOUS
<1>1. TypeOK
  BY TypeInit
<1>2. Len(inbox) = 0
  BY DEF Init
<1>3. HeldCommandsExist /\ OneOwner
  BY <1>2, CommandAssumption DEF Init, HeldCommandsExist, OneOwner, Owner,
    CommandAssumption
<1>4. RunsAfterClaim /\ AtMostOnce /\ TruthfulReports
  BY DEF Init, RunsAfterClaim, AtMostOnce, TruthfulReports
<1>5. OneReport /\ ManagerAgreesWithJournal /\ ReportedOnlyIfStored
  BY DEF Init, OneReport, ManagerAgreesWithJournal, ReportedOnlyIfStored, Terminal
<1> QED BY <1>1, <1>3, <1>4, <1>5 DEF IInv

THEOREM Invariant == Spec => []IInv
BY InvariantInit, InvariantNext, PTL DEF Spec

---------------------------------------------------------------------------
(* The properties *)

\* Every variable keeps its type, and the agent's command queue its bound.
THEOREM TypeCorrect == Spec => []TypeOK
<1>1. IInv => TypeOK
  BY DEF IInv
<1> QED BY <1>1, Invariant, PTL

\* An action runs at most once, whatever is redelivered, raced or restarted.
THEOREM RunsAtMostOnce == Spec => []AtMostOnce
<1>1. IInv => AtMostOnce
  BY DEF IInv
<1> QED BY <1>1, Invariant, PTL

\* The manager's evidence is the agent's journal entry.
THEOREM ManagerAgrees == Spec => []ManagerAgreesWithJournal
<1>1. IInv => ManagerAgreesWithJournal
  BY DEF IInv
<1> QED BY <1>1, Invariant, PTL

\* No report is dropped before the manager has stored it.
THEOREM NothingDropped == Spec => []ReportedOnlyIfStored
<1>1. IInv => ReportedOnlyIfStored
  BY DEF IInv
<1> QED BY <1>1, Invariant, PTL

\* SUCCESS is recorded only for an action that ran, REJECTED only for one that
\* did not.
THEOREM OutcomeIsTrue == Spec => []OutcomeMatchesEffect
<1>1. IInv => OutcomeMatchesEffect
  <2> SUFFICES ASSUME IInv, NEW c \in Command, row[c] \in {"SUCCESS", "REJECTED"}
               PROVE  Truthful([status |-> row[c]], executions[c])
    BY DEF OutcomeMatchesEffect, Truthful
  <2>1. evidence[c] # None
    BY DEF IInv, OneReport, Terminal
  <2>2. report[c] # None /\ row[c] = report[c].status
    BY <2>1, EvidenceIsFinal DEF IInv, ManagerAgreesWithJournal
  <2>3. Truthful(report[c], executions[c])
    BY <2>2 DEF IInv, TruthfulReports
  <2> QED BY <2>2, <2>3 DEF Truthful
<1> QED BY <1>1, Invariant, PTL

\* A row never goes back, and a terminal status is final.
THEOREM RowIsMonotone == Spec => RowNeverRegresses
<1>1. TypeOK /\ [Next]_vars =>
        [\A c \in Command : row'[c] # row[c] => Rank(row'[c]) > Rank(row[c])]_vars
  <2> SUFFICES ASSUME TypeOK, [Next]_vars, NEW c \in Command, row'[c] # row[c]
               PROVE  Rank(row'[c]) > Rank(row[c])
    OBVIOUS
  <2> USE DEF managerVars, Rank, TypeOK
  <2>1. CASE UNCHANGED vars
    BY <2>1 DEF vars
  <2>2. CASE CreateCommand(c)
    BY <2>2 DEF CreateCommand
  <2>3. CASE RecordStarted(c)
    BY <2>3 DEF RecordStarted
  <2>4. CASE RecordReport(c)
    <3>1. PICK m \in sent : /\ m.body \in Report /\ Acceptable(c, m.body)
                            /\ row' = [row EXCEPT ![c] = m.body.status]
      BY <2>4 DEF RecordReport
    <3>2. row'[c] \in Terminal /\ row[c] \in {"DISPATCHED", "EXECUTING", "EXPIRED"}
      BY <3>1, ReportFacts DEF Acceptable
    <3> QED BY <3>2 DEF Terminal
  <2>5. CASE ExpireCommands
    BY <2>5 DEF ExpireCommands, Expirable
  <2>6. CASE Heartbeat
    BY <2>6 DEF Heartbeat
  <2>7. ASSUME NEW d \in Command, CreateCommand(d) \/ RecordStarted(d) \/ RecordReport(d), d # c
        PROVE  FALSE
    BY <2>7 DEF CreateCommand, RecordStarted, RecordReport
  <2>8. CASE DeliveryNext /\ ~Heartbeat
    BY <2>8 DEF DeliveryNext, EndHeartbeat, TakeCommand, QueueCommand, ExecuteInline
  <2>9. ASSUME NEW t \in Thread, ExecuteNext(t) PROVE FALSE
    BY <2>9 DEF ExecuteNext, RefuseExpired, ClaimCommand, AlreadyClaimed, Announce,
      Decline,
      Authorize, Run, StoreReport
  <2>10. ASSUME NEW t \in Thread, UploadNext(t) \/ AcknowledgeDuplicate(t) PROVE FALSE
    BY <2>10 DEF UploadNext, SelectReports, PostReport, PostAcknowledged,
      PostRejected,
      PostFailed, AcknowledgeDuplicate
  <2>11. CASE EnvironmentNext
    BY <2>11 DEF EnvironmentNext, CrashAndRecover, ManagerClock, AgentClock
  <2> QED BY <2>1, <2>2, <2>3, <2>4, <2>5, <2>6, <2>7, <2>8, <2>9, <2>10, <2>11
             DEF Next, ManagerNext
<1> QED BY <1>1, TypeCorrect, PTL DEF Spec, RowNeverRegresses

---------------------------------------------------------------------------
(* The lifecycle implements CommandContract *)

\* The manager's part of the refinement mapping.
ContractPhase   == [c \in Command |-> Phase(row[c])]
ContractOutcome == [c \in Command |-> IF evidence[c] = None THEN None ELSE evidence[c].status]

LEMMA ContractInit == Init => Contract!Init
BY DEF Init, Contract!Init, Phase, Terminal

LEMMA ContractRun ==
  ASSUME IInv, NEW t \in Thread, Run(t)
  PROVE  Contract!Next
<1>1. cmd[t] \in Command /\ executions[cmd[t]] = 0
  BY DEF Run, IInv, HeldCommandsExist, RunsAfterClaim
<1>2. report[cmd[t]] = None /\ row[cmd[t]] # "NONE"
  BY <1>1 DEF Run, Owner, IInv, OneOwner, HeldCommandsExist
<1>3. row[cmd[t]] \notin Terminal
  BY <1>1, <1>2, EvidenceIsFinal, CommandAssumption DEF IInv, OneReport,
    CommandAssumption
<1>4. Phase(row[cmd[t]]) \in {"open", "expired"}
  BY <1>1, <1>2, <1>3 DEF Phase
<1>5. executions' = [executions EXCEPT ![cmd[t]] = 1] /\ UNCHANGED <<row, evidence>>
  BY <1>1 DEF Run, managerVars
<1>6. Contract!Perform(cmd[t])
  BY <1>1, <1>4, <1>5 DEF Contract!Perform
<1> QED BY <1>1, <1>6 DEF Contract!Next

LEMMA ContractReport ==
  ASSUME IInv, NEW c \in Command, RecordReport(c)
  PROVE  Contract!Next
<1>1. PICK m \in sent : /\ m.cmd = c /\ m.body \in Report /\ Acceptable(c, m.body)
                        /\ row' = [row EXCEPT ![c] = m.body.status]
                        /\ evidence' = [evidence EXCEPT ![c] = m.body]
  BY DEF RecordReport
<1>2. m.body.status \in Terminal /\ m.body # None
  BY <1>1, ReportFacts, CommandAssumption DEF CommandAssumption
<1>3. Truthful(m.body, executions[c])
  BY <1>1, <1>2 DEF IInv, OneReport, TruthfulReports
<1>4. Phase(row[c]) \in {"open", "expired"}
  BY <1>1 DEF Acceptable, Phase, Terminal
<1>5. [d \in Command |-> Phase(row'[d])] = [ContractPhase EXCEPT ![c] = "closed"]
  BY <1>1, <1>2 DEF ContractPhase, Phase, Terminal, IInv, TypeOK
<1>6. [d \in Command |-> IF evidence'[d] = None THEN None ELSE evidence'[d].status]
        = [ContractOutcome EXCEPT ![c] = m.body.status]
  BY <1>1, <1>2 DEF ContractOutcome, IInv, TypeOK
<1>7. UNCHANGED executions
  BY DEF RecordReport, envVars
<1>8. Contract!Close(c, m.body.status)
  BY <1>3, <1>4, <1>5, <1>6, <1>7 DEF Contract!Close, Truthful, ContractPhase,
    ContractOutcome
<1> QED BY <1>2, <1>8 DEF Contract!Next

LEMMA ContractNext == IInv /\ [Next]_vars => [Contract!Next]_(Contract!vars)
<1> SUFFICES ASSUME IInv, [Next]_vars PROVE Contract!Next \/ UNCHANGED Contract!vars
  OBVIOUS
<1> USE DEF managerVars, envVars
<1>1. CASE UNCHANGED <<row, evidence, executions>>
  BY <1>1 DEF Contract!vars
<1>2. ASSUME NEW c \in Command, CreateCommand(c) PROVE Contract!Next
  <2>1. Contract!Request(c)
    BY <1>2 DEF CreateCommand, Contract!Request, Phase, Terminal, IInv, TypeOK
  <2> QED BY <2>1 DEF Contract!Next
<1>3. CASE ExpireCommands
  <2> DEFINE over == {c \in lapsedManager : row[c] \in Expirable}
  <2>1. over \subseteq Command /\ UNCHANGED <<evidence, executions>>
    BY <1>3 DEF ExpireCommands, IInv, TypeOK
  <2>2. \A c \in Command : row'[c] = IF c \in over THEN "EXPIRED" ELSE row[c]
    BY <1>3 DEF ExpireCommands
  <2>3. \A c \in over : Phase(row[c]) = "open"
    BY DEF Expirable, Phase, Terminal
  <2>4. Phase("EXPIRED") = "expired"
    BY DEF Phase, Terminal
  <2>5. Contract!Expire(over)
    BY <2>1, <2>2, <2>3, <2>4 DEF Contract!Expire
  <2> QED BY <2>1, <2>5 DEF Contract!Next
<1>4. ASSUME Heartbeat \/ \E c \in Command : RecordStarted(c)
      PROVE  UNCHANGED Contract!vars
  <2>1. \A c \in Command : Phase(row'[c]) = Phase(row[c])
    <3>1. \A c \in Command : \/ row'[c] = row[c]
                             \/ /\ row[c] \in {"QUEUED", "DISPATCHED"}
                                /\ row'[c] \in {"DISPATCHED", "EXECUTING"}
      BY <1>4 DEF Heartbeat, RecordStarted, IInv, TypeOK
    <3>2. \A s \in {"QUEUED", "DISPATCHED", "EXECUTING"} : Phase(s) = "open"
      BY DEF Phase, Terminal
    <3> QED BY <3>1, <3>2
  <2>2. UNCHANGED <<evidence, executions>>
    BY <1>4 DEF Heartbeat, RecordStarted
  <2> QED BY <2>1, <2>2 DEF Contract!vars
<1>5. CASE DeliveryNext /\ ~Heartbeat
  BY <1>1, <1>5 DEF DeliveryNext, EndHeartbeat, TakeCommand, QueueCommand,
    ExecuteInline
<1>6. ASSUME NEW t \in Thread, ExecuteNext(t), ~Run(t) PROVE UNCHANGED Contract!vars
  <2>1. UNCHANGED <<row, evidence, executions>>
    BY <1>6 DEF ExecuteNext, RefuseExpired, ClaimCommand, AlreadyClaimed, Announce,
      Decline,
      Authorize, StoreReport
  <2> QED BY <2>1 DEF Contract!vars
<1>7. ASSUME NEW t \in Thread, UploadNext(t) \/ AcknowledgeDuplicate(t)
      PROVE  UNCHANGED Contract!vars
  <2>1. UNCHANGED <<row, evidence, executions>>
    BY <1>7 DEF UploadNext, SelectReports, PostReport, PostAcknowledged,
      PostRejected,
      PostFailed, AcknowledgeDuplicate
  <2> QED BY <2>1 DEF Contract!vars
<1>8. CASE EnvironmentNext
  BY <1>1, <1>8 DEF EnvironmentNext, CrashAndRecover, ManagerClock, AgentClock
<1> QED
  BY <1>1, <1>2, <1>3, <1>4, <1>5, <1>6, <1>7, <1>8, ContractRun, ContractReport
  DEF vars, Next, ManagerNext

\* Every behaviour of the lifecycle is one CommandContract allows.
THEOREM Refinement == Spec => ImplementsContract
BY Invariant, ContractInit, ContractNext, PTL DEF Spec, ImplementsContract,
  Contract!Spec
==========================================================================
