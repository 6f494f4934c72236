---------------------- MODULE OfflineCollection_proofs ----------------------
(***************************************************************************)
(* Proofs about OfflineCollection, for every number of lines, set of       *)
(* triggers, lifetime and number of interruptions.                         *)
(*                                                                         *)
(* The journal is what a line read twice can rely on.  The invariant ties  *)
(* the command of an event, its queued and imported evidence and the       *)
(* agent's own actions to the journal (CommandFits, EvidenceFits), says    *)
(* what collect knows between two of its writes (StageFits), and what      *)
(* holds besides as long as it was never interrupted (Uninterrupted).      *)
(***************************************************************************)
EXTENDS OfflineCollection, TLAPS

Executing  == {"claimed", "executed", "reported"}
Evaluating == Executing \cup {"evaluated"}

StageFits ==
  /\ stage \in {"claimed", "executed"} => journal[Here] = "EXECUTING"
  /\ stage \in Executing => command[Here] = "DISPATCHED"
  /\ stage = "claimed" => effects[Here] = 0
  /\ stage = "executed" => outcome \in Outcome
  /\ stage = "reported" => journal[Here] \in Outcome
  /\ stage = "evaluated" => command[Here] # "UNDETECTED"
  /\ stage \in Evaluating => cache \in Cache
  /\ stage = "queued" => queue[Here] # None \/ stored[Here] # None

CommandFits(l) ==
  /\ effects[l] <= 1
  /\ effects[l] = 1 => journal[l] # None
  /\ command[l] \in Open => l \in Triggers /\ allowed[l]
  /\ command[l] \in {"UNDETECTED", "NO_COMMAND"} => journal[l] = None
  /\ command[l] \in Outcome => journal[l] # None /\ command[l] = Journalled(l)
  /\ journal[l] # None => l \in Triggers /\ allowed[l]

EvidenceFits(l) ==
  \A record \in RecordsOf(l) : record.evidence # None =>
    /\ record.evidence.command = command[l]
    /\ command[l] \in {"NO_COMMAND"} \cup Outcome

OrderFits(l) == l \in ordered => stored[l] # None /\ stored[l].source = "AGENT_ONLINE"

\* What holds of line l as long as collect was never interrupted.
Uninterrupted(l) ==
  /\ l > Here \/ (l = Here /\ stage = None) =>
       journal[l] = None /\ command[l] \in {"UNDETECTED"} \cup Open
  /\ l > Here \/ (l = Here /\ stage # "queued") => queue[l] = None /\ stored[l] = None
  /\ l = Here /\ stage = "unevaluated" => journal[l] = None
  /\ l = Here /\ stage = "evaluated" /\ command[l] \in Open => journal[l] = None
  /\ l = Here /\ stage = "evaluated" /\ command[l] \notin Open =>
       (l \in Triggers => allowed[l] = cache.allows)
  /\ l = Here /\ stage \in Executing => cache.allows = TRUE
  /\ journal[l] = "EXECUTING" => l = Here /\ stage \in {"claimed", "executed"}
  /\ queue[l] # None /\ stored[l] # None => queue[l].record = stored[l]
  /\ queue[l] # None /\ queue[l].refused =>
       queue[l].record.evidence # None /\ ~Importable(queue[l].record.evidence)
  /\ \A record \in RecordsOf(l) :
       /\ journal[l] # None => record.evidence # None
       /\ record.evidence # None => record.evidence.agrees /\ record.source = "AGENT_OFFLINE"

LinesFit == \A l \in Line : CommandFits(l) /\ EvidenceFits(l) /\ OrderFits(l)

IInv ==
  /\ TypeOK /\ StageFits /\ LinesFit /\ CollectedKept
  /\ interruptions = 0 => \A l \in Line : Uninterrupted(l)

---------------------------------------------------------------------------
USE OfflineAssumption DEF OfflineAssumption

\* Data and None are apart; rows and records have their fields.
LEMMA DataFacts ==
  /\ \A x \in Outcome \cup {"EXECUTING"} \cup Stage : x # None
  /\ \A e \in Evidence : /\ e # None /\ e.command \in Command
                         /\ e.late \in BOOLEAN /\ e.agrees \in BOOLEAN
  /\ \A r \in Record : /\ r # None /\ r.source \in {"AGENT_ONLINE", "AGENT_OFFLINE"}
                       /\ r.evidence \in Evidence \cup {None}
  /\ \A r \in Row : r # None /\ r.record \in Record /\ r.refused \in BOOLEAN
  /\ \A c \in Cache : c # None /\ c.expires \in Nat /\ c.allows \in BOOLEAN
BY DEF Evidence, Record, Row, Cache

\* The line in hand, if collect is at work on one.
LEMMA HereFacts ==
  ASSUME TypeOK
  PROVE  /\ Here \in Nat \ {0}
         /\ stage # None => Here \in Line
         /\ \A l \in Line : l \in Nat \ {0} /\ l <= NumLines
         /\ \A l \in Line : l < Here \/ l = Here \/ l > Here
         /\ \A l \in Line : l \in 1..cursor <=> l < Here
BY DEF TypeOK, Here, Line

LEMMA InitInv == Init => IInv
<1> SUFFICES ASSUME Init PROVE IInv
  OBVIOUS
<1>1. TypeOK
  <2>1. cache \in Cache \cup {None}
    <3>1. [expires |-> CacheLife, allows |-> TRUE] \in Cache
      BY DEF Cache
    <3> QED BY <3>1 DEF Init
  <2>2. cursor \in 0..NumLines /\ (stage # None => Here \in Line)
    BY DEF Init
  <2> QED BY <2>1, <2>2 DEF Init, TypeOK, Command
<1>2. StageFits /\ CollectedKept
  BY DEF Init, StageFits, CollectedKept, Executing, Evaluating, Stage
<1>3. LinesFit
  BY DEF Init, LinesFit, CommandFits, EvidenceFits, OrderFits, RecordsOf, Open, Outcome
<1>4. \A l \in Line : Uninterrupted(l)
  BY DEF Init, Uninterrupted, RecordsOf, Executing, Stage
<1> QED BY <1>1, <1>2, <1>3, <1>4 DEF IInv

---------------------------------------------------------------------------
(* What an action leaves alone *)

SameLine(l) ==
  /\ command'[l] = command[l] /\ allowed'[l] = allowed[l]
  /\ journal'[l] = journal[l] /\ effects'[l] = effects[l]
  /\ queue'[l] = queue[l] /\ stored'[l] = stored[l]
  /\ (l \in ordered') = (l \in ordered)

LEMMA LineFrame ==
  ASSUME LinesFit, NEW l \in Line, SameLine(l)
  PROVE  CommandFits(l)' /\ EvidenceFits(l)' /\ OrderFits(l)'
<1>1. CommandFits(l) /\ EvidenceFits(l) /\ OrderFits(l)
  BY DEF LinesFit
<1>2. CommandFits(l)'
  BY <1>1 DEF SameLine, CommandFits, Journalled
<1>3. EvidenceFits(l)'
  BY <1>1 DEF SameLine, EvidenceFits, RecordsOf
<1>4. OrderFits(l)'
  BY <1>1 DEF SameLine, OrderFits
<1> QED BY <1>2, <1>3, <1>4

LEMMA RowTypes ==
  /\ OnlineRow \in Row
  /\ \A e \in Evidence \cup {None} :
       [record |-> [source |-> "AGENT_OFFLINE", evidence |-> e], refused |-> FALSE] \in Row
  /\ \A r \in Record : [record |-> r, refused |-> TRUE] \in Row
BY DEF OnlineRow, Row, Record

\* The evidence it makes.
LEMMA EvidenceTyped ==
  ASSUME IInv, EnqueueOffline
  PROVE  /\ EvidenceOf(Here) \in Evidence \cup {None}
         /\ stage = "evaluated" => EvidenceOf(Here) # None
<1>1. CASE stage = "unevaluated"
  BY <1>1 DEF EvidenceOf
<1>2. CASE stage = "evaluated"
  <2>1. Here \in Line /\ cache \in Cache
    BY <1>2, HereFacts DEF IInv, StageFits, Evaluating, Stage
  <2>2. /\ command[Here] \in Command
        /\ (clock > cache.expires) \in BOOLEAN
        /\ (Here \in Triggers => allowed[Here] = cache.allows) \in BOOLEAN
    BY <2>1 DEF IInv, TypeOK
  <2>3. EvidenceOf(Here) \in Evidence
    BY <1>2, <2>2 DEF EvidenceOf, Evidence
  <2> QED BY <2>3, DataFacts
<1> QED BY <1>1, <1>2 DEF EnqueueOffline

\* The row that EnqueueOffline writes.
LEMMA EnqueuedRow ==
  ASSUME IInv, EnqueueOffline
  PROVE  /\ Here \in Line
         /\ queue'[Here] # None /\ ~queue'[Here].refused
         /\ queue'[Here].record.source = "AGENT_OFFLINE"
         /\ queue'[Here].record.evidence = EvidenceOf(Here)
<1>1. Here \in Line
  BY DataFacts, HereFacts DEF IInv, EnqueueOffline, Stage
<1>2. queue'[Here] = [record |-> [source |-> "AGENT_OFFLINE", evidence |-> EvidenceOf(Here)],
                      refused |-> FALSE]
  BY <1>1 DEF IInv, TypeOK, EnqueueOffline
<1>3. queue'[Here] # None
  BY <1>2, RowTypes, DataFacts, EvidenceTyped DEF EnqueueOffline
<1> QED BY <1>1, <1>2, <1>3

LEMMA CollectOnlineInv == ASSUME IInv, CollectOnline PROVE IInv'
<1>1. TypeOK'
  <2>1. queue' \in [Line -> Row \cup {None}]
    BY RowTypes DEF IInv, TypeOK, CollectOnline
  <2> QED BY <2>1 DEF IInv, TypeOK, CollectOnline, Here, Stage
<1>2. StageFits'
  <2>1. stage' = "queued" /\ queue'[Here]  # None /\ Here' = Here
    BY RowTypes, DataFacts DEF IInv, TypeOK, CollectOnline, Here
  <2> QED BY <2>1 DEF StageFits, Executing, Evaluating
<1>3. LinesFit'
  <2> SUFFICES ASSUME NEW l \in Line PROVE CommandFits(l)' /\ EvidenceFits(l)' /\ OrderFits(l)'
    BY DEF LinesFit
  <2>1. CommandFits(l) /\ EvidenceFits(l) /\ OrderFits(l)
    BY DEF IInv, LinesFit
  <2> QED BY <2>1
             DEF IInv, TypeOK, CollectOnline, CommandFits, EvidenceFits, OrderFits,
                 RecordsOf, OnlineRow, Journalled
<1>4. CollectedKept'
  BY DEF IInv, TypeOK, CollectOnline, CollectedKept, Line
<1>5. ASSUME interruptions' = 0, NEW l \in Line PROVE Uninterrupted(l)'
  BY <1>5
     DEF IInv, TypeOK, CollectOnline, Uninterrupted, OnlineRow, RecordsOf, Executing,
         Here, Stage
<1> QED BY <1>1, <1>2, <1>3, <1>4, <1>5 DEF IInv

LEMMA SaveOffsetInv == ASSUME IInv, SaveOffset PROVE IInv'
<1>1. TypeOK'
  BY HereFacts DEF IInv, TypeOK, SaveOffset, Stage
<1>2. StageFits'
  BY <1>1 DEF StageFits, SaveOffset, Executing, Evaluating, Stage
<1>3. LinesFit'
  BY LineFrame DEF IInv, LinesFit, SameLine, SaveOffset, agent
<1>4. CollectedKept'
  <2> SUFFICES ASSUME NEW l \in 1..cursor' PROVE queue[l] # None \/ stored[l] # None
    BY DEF SaveOffset, CollectedKept
  <2>1. l \in 1..cursor \/ l = Here
    BY DEF IInv, TypeOK, SaveOffset, Here
  <2> QED BY <2>1 DEF IInv, StageFits, CollectedKept, SaveOffset
<1>5. ASSUME interruptions' = 0, NEW l \in Line PROVE Uninterrupted(l)'
  <2>1. Uninterrupted(l)
    BY <1>5 DEF IInv, SaveOffset
  <2> QED BY <1>5, <2>1, HereFacts
             DEF IInv, SaveOffset, Uninterrupted, RecordsOf, Executing, Here, Stage
<1> QED BY <1>1, <1>2, <1>3, <1>4, <1>5 DEF IInv

LEMMA CollectQueuedInv == ASSUME IInv, CollectQueued PROVE IInv'
<1>1. TypeOK'
  BY DEF IInv, TypeOK, CollectQueued, Here, Stage, agent
<1>2. StageFits'
  BY <1>1 DEF StageFits, CollectQueued, Executing, Evaluating, Here, agent
<1>3. LinesFit'
  BY LineFrame DEF IInv, LinesFit, SameLine, CollectQueued, agent
<1>4. CollectedKept'
  BY DEF IInv, CollectedKept, CollectQueued, agent
<1>5. ASSUME interruptions' = 0, NEW l \in Line PROVE Uninterrupted(l)'
  <2>1. Uninterrupted(l)
    BY <1>5 DEF IInv, CollectQueued
  <2> QED BY <1>5, <2>1 DEF IInv, CollectQueued, Uninterrupted, Stage
<1> QED BY <1>1, <1>2, <1>3, <1>4, <1>5 DEF IInv

LEMMA CollectUnevaluatedInv == ASSUME IInv, CollectUnevaluated PROVE IInv'
<1>1. TypeOK'
  BY DEF IInv, TypeOK, CollectUnevaluated, Here, Stage, agent
<1>2. StageFits'
  BY <1>1 DEF StageFits, CollectUnevaluated, Executing, Evaluating
<1>3. LinesFit'
  BY LineFrame DEF IInv, LinesFit, SameLine, CollectUnevaluated, agent
<1>4. CollectedKept'
  BY DEF IInv, CollectedKept, CollectUnevaluated, agent
<1>5. ASSUME interruptions' = 0, NEW l \in Line PROVE Uninterrupted(l)'
  <2>1. Uninterrupted(l)
    BY <1>5 DEF IInv, CollectUnevaluated
  <2> QED BY <1>5, <2>1
             DEF CollectUnevaluated, Uninterrupted, RecordsOf, Executing, Here, Stage,
                 agent
<1> QED BY <1>1, <1>2, <1>3, <1>4, <1>5 DEF IInv

LEMMA EvaluateInv == ASSUME IInv, NEW built \in BOOLEAN, Evaluate(built) PROVE IInv'
<1>1. TypeOK'
  <2>1. /\ command' \in [Line -> Command] /\ deadline' \in [Line -> Nat]
        /\ allowed' \in [Line -> BOOLEAN]
    BY DataFacts DEF IInv, TypeOK, Evaluate, CacheValid, Command, Open
  <2> QED BY <2>1 DEF IInv, TypeOK, Evaluate, Here, Stage
<1>2. StageFits'
  BY <1>1 DEF TypeOK, StageFits, Evaluate, CacheValid, Executing, Here
<1>3. LinesFit'
  <2> SUFFICES ASSUME NEW l \in Line PROVE CommandFits(l)' /\ EvidenceFits(l)' /\ OrderFits(l)'
    BY DEF LinesFit
  <2>1. CASE l # Here
    BY <2>1, LineFrame DEF IInv, TypeOK, SameLine, Evaluate
  <2>2. CASE l = Here
    <3>1. CommandFits(l) /\ EvidenceFits(l) /\ OrderFits(l)
      BY DEF IInv, LinesFit
    <3>2. CommandFits(l)'
      BY <2>2, <3>1 DEF IInv, TypeOK, Evaluate, CommandFits, Journalled, Open, Outcome
    <3>3. EvidenceFits(l)'
      BY <2>2, <3>1 DEF Evaluate, EvidenceFits, RecordsOf, Outcome
    <3>4. OrderFits(l)'
      BY <3>1 DEF Evaluate, CacheValid, OrderFits, agent
    <3> QED BY <3>2, <3>3, <3>4
  <2> QED BY <2>1, <2>2
<1>4. CollectedKept'
  BY DEF IInv, CollectedKept, Evaluate
<1>5. ASSUME interruptions' = 0, NEW l \in Line PROVE Uninterrupted(l)'
  <2>1. Uninterrupted(l)
    BY <1>5 DEF IInv, Evaluate, CacheValid
  <2> QED BY <1>5, <2>1
             DEF IInv, TypeOK, Evaluate, Uninterrupted, RecordsOf, Executing, Here,
                 Stage
<1> QED BY <1>1, <1>2, <1>3, <1>4, <1>5 DEF IInv

LEMMA RefuseInv == ASSUME IInv, Refuse PROVE IInv'
<1>1. TypeOK'
  <2>1. command' \in [Line -> Command]
    BY DEF IInv, TypeOK, Refuse, Command, Open
  <2> QED BY <2>1 DEF IInv, TypeOK, Refuse
<1>2. StageFits'
  BY <1>1 DEF StageFits, Refuse, Executing, Evaluating, Stage
<1>3. LinesFit'
  <2> SUFFICES ASSUME NEW l \in Line PROVE CommandFits(l)' /\ EvidenceFits(l)' /\ OrderFits(l)'
    BY DEF LinesFit
  <2>1. CASE l # Here
    BY <2>1, LineFrame DEF IInv, SameLine, Refuse
  <2>2. CASE l = Here
    <3>1. CommandFits(l) /\ EvidenceFits(l) /\ OrderFits(l)
      BY DEF IInv, LinesFit
    <3>2. CommandFits(l)'
      BY <2>2, <3>1 DEF IInv, TypeOK, Refuse, CommandFits, Outcome
    <3>3. EvidenceFits(l)'
      BY <2>2, <3>1 DEF Refuse, EvidenceFits, RecordsOf, Open, Outcome
    <3>4. OrderFits(l)'
      BY <3>1 DEF Refuse, OrderFits, agent
    <3> QED BY <3>2, <3>3, <3>4
  <2> QED BY <2>1, <2>2
<1>4. CollectedKept'
  BY DEF IInv, CollectedKept, Refuse
<1>5. ASSUME interruptions' = 0, NEW l \in Line PROVE Uninterrupted(l)'
  <2>1. Uninterrupted(l)
    BY <1>5 DEF IInv, Refuse
  <2> QED BY <1>5, <2>1 DEF Refuse, Uninterrupted, RecordsOf, Executing, Here, Stage, Open
<1> QED BY <1>1, <1>2, <1>3, <1>4, <1>5 DEF IInv

LEMMA ClaimInv == ASSUME IInv, Claim PROVE IInv'
<1>1. TypeOK'
  <2>1. command' \in [Line -> Command] /\ journal' \in [Line -> Outcome \cup {"EXECUTING", None}]
    BY DEF IInv, TypeOK, Claim, Command, Open
  <2> QED BY <2>1 DEF IInv, TypeOK, Claim, Here, Stage
<1>2. StageFits'
  <2>1. Here' = Here /\ stage' = "claimed" /\ cache' = cache /\ effects' = effects
    BY DEF Claim, Here
  <2>2. stage = "evaluated" /\ Here \in Line /\ cache \in Cache
    BY HereFacts DEF IInv, Claim, StageFits, Stage, Evaluating
  <2>3. journal'[Here] = "EXECUTING" /\ command'[Here] = "DISPATCHED"
    BY <2>2 DEF IInv, TypeOK, Claim
  <2>4. effects[Here] = 0
    BY <2>2 DEF IInv, TypeOK, LinesFit, CommandFits, Claim, Unclaimed
  <2> QED BY <2>1, <2>2, <2>3, <2>4 DEF StageFits
<1>3. LinesFit'
  <2> SUFFICES ASSUME NEW l \in Line PROVE CommandFits(l)' /\ EvidenceFits(l)' /\ OrderFits(l)'
    BY DEF LinesFit
  <2>1. CASE l # Here
    BY <2>1, LineFrame DEF IInv, SameLine, Claim
  <2>2. CASE l = Here
    <3>1. CommandFits(l) /\ EvidenceFits(l) /\ OrderFits(l)
      BY DEF IInv, LinesFit
    <3>2. CommandFits(l)'
      BY <2>2, <3>1 DEF IInv, TypeOK, Claim, CommandFits, Outcome
    <3>3. EvidenceFits(l)'
      BY <2>2, <3>1 DEF Claim, EvidenceFits, RecordsOf, Open, Outcome
    <3>4. OrderFits(l)'
      BY <3>1 DEF Claim, Unclaimed, OrderFits, agent
    <3> QED BY <3>2, <3>3, <3>4
  <2> QED BY <2>1, <2>2
<1>4. CollectedKept'
  BY DEF IInv, CollectedKept, Claim
<1>5. ASSUME interruptions' = 0, NEW l \in Line PROVE Uninterrupted(l)'
  <2>1. Uninterrupted(l)
    BY <1>5 DEF IInv, Claim
  <2> QED BY <1>5, <2>1, HereFacts
             DEF IInv, Claim, Authorised, Uninterrupted, RecordsOf, Here, Stage
<1> QED BY <1>1, <1>2, <1>3, <1>4, <1>5 DEF IInv

LEMMA ReuseInv == ASSUME IInv, Reuse PROVE IInv'
<1>1. TypeOK'
  <2>1. command' \in [Line -> Command]
    BY DEF IInv, TypeOK, Reuse, Unclaimed, Journalled, Command, Outcome
  <2> QED BY <2>1 DEF IInv, TypeOK, Reuse, Here
<1>2. StageFits'
  <2>1. Here' = Here /\ stage' = "evaluated" /\ cache' = cache
    BY DEF Reuse, Here
  <2>2. stage = "evaluated" /\ Here \in Line /\ cache \in Cache
    BY HereFacts DEF IInv, Reuse, StageFits, Stage, Evaluating
  <2>3. command'[Here] # "UNDETECTED"
    BY <2>2 DEF IInv, TypeOK, Reuse, Unclaimed, Journalled, Outcome
  <2> QED BY <2>1, <2>2, <2>3 DEF StageFits, Executing, Evaluating
<1>3. LinesFit'
  <2> SUFFICES ASSUME NEW l \in Line PROVE CommandFits(l)' /\ EvidenceFits(l)' /\ OrderFits(l)'
    BY DEF LinesFit
  <2>1. CASE l # Here
    BY <2>1, LineFrame DEF IInv, SameLine, Reuse
  <2>2. CASE l = Here
    <3>1. CommandFits(l) /\ EvidenceFits(l) /\ OrderFits(l)
      BY DEF IInv, LinesFit
    <3>2. CommandFits(l)'
      BY <2>2, <3>1 DEF IInv, TypeOK, Reuse, Journalled, CommandFits, Journalled, Outcome
    <3>3. EvidenceFits(l)'
      BY <2>2, <3>1 DEF Reuse, EvidenceFits, RecordsOf, Open, Outcome
    <3>4. OrderFits(l)'
      BY <3>1 DEF Reuse, Unclaimed, Journalled, OrderFits, agent
    <3> QED BY <3>2, <3>3, <3>4
  <2> QED BY <2>1, <2>2
<1>4. CollectedKept'
  BY DEF IInv, CollectedKept, Reuse
<1>5. ASSUME interruptions' = 0, NEW l \in Line PROVE Uninterrupted(l)'
  <2>1. Uninterrupted(Here) /\ Here \in Line
    BY <1>5, DataFacts, HereFacts DEF IInv, Reuse, Stage
  <2>2. journal[Here] = None
    BY <2>1 DEF Reuse, Uninterrupted
  <2> QED BY <2>2 DEF Reuse, Unclaimed
<1> QED BY <1>1, <1>2, <1>3, <1>4, <1>5 DEF IInv

LEMMA ExecuteInv == ASSUME IInv, NEW result \in Outcome, NEW acts \in BOOLEAN, Execute(result, acts) PROVE IInv'
<1>1. TypeOK'
  <2>1. effects' \in [Line -> Nat]
    <3>1. effects' = [effects EXCEPT ![Here] = IF acts THEN effects[Here] + 1 ELSE effects[Here]]
      BY DEF Execute
    <3>2. effects \in [Line -> Nat] /\ Here \in Line
      BY DataFacts, HereFacts DEF IInv, TypeOK, Execute, Stage
    <3>3. (IF acts THEN effects[Here] + 1 ELSE effects[Here]) \in Nat
      BY <3>2
    <3> QED BY <3>1, <3>2, <3>3
  <2> QED BY <2>1 DEF IInv, TypeOK, Execute, Here, Stage, agent
<1>2. StageFits'
  BY <1>1 DEF IInv, StageFits, Execute, Executing, Evaluating, Here, agent
<1>3. LinesFit'
  <2> SUFFICES ASSUME NEW l \in Line PROVE CommandFits(l)' /\ EvidenceFits(l)' /\ OrderFits(l)'
    BY DEF LinesFit
  <2>1. CASE l # Here
    BY <2>1, LineFrame DEF IInv, SameLine, Execute, agent
  <2>2. CASE l = Here
    <3>1. CommandFits(l) /\ EvidenceFits(l) /\ OrderFits(l)
      BY DEF IInv, LinesFit
    <3>2. CommandFits(l)'
      BY <2>2, <3>1 DEF IInv, StageFits, Execute, CommandFits, Journalled, agent
    <3>3. EvidenceFits(l)'
      BY <2>2, <3>1 DEF Execute, EvidenceFits, RecordsOf, agent
    <3>4. OrderFits(l)'
      BY <3>1 DEF Execute, OrderFits, agent
    <3> QED BY <3>2, <3>3, <3>4
  <2> QED BY <2>1, <2>2
<1>4. CollectedKept'
  BY DEF IInv, CollectedKept, Execute, agent
<1>5. ASSUME interruptions' = 0, NEW l \in Line PROVE Uninterrupted(l)'
  <2>1. Uninterrupted(l)
    BY <1>5 DEF IInv, Execute
  <2> QED BY <1>5, <2>1 DEF Execute, Uninterrupted, RecordsOf, Executing, Here, Stage, agent
<1> QED BY <1>1, <1>2, <1>3, <1>4, <1>5 DEF IInv

LEMMA ReportInv == ASSUME IInv, Report PROVE IInv'
<1>1. TypeOK'
  <2>1. outcome \in Outcome
    BY DEF IInv, StageFits, Report
  <2>2. journal' \in [Line -> Outcome \cup {"EXECUTING", None}]
    BY <2>1 DEF IInv, TypeOK, Report
  <2> QED BY <2>2 DEF IInv, TypeOK, Report, Here, Stage
<1>2. StageFits'
  BY <1>1 DEF IInv, TypeOK, StageFits, Report, Executing, Evaluating, Here
<1>3. LinesFit'
  <2> SUFFICES ASSUME NEW l \in Line PROVE CommandFits(l)' /\ EvidenceFits(l)' /\ OrderFits(l)'
    BY DEF LinesFit
  <2>1. CASE l # Here
    BY <2>1, LineFrame DEF IInv, SameLine, Report
  <2>2. CASE l = Here
    <3>1. CommandFits(l) /\ EvidenceFits(l) /\ OrderFits(l)
      BY DEF IInv, LinesFit
    <3>2. CommandFits(l)'
      BY <2>2, <3>1 DEF IInv, StageFits, Report, CommandFits, Journalled, Executing
    <3>3. EvidenceFits(l)'
      BY <2>2, <3>1 DEF Report, EvidenceFits, RecordsOf
    <3>4. OrderFits(l)'
      BY <3>1 DEF Report, OrderFits, agent
    <3> QED BY <3>2, <3>3, <3>4
  <2> QED BY <2>1, <2>2
<1>4. CollectedKept'
  BY DEF IInv, CollectedKept, Report
<1>5. ASSUME interruptions' = 0, NEW l \in Line PROVE Uninterrupted(l)'
  <2>1. Uninterrupted(l)
    BY <1>5 DEF IInv, Report
  <2> QED BY <1>5, <2>1
             DEF IInv, TypeOK, Report, Uninterrupted, RecordsOf, Executing, Here, Stage,
                 Outcome
<1> QED BY <1>1, <1>2, <1>3, <1>4, <1>5 DEF IInv

LEMMA ResultInv == ASSUME IInv, Result PROVE IInv'
<1>1. TypeOK'
  <2>1. command' \in [Line -> Command]
    BY DEF IInv, TypeOK, StageFits, Result, Command
  <2> QED BY <2>1 DEF IInv, TypeOK, Result, Here, Stage
<1>2. StageFits'
  <2>1. Here' = Here /\ stage' = "evaluated" /\ cache' = cache
    BY DEF Result, Here
  <2>2. Here \in Line /\ cache \in Cache /\ journal[Here] \in Outcome
    BY HereFacts DEF IInv, Result, StageFits, Stage, Executing, Evaluating
  <2>3. command'[Here] # "UNDETECTED"
    BY <2>2 DEF IInv, TypeOK, Result, Outcome
  <2> QED BY <2>1, <2>2, <2>3 DEF StageFits, Executing
<1>3. LinesFit'
  <2> SUFFICES ASSUME NEW l \in Line PROVE CommandFits(l)' /\ EvidenceFits(l)' /\ OrderFits(l)'
    BY DEF LinesFit
  <2>1. CASE l # Here
    BY <2>1, LineFrame DEF IInv, SameLine, Result
  <2>2. CASE l = Here
    <3>1. CommandFits(l) /\ EvidenceFits(l) /\ OrderFits(l)
      BY DEF IInv, LinesFit
    <3>2. CommandFits(l)'
      BY <2>2, <3>1 DEF IInv, StageFits, Result, CommandFits, Journalled, Outcome
    <3>3. EvidenceFits(l)'
      BY <2>2, <3>1 DEF IInv, StageFits, Result, EvidenceFits, RecordsOf, Outcome, Executing
    <3>4. OrderFits(l)'
      BY <3>1 DEF Result, OrderFits, agent
    <3> QED BY <3>2, <3>3, <3>4
  <2> QED BY <2>1, <2>2
<1>4. CollectedKept'
  BY DEF IInv, CollectedKept, Result
<1>5. ASSUME interruptions' = 0, NEW l \in Line PROVE Uninterrupted(l)'
  <2>1. Uninterrupted(l) /\ CommandFits(l)
    BY <1>5 DEF IInv, LinesFit, Result
  <2>2. CASE l # Here
    BY <1>5, <2>1, <2>2 DEF Result, Uninterrupted, RecordsOf, Here
  <2>3. CASE l = Here
    <3>1. journal[l] \in Outcome /\ cache.allows = TRUE /\ allowed[l]
      BY <2>1, <2>3 DEF IInv, StageFits, CommandFits, Uninterrupted, Result, Executing
    <3>2. /\ stage' = "evaluated" /\ Here' = Here /\ cache' = cache /\ allowed' = allowed
          /\ journal' = journal /\ queue' = queue /\ stored' = stored
          /\ command'[l] = journal[l]
      BY <2>3 DEF IInv, TypeOK, Result, Here
    <3>3. allowed[l] = cache.allows
      BY <3>1 DEF IInv, TypeOK
    <3> QED BY <2>1, <2>3, <3>1, <3>2, <3>3
               DEF Result, Uninterrupted, RecordsOf, Open, Outcome, Stage
  <2> QED BY <2>2, <2>3
<1> QED BY <1>1, <1>2, <1>3, <1>4, <1>5 DEF IInv

LEMMA EnqueueOfflineInv == ASSUME IInv, EnqueueOffline PROVE IInv'
<1>1. TypeOK'
  <2>1. EvidenceOf(Here) \in Evidence \cup {None}
    BY EvidenceTyped
  <2>2. queue' \in [Line -> Row \cup {None}]
    BY <2>1, RowTypes DEF IInv, TypeOK, EnqueueOffline
  <2> QED BY <2>2 DEF IInv, TypeOK, EnqueueOffline, Here, Stage
<1>2. StageFits'
  <2>1. Here \in Line
    BY HereFacts DEF IInv, EnqueueOffline, Stage
  <2>2. stage' = "queued" /\ Here' = Here
    BY DEF EnqueueOffline, Here
  <2>3. queue'[Here] # None
    BY <1>1, <2>1, EnqueuedRow
  <2> QED BY <2>2, <2>3 DEF StageFits, Executing, Evaluating
<1>3. LinesFit'
  <2> SUFFICES ASSUME NEW l \in Line PROVE CommandFits(l)' /\ EvidenceFits(l)' /\ OrderFits(l)'
    BY DEF LinesFit
  <2>1. CASE l # Here
    BY <2>1, LineFrame DEF IInv, SameLine, EnqueueOffline
  <2>2. CASE l = Here
    <3>1. CommandFits(l) /\ EvidenceFits(l) /\ OrderFits(l)
      BY DEF IInv, LinesFit
    <3>2. CommandFits(l)' /\ OrderFits(l)'
      BY <3>1 DEF EnqueueOffline, CommandFits, OrderFits, Journalled
    <3>3. EvidenceFits(l)'
      <4> SUFFICES ASSUME NEW record \in RecordsOf(l)', record.evidence # None
                   PROVE  record.evidence.command = command[l] /\ command[l] \in {"NO_COMMAND"} \cup Outcome
        BY DEF EvidenceFits, EnqueueOffline
      <4>1. CASE record \in RecordsOf(l)
        BY <3>1, <4>1 DEF EvidenceFits
      <4>2. CASE record = queue'[l].record
        <5>1. record.evidence = EvidenceOf(Here)
          BY <2>2, <4>2, EnqueuedRow
        <5>2. stage = "evaluated" /\ record.evidence.command = command[l]
          BY <2>2, <5>1 DEF EnqueueOffline, EvidenceOf
        <5>3. command[l] \notin Open /\ command[l] # "UNDETECTED" /\ command[l] \in Command
          BY <2>2, <5>2 DEF IInv, TypeOK, StageFits, EnqueueOffline
        <5> QED BY <5>2, <5>3 DEF Command
      <4> QED BY <4>1, <4>2 DEF RecordsOf, EnqueueOffline
    <3> QED BY <3>2, <3>3
  <2> QED BY <2>1, <2>2
<1>4. CollectedKept'
  <2> SUFFICES ASSUME NEW l \in 1..cursor PROVE queue'[l] # None \/ stored'[l] # None
    BY DEF CollectedKept, EnqueueOffline
  <2>1. l \in Line /\ l # Here
    BY DEF IInv, TypeOK, Here, Line
  <2> QED BY <2>1 DEF IInv, CollectedKept, EnqueueOffline
<1>5. ASSUME interruptions' = 0, NEW l \in Line PROVE Uninterrupted(l)'
  <2>1. Uninterrupted(l)
    BY <1>5 DEF IInv, EnqueueOffline
  <2>2. CASE l # Here
    BY <1>5, <2>1, <2>2 DEF EnqueueOffline, Uninterrupted, RecordsOf, Here
  <2>3. CASE l = Here
    <3>1. /\ stage' = "queued" /\ Here' = Here /\ cache' = cache /\ allowed' = allowed
          /\ journal' = journal /\ command' = command /\ stored' = stored
      BY DEF EnqueueOffline, Here
    <3>2. queue'[l] # None /\ ~queue'[l].refused /\ stored[l] = None
      BY <2>1, <2>3, EnqueuedRow DEF Uninterrupted, EnqueueOffline
    <3>3. /\ queue'[l].record.source = "AGENT_OFFLINE"
          /\ queue'[l].record.evidence = EvidenceOf(l)
      BY <2>3, EnqueuedRow
    <3>4. EvidenceOf(l) # None => EvidenceOf(l).agrees
      BY <2>1, <2>3 DEF EvidenceOf, EnqueueOffline, Uninterrupted
    <3>5. journal[l] # None => EvidenceOf(l) # None
      <4>1. journal[l] # None => stage = "evaluated"
        BY <2>1, <2>3 DEF EnqueueOffline, Uninterrupted
      <4> QED BY <2>3, <4>1, EvidenceTyped
    <3>6. journal[l] # "EXECUTING"
      BY <2>1, <2>3 DEF EnqueueOffline, Uninterrupted
    <3> QED BY <2>3, <3>1, <3>2, <3>3, <3>4, <3>5, <3>6, HereFacts
               DEF IInv, Uninterrupted, RecordsOf, Executing, Stage
  <2> QED BY <2>2, <2>3
<1> QED BY <1>1, <1>2, <1>3, <1>4, <1>5 DEF IInv

LEMMA UploadInv == ASSUME IInv, NEW m \in Line, Upload(m) PROVE IInv'
<1>effect. /\ queue[m] # None /\ queue[m] \in Row /\ queue[m].record \in Record /\ stored[m] = None
      /\ \/ stored' = [stored EXCEPT ![m] = queue[m].record] /\ queue' = queue
         \/ /\ queue' = [queue EXCEPT ![m] = [record |-> queue[m].record, refused |-> TRUE]]
            /\ stored' = stored
      /\ UNCHANGED <<cursor, cache, command, deadline, allowed, journal, stage,
                     outcome, online, clock, ordered, effects, interruptions, refreshes>>
  BY DataFacts DEF IInv, TypeOK, Upload
<1>kept. ASSUME NEW l \in Line, queue[l] # None \/ stored[l] # None
      PROVE  queue'[l] # None \/ stored'[l] # None
  <2>1. [record |-> queue[m].record, refused |-> TRUE] # None
    BY <1>effect, RowTypes, DataFacts
  <2> QED BY <1>effect, <1>kept, <2>1 DEF IInv, TypeOK
<1>1. TypeOK'
  <2>1. /\ queue' \in [Line -> Row \cup {None}] /\ stored' \in [Line -> Record \cup {None}]
    BY <1>effect, RowTypes DEF IInv, TypeOK
  <2> QED BY <1>effect, <2>1 DEF IInv, TypeOK, Here
<1>2. StageFits'
  <2>1. stage = "queued" => Here \in Line
    BY DataFacts, HereFacts DEF IInv, Stage
  <2> QED BY <1>effect, <1>kept, <2>1 DEF IInv, StageFits, Here
<1>3. LinesFit'
  <2> SUFFICES ASSUME NEW l \in Line PROVE CommandFits(l)' /\ EvidenceFits(l)' /\ OrderFits(l)'
    BY DEF LinesFit
  <2>1. CASE l # m
    BY <2>1, LineFrame DEF IInv, TypeOK, SameLine, Upload
  <2>2. CASE l = m
    <3>1. CommandFits(l) /\ EvidenceFits(l) /\ OrderFits(l)
      BY DEF IInv, LinesFit
    <3>2. CommandFits(l)'
      BY <3>1 DEF Upload, CommandFits, Journalled
    <3>3. EvidenceFits(l)'
      BY <2>2, <3>1 DEF IInv, TypeOK, Upload, EvidenceFits, RecordsOf
    <3>4. OrderFits(l)'
      BY <2>2, <3>1 DEF Upload, OrderFits
    <3> QED BY <3>2, <3>3, <3>4
  <2> QED BY <2>1, <2>2
<1>4. CollectedKept'
  BY <1>effect, <1>kept DEF IInv, TypeOK, CollectedKept, Line
<1>5. ASSUME interruptions' = 0, NEW l \in Line PROVE Uninterrupted(l)'
  <2>1. Uninterrupted(l)
    BY <1>5 DEF IInv, Upload
  <2> QED BY <1>5, <2>1 DEF IInv, TypeOK, Upload, Uninterrupted, RecordsOf, Here
<1> QED BY <1>1, <1>2, <1>3, <1>4, <1>5 DEF IInv

LEMMA AcknowledgeInv == ASSUME IInv, NEW m \in Line, Acknowledge(m) PROVE IInv'
<1>1. TypeOK'
  BY DEF IInv, TypeOK, Acknowledge, Here
<1>2. StageFits'
  BY <1>1 DEF IInv, StageFits, Acknowledge, Here
<1>3. LinesFit'
  <2> SUFFICES ASSUME NEW l \in Line PROVE CommandFits(l)' /\ EvidenceFits(l)' /\ OrderFits(l)'
    BY DEF LinesFit
  <2>1. CASE l # m
    BY <2>1, LineFrame DEF IInv, SameLine, Acknowledge
  <2>2. CASE l = m
    <3>1. CommandFits(l) /\ EvidenceFits(l) /\ OrderFits(l)
      BY DEF IInv, LinesFit
    <3>2. CommandFits(l)'
      BY <3>1 DEF Acknowledge, CommandFits, Journalled
    <3>3. EvidenceFits(l)'
      BY <2>2, <3>1 DEF Acknowledge, EvidenceFits, RecordsOf
    <3>4. OrderFits(l)'
      BY <2>2, <3>1 DEF Acknowledge, OrderFits
    <3> QED BY <3>2, <3>3, <3>4
  <2> QED BY <2>1, <2>2
<1>4. CollectedKept'
  BY DEF IInv, CollectedKept, Acknowledge
<1>5. ASSUME interruptions' = 0, NEW l \in Line PROVE Uninterrupted(l)'
  <2>1. Uninterrupted(l)
    BY <1>5 DEF IInv, Acknowledge
  <2> QED BY <1>5, <2>1 DEF Acknowledge, Uninterrupted, RecordsOf, Here
<1> QED BY <1>1, <1>2, <1>3, <1>4, <1>5 DEF IInv

LEMMA ManagerRespondsInv == ASSUME IInv, NEW m \in Line, ManagerResponds(m) PROVE IInv'
<1>1. TypeOK'
  BY DEF IInv, TypeOK, ManagerResponds, Here, agent
<1>2. StageFits'
  BY <1>1 DEF IInv, StageFits, ManagerResponds, Here, agent
<1>3. LinesFit'
  <2> SUFFICES ASSUME NEW l \in Line PROVE CommandFits(l)' /\ EvidenceFits(l)' /\ OrderFits(l)'
    BY DEF LinesFit
  <2>1. CASE l # m
    BY <2>1, LineFrame DEF IInv, SameLine, ManagerResponds, agent
  <2>2. CASE l = m
    <3>1. CommandFits(l) /\ EvidenceFits(l) /\ OrderFits(l)
      BY DEF IInv, LinesFit
    <3>2. CommandFits(l)'
      BY <3>1 DEF ManagerResponds, CommandFits, Journalled, agent
    <3>3. EvidenceFits(l)'
      BY <2>2, <3>1 DEF ManagerResponds, EvidenceFits, RecordsOf, agent
    <3>4. OrderFits(l)'
      BY <2>2, <3>1 DEF ManagerResponds, Live, OrderFits
    <3> QED BY <3>2, <3>3, <3>4
  <2> QED BY <2>1, <2>2
<1>4. CollectedKept'
  BY DEF IInv, CollectedKept, ManagerResponds, agent
<1>5. ASSUME interruptions' = 0, NEW l \in Line PROVE Uninterrupted(l)'
  <2>1. Uninterrupted(l)
    BY <1>5 DEF IInv, ManagerResponds, Live
  <2> QED BY <1>5, <2>1 DEF ManagerResponds, Uninterrupted, RecordsOf, Here, agent
<1> QED BY <1>1, <1>2, <1>3, <1>4, <1>5 DEF IInv

LEMMA ConfigureInv == ASSUME IInv, NEW allows \in BOOLEAN, Configure(allows) PROVE IInv'
<1>1. TypeOK'
  <2>1. cache' \in Cache
    BY DEF IInv, TypeOK, Configure, Cache
  <2> QED BY <2>1 DEF IInv, TypeOK, Configure, Here
<1>2. StageFits'
  BY <1>1 DEF IInv, StageFits, Configure, Executing, Evaluating, Here, Stage
<1>3. LinesFit'
  BY LineFrame DEF IInv, LinesFit, SameLine, Configure
<1>4. CollectedKept'
  BY DEF IInv, CollectedKept, Configure
<1>5. ASSUME interruptions' = 0, NEW l \in Line PROVE Uninterrupted(l)'
  <2>1. Uninterrupted(l)
    BY <1>5 DEF IInv, Configure
  <2> QED BY <1>5, <2>1 DEF Configure, Uninterrupted, RecordsOf, Executing, Here, Stage
<1> QED BY <1>1, <1>2, <1>3, <1>4, <1>5 DEF IInv

LEMMA SwitchInv == ASSUME IInv, Switch PROVE IInv'
<1>1. TypeOK'
  BY DEF IInv, TypeOK, Switch, Here, agent
<1>2. StageFits'
  BY <1>1 DEF IInv, StageFits, Switch, Here, agent
<1>3. LinesFit'
  BY LineFrame DEF IInv, LinesFit, SameLine, Switch, agent
<1>4. CollectedKept'
  BY DEF IInv, CollectedKept, Switch, agent
<1>5. ASSUME interruptions' = 0, NEW l \in Line PROVE Uninterrupted(l)'
  <2>1. Uninterrupted(l)
    BY <1>5 DEF IInv, Switch
  <2> QED BY <1>5, <2>1 DEF Switch, Uninterrupted, RecordsOf, Here, agent
<1> QED BY <1>1, <1>2, <1>3, <1>4, <1>5 DEF IInv

LEMMA TickInv == ASSUME IInv, Tick PROVE IInv'
<1>1. TypeOK'
  BY DEF IInv, TypeOK, Tick, Here, agent
<1>2. StageFits'
  BY <1>1 DEF IInv, StageFits, Tick, Here, agent
<1>3. LinesFit'
  BY LineFrame DEF IInv, LinesFit, SameLine, Tick, agent
<1>4. CollectedKept'
  BY DEF IInv, CollectedKept, Tick, agent
<1>5. ASSUME interruptions' = 0, NEW l \in Line PROVE Uninterrupted(l)'
  <2>1. Uninterrupted(l)
    BY <1>5 DEF IInv, Tick
  <2> QED BY <1>5, <2>1 DEF Tick, Uninterrupted, RecordsOf, Here, agent
<1> QED BY <1>1, <1>2, <1>3, <1>4, <1>5 DEF IInv

LEMMA WriteFailsInv == ASSUME IInv, WriteFails PROVE IInv'
<1>1. TypeOK'
  BY DEF IInv, TypeOK, WriteFails, agent
<1>2. StageFits'
  BY <1>1 DEF StageFits, WriteFails, Executing, Evaluating, Stage
<1>3. LinesFit'
  BY LineFrame DEF IInv, LinesFit, SameLine, WriteFails, agent
<1>4. CollectedKept'
  BY DEF IInv, CollectedKept, WriteFails, agent
<1>5. ASSUME interruptions' = 0, NEW l \in Line PROVE Uninterrupted(l)'
  <2> QED BY <1>5 DEF IInv, TypeOK, WriteFails
<1> QED BY <1>1, <1>2, <1>3, <1>4, <1>5 DEF IInv

LEMMA CrashInv == ASSUME IInv, Crash PROVE IInv'
<1>1. TypeOK'
  <2>1. journal' \in [Line -> Outcome \cup {"EXECUTING", None}]
    BY DEF IInv, TypeOK, Crash, Outcome
  <2> QED BY <2>1 DEF IInv, TypeOK, Crash
<1>2. StageFits'
  BY <1>1 DEF StageFits, Crash, Executing, Evaluating, Stage
<1>3. LinesFit'
  <2> SUFFICES ASSUME NEW l \in Line PROVE CommandFits(l)' /\ EvidenceFits(l)' /\ OrderFits(l)'
    BY DEF LinesFit
  <2>1. CommandFits(l) /\ EvidenceFits(l) /\ OrderFits(l)
    BY DEF IInv, LinesFit
  <2>2. CommandFits(l)'
    <3>1. /\ (journal[l] = None) = (journal'[l] = None) /\ Journalled(l)' = Journalled(l)
      BY DataFacts DEF Crash, Journalled, Outcome
    <3> QED BY <2>1, <3>1 DEF Crash, CommandFits
  <2>3. EvidenceFits(l)'
    BY <2>1 DEF Crash, EvidenceFits, RecordsOf
  <2>4. OrderFits(l)'
    BY <2>1 DEF Crash, OrderFits
  <2> QED BY <2>2, <2>3, <2>4
<1>4. CollectedKept'
  BY DEF IInv, CollectedKept, Crash
<1>5. ASSUME interruptions' = 0, NEW l \in Line PROVE Uninterrupted(l)'
  <2> QED BY <1>5 DEF IInv, TypeOK, Crash
<1> QED BY <1>1, <1>2, <1>3, <1>4, <1>5 DEF IInv

LEMMA StutterInv == ASSUME IInv, UNCHANGED vars PROVE IInv'
<1>1. TypeOK'
  BY DEF IInv, TypeOK, vars, agent, Here
<1>2. StageFits' /\ CollectedKept'
  BY DEF IInv, StageFits, CollectedKept, vars, agent, Here
<1>3. LinesFit'
  BY LineFrame DEF IInv, LinesFit, SameLine, vars, agent
<1>4. ASSUME interruptions' = 0, NEW l \in Line PROVE Uninterrupted(l)'
  <2>1. Uninterrupted(l)
    BY <1>4 DEF IInv, vars
  <2> QED BY <2>1 DEF Uninterrupted, RecordsOf, Here, vars, agent
<1> QED BY <1>1, <1>2, <1>3, <1>4 DEF IInv

LEMMA NextInv == IInv /\ [Next]_vars => IInv'
<1> SUFFICES ASSUME IInv, [Next]_vars PROVE IInv'
  OBVIOUS
<1>1. CASE CollectOnline
  BY <1>1, CollectOnlineInv
<1>2. CASE CollectOffline
  BY <1>2, CollectQueuedInv, CollectUnevaluatedInv, EvaluateInv, RefuseInv, ClaimInv,
     ReuseInv, ExecuteInv, ReportInv, ResultInv, EnqueueOfflineInv DEF CollectOffline
<1>3. CASE SaveOffset
  BY <1>3, SaveOffsetInv
<1>4. CASE \E l \in Line : Upload(l) \/ Acknowledge(l) \/ ManagerResponds(l)
  BY <1>4, UploadInv, AcknowledgeInv, ManagerRespondsInv
<1>5. CASE \E allows \in BOOLEAN : Configure(allows)
  BY <1>5, ConfigureInv
<1>6. CASE Switch \/ Tick \/ Crash \/ WriteFails
  BY <1>6, SwitchInv, TickInv, CrashInv, WriteFailsInv
<1>7. CASE UNCHANGED vars
  BY <1>7, StutterInv
<1> QED BY <1>1, <1>2, <1>3, <1>4, <1>5, <1>6, <1>7 DEF Next, Collect

---------------------------------------------------------------------------
\* The inductive invariant holds in every reachable state.
THEOREM Invariant == Spec => []IInv
BY InitInv, NextInv, PTL DEF Spec

\* Type correctness of the agent's tables, the collector and the manager's rows.
THEOREM TypeCorrect == Spec => []TypeOK
<1>1. IInv => TypeOK
  BY DEF IInv
<1> QED BY <1>1, Invariant, PTL

\* A line that JsonlCollector has passed is queued or stored, whatever crashed
\* or failed between collect and the saved offset.
THEOREM CollectedLinesKept == Spec => []CollectedKept
<1>1. IInv => CollectedKept
  BY DEF IInv
<1> QED BY <1>1, Invariant, PTL

\* The agent executes the offline command of an event at most once, only under
\* an authorised policy, and, if collect was never interrupted, not for an
\* event that the manager answers as well.
THEOREM AgentActsOnce == Spec => []ActsOnce
<1>1. ASSUME IInv, NEW l \in Line
      PROVE  /\ effects[l] <= 1
             /\ effects[l] = 1 => l \in Triggers /\ allowed[l]
             /\ interruptions = 0 /\ effects[l] = 1 => l \notin ordered
  <2>1. CommandFits(l) /\ EvidenceFits(l) /\ OrderFits(l)
    BY <1>1 DEF IInv, LinesFit
  <2>2. ASSUME interruptions = 0, effects[l] = 1, l \in ordered PROVE FALSE
    <3>1. Uninterrupted(l)
      BY <1>1, <2>2 DEF IInv
    <3>2. journal[l] # None /\ stored[l] # None /\ stored[l].source = "AGENT_ONLINE"
      BY <2>1, <2>2 DEF CommandFits, OrderFits
    <3>3. stored[l] \in RecordsOf(l)
      BY <3>2 DEF RecordsOf
    <3> QED BY <3>1, <3>2, <3>3 DEF Uninterrupted
  <2> QED BY <2>1, <2>2 DEF CommandFits
<1>2. IInv => ActsOnce
  BY <1>1 DEF ActsOnce
<1> QED BY <1>2, Invariant, PTL

\* The offline evidence of an event agrees with command_journal, also when its
\* line is read again after a crash.
THEOREM EvidenceAgrees == Spec => []EvidenceTrue
<1>1. ASSUME IInv, NEW l \in Line, NEW record \in RecordsOf(l), record.evidence # None
      PROVE  IF journal[l] = None THEN record.evidence.command = "NO_COMMAND"
             ELSE record.evidence.command = Journalled(l)
  <2>1. CommandFits(l) /\ EvidenceFits(l)
    BY <1>1 DEF IInv, LinesFit
  <2>2. record.evidence.command = command[l] /\ command[l] \in {"NO_COMMAND"} \cup Outcome
    BY <1>1, <2>1 DEF EvidenceFits
  <2> QED BY <2>1, <2>2 DEF CommandFits
<1>2. IInv => EvidenceTrue
  BY <1>1 DEF EvidenceTrue
<1> QED BY <1>2, Invariant, PTL

\* As long as collect is not interrupted, a command that the agent executed is
\* in the evidence of its event, and import_offline refuses the evidence only
\* for an indefinite outcome or an expired configuration.
THEOREM ActionsReported == Spec => []ActionReported
<1>1. ASSUME IInv, interruptions = 0, NEW l \in 1..cursor
      PROVE  /\ journal[l] # None => \E record \in RecordsOf(l) : record.evidence # None
             /\ queue[l] # None /\ queue[l].refused =>
                  journal[l] \in {"UNKNOWN", "REJECTED"} \/ queue[l].record.evidence.late
  <2>1. l \in Line /\ l < Here
    BY <1>1 DEF IInv, TypeOK, Line, Here
  <2>2. Uninterrupted(l) /\ CommandFits(l) /\ EvidenceFits(l)
    BY <1>1, <2>1 DEF IInv, LinesFit
  <2>3. queue[l] # None \/ stored[l] # None
    BY <1>1 DEF IInv, CollectedKept
  <2>4. journal[l] # None => \E record \in RecordsOf(l) : record.evidence # None
    BY <2>2, <2>3 DEF RecordsOf, Uninterrupted
  <2>5. ASSUME queue[l] # None, queue[l].refused
        PROVE  journal[l] \in {"UNKNOWN", "REJECTED"} \/ queue[l].record.evidence.late
    <3> DEFINE evidence == queue[l].record.evidence
    <3>1. queue[l].record \in RecordsOf(l)
      BY <2>5 DEF RecordsOf
    <3>2. evidence # None /\ ~Importable(evidence) /\ evidence.agrees
      BY <2>2, <2>5, <3>1 DEF Uninterrupted
    <3>3. evidence.command = command[l] /\ command[l] \in {"NO_COMMAND"} \cup Outcome
      BY <2>2, <3>1, <3>2 DEF EvidenceFits
    <3>4. evidence.late \/ command[l] \in {"UNKNOWN", "REJECTED"}
      BY <3>2, <3>3 DEF Importable, Outcome
    <3>5. journal[l] # "EXECUTING"
      BY <2>1, <2>2, <1>1 DEF Uninterrupted
    <3>6. command[l] \in Outcome => command[l] = journal[l]
      BY <2>2, <3>5 DEF CommandFits, Journalled
    <3> QED BY <3>4, <3>6 DEF Outcome
  <2> QED BY <2>4, <2>5
<1>2. IInv => ActionReported
  BY <1>1 DEF ActionReported
<1> QED BY <1>2, Invariant, PTL

---------------------------------------------------------------------------
(* The agent's own commands and its queue keep the two contracts *)

\* A report claims an effect only after one, and none only without one.
Truthful(l) ==
  /\ journal[l] = "SUCCESS"  => effects[l] = 1
  /\ journal[l] = "REJECTED" => effects[l] = 0

\* What the handler has returned is true of the line in hand.
OutcomeTruthful ==
  stage = "executed" => /\ outcome = "SUCCESS"  => effects[Here] = 1
                        /\ outcome = "REJECTED" => effects[Here] = 0

TruthInv == OutcomeTruthful /\ \A l \in Line : Truthful(l)

ContractInv == IInv /\ TruthInv

LEMMA TruthFrame ==
  ASSUME TruthInv, UNCHANGED <<effects, journal>>,
         stage' = "executed" => UNCHANGED <<stage, outcome, cursor>>
  PROVE  TruthInv'
BY DEF TruthInv, OutcomeTruthful, Truthful, Here

LEMMA TruthNext ==
  ASSUME IInv, TruthInv, [Next]_vars
  PROVE  TruthInv'
<1>1. CASE Claim
  <2>1. journal' = [journal EXCEPT ![Here] = "EXECUTING"] /\ UNCHANGED effects
        /\ stage' = "claimed"
    BY <1>1 DEF Claim
  <2>2. \A l \in Line : journal'[l] = journal[l] \/ journal'[l] = "EXECUTING"
    BY <2>1 DEF IInv, TypeOK
  <2> QED BY <2>1, <2>2 DEF TruthInv, OutcomeTruthful, Truthful
<1>2. ASSUME NEW result \in Outcome, NEW acts \in BOOLEAN, Execute(result, acts)
      PROVE  TruthInv'
  <2>1. /\ Here \in Line /\ effects[Here] = 0 /\ journal[Here] = "EXECUTING"
    BY <1>2 DEF Execute, IInv, TypeOK, StageFits, Stage
  <2>2. /\ effects' = [effects EXCEPT ![Here] = IF acts THEN 1 ELSE 0]
        /\ outcome' = result /\ UNCHANGED <<journal, cursor>>
    BY <1>2, <2>1 DEF Execute, agent, IInv, TypeOK
  <2>3. /\ result = "SUCCESS"  => effects'[Here] = 1
        /\ result = "REJECTED" => effects'[Here] = 0
        /\ \A l \in Line : l # Here => effects'[l] = effects[l]
    BY <1>2, <2>1, <2>2 DEF Execute, IInv, TypeOK
  <2>4. OutcomeTruthful'
    BY <2>2, <2>3 DEF OutcomeTruthful, Here
  <2>5. \A l \in Line : Truthful(l)'
    BY <2>1, <2>2, <2>3 DEF TruthInv, Truthful
  <2> QED BY <2>4, <2>5 DEF TruthInv
<1>3. CASE Report
  <2>1. /\ Here \in Line /\ stage' # "executed" /\ UNCHANGED effects
        /\ journal' = [journal EXCEPT ![Here] = outcome]
    BY <1>3 DEF Report, IInv, TypeOK, Stage
  <2>2. OutcomeTruthful /\ stage = "executed"
    BY <1>3 DEF Report, TruthInv
  <2>3. \A l \in Line : Truthful(l)'
    BY <2>1, <2>2 DEF TruthInv, Truthful, OutcomeTruthful, IInv, TypeOK
  <2> QED BY <2>1, <2>3 DEF TruthInv, OutcomeTruthful
<1>4. CASE Crash
  <2>1. stage' # "executed" /\ UNCHANGED effects
    BY <1>4, DataFacts DEF Crash, Stage
  <2>2. \A l \in Line : journal'[l] = journal[l] \/ journal'[l] = "UNKNOWN"
    BY <1>4 DEF Crash
  <2> QED BY <2>1, <2>2 DEF TruthInv, OutcomeTruthful, Truthful
<1>5. CASE CollectOnline \/ SaveOffset
  BY <1>5, TruthFrame, DataFacts DEF CollectOnline, SaveOffset, Stage
<1>6. CASE CollectQueued \/ CollectUnevaluated \/ \E built \in BOOLEAN : Evaluate(built)
  BY <1>6, TruthFrame DEF CollectQueued, CollectUnevaluated, Evaluate, agent
<1>7. CASE Refuse \/ Reuse \/ Result \/ EnqueueOffline
  BY <1>7, TruthFrame, DataFacts DEF Refuse, Reuse, Result, EnqueueOffline, Stage
<1>8. CASE \E l \in Line : Upload(l) \/ Acknowledge(l) \/ ManagerResponds(l)
  BY <1>8, TruthFrame DEF Upload, Acknowledge, ManagerResponds, agent
<1>9. CASE \E allows \in BOOLEAN : Configure(allows)
  BY <1>9, TruthFrame DEF Configure
<1>10. CASE Switch \/ Tick \/ WriteFails \/ UNCHANGED vars
  BY <1>10, TruthFrame, DataFacts DEF Switch, Tick, WriteFails, agent, vars, Stage
<1> QED
  BY <1>1, <1>2, <1>3, <1>4, <1>5, <1>6, <1>7, <1>8, <1>9, <1>10
  DEF Next, Collect, CollectOffline

LEMMA ContractInvariant == Spec => []ContractInv
<1>1. Init => TruthInv
  BY DataFacts DEF Init, TruthInv, OutcomeTruthful, Truthful, Outcome, Stage
<1>2. ContractInv /\ [Next]_vars => ContractInv'
  BY NextInv, TruthNext DEF ContractInv
<1> QED BY <1>1, <1>2, InitInv, PTL DEF Spec, ContractInv

\* What the journal reports of the agent's own command is true of its effect,
\* wherever it was interrupted and however often its line was read.
THEOREM ReportsAreTrue == Spec => [](\A l \in Line : Truthful(l))
<1>1. ContractInv => \A l \in Line : Truthful(l)
  BY DEF ContractInv, TruthInv
<1> QED BY <1>1, ContractInvariant, PTL

\* What the contract shows of a command.
Closing(s) == IF s \in Outcome THEN s ELSE None

LEMMA PhaseFacts ==
  /\ \A s \in Open : Phase(s) = "open" /\ Closing(s) = None
  /\ \A s \in Outcome : Phase(s) = "closed" /\ Closing(s) = s
  /\ \A s \in {"UNDETECTED", "NO_COMMAND"} : Phase(s) = "none" /\ Closing(s) = None
BY DEF Phase, Closing, Open, Outcome

LEMMA ContractStutters ==
  ASSUME UNCHANGED effects,
         \A l \in Line : /\ Phase(command'[l]) = Phase(command[l])
                         /\ Closing(command'[l]) = Closing(command[l])
  PROVE  UNCHANGED Contract!vars
BY DEF Contract!vars, Closing

\* A command that is given changes the one line.
LEMMA EvaluateRequests ==
  ASSUME IInv, NEW built \in BOOLEAN, Evaluate(built)
  PROVE  Contract!Request(Here) \/ UNCHANGED Contract!vars
<1>1. Here \in Line /\ UNCHANGED effects
  BY DEF Evaluate, IInv, TypeOK
<1>2. CASE command[Here] = "UNDETECTED" /\ command' = [command EXCEPT ![Here] = "QUEUED"]
  <2>1. /\ [l \in Line |-> Phase(command[l])][Here] = "none"
        /\ [l \in Line |-> Phase(command[l])]' =
             [[l \in Line |-> Phase(command[l])] EXCEPT ![Here] = "open"]
    BY <1>1, <1>2, PhaseFacts DEF IInv, TypeOK, Open
  <2>2. UNCHANGED [l \in Line |-> IF command[l] \in Outcome THEN command[l] ELSE None]
    BY <1>1, <1>2, PhaseFacts DEF IInv, TypeOK, Open, Closing
  <2> QED BY <1>1, <2>1, <2>2 DEF Contract!Request
<1>3. CASE command' = command \/ ( command[Here] = "UNDETECTED"
                                  /\ command' = [command EXCEPT ![Here] = "NO_COMMAND"] )
  <2>1. \A l \in Line : /\ Phase(command'[l]) = Phase(command[l])
                        /\ Closing(command'[l]) = Closing(command[l])
    BY <1>1, <1>3, PhaseFacts DEF IInv, TypeOK
  <2> QED BY <1>1, <2>1, ContractStutters
<1> QED BY <1>2, <1>3 DEF Evaluate

LEMMA ExecutePerforms ==
  ASSUME IInv, NEW result \in Outcome, NEW acts \in BOOLEAN, Execute(result, acts)
  PROVE  Contract!Perform(Here) \/ UNCHANGED Contract!vars
<1>1. /\ Here \in Line /\ effects[Here] = 0 /\ command[Here] = "DISPATCHED"
  BY DEF Execute, IInv, TypeOK, StageFits, Stage, Executing
<1>2. UNCHANGED command
  BY DEF Execute, agent
<1>3. CASE acts
  <2>1. effects' = [effects EXCEPT ![Here] = 1]
    BY <1>1, <1>3 DEF Execute, IInv, TypeOK
  <2>2. [l \in Line |-> Phase(command[l])][Here] = "open"
    BY <1>1, PhaseFacts DEF Open
  <2> QED BY <1>1, <1>2, <2>1, <2>2 DEF Contract!Perform
<1>4. CASE ~acts
  <2>1. UNCHANGED effects
    BY <1>4 DEF Execute, IInv, TypeOK
  <2> QED BY <1>2, <2>1, ContractStutters
<1> QED BY <1>3, <1>4

\* The result of a command, new or from the journal, closes it.
LEMMA ResultCloses ==
  ASSUME ContractInv, Reuse \/ Result
  PROVE  \E o \in Outcome : Contract!Close(Here, o)
<1>1. /\ Here \in Line /\ command[Here] \in Open /\ UNCHANGED effects
  BY DEF Reuse, Result, ContractInv, IInv, TypeOK, StageFits, Stage, Executing, Open
<1>2. PICK o \in Outcome : /\ command' = [command EXCEPT ![Here] = o]
                           /\ o = journal[Here] \/ o = "UNKNOWN"
  <2>1. CASE Result
    BY <2>1 DEF Result, ContractInv, IInv, StageFits
  <2>2. CASE Reuse
    BY <1>1, <2>2 DEF Reuse, Unclaimed, Journalled, ContractInv, IInv, TypeOK, Outcome
  <2> QED BY <2>1, <2>2
<1>3. /\ o = "SUCCESS"  => effects[Here] = 1
      /\ o = "REJECTED" => effects[Here] = 0
  BY <1>1, <1>2 DEF ContractInv, TruthInv, Truthful
<1>4. /\ [l \in Line |-> Phase(command[l])][Here] = "open"
      /\ [l \in Line |-> Phase(command[l])]' =
           [[l \in Line |-> Phase(command[l])] EXCEPT ![Here] = "closed"]
  BY <1>1, <1>2, PhaseFacts DEF ContractInv, IInv, TypeOK
<1>5. [l \in Line |-> IF command[l] \in Outcome THEN command[l] ELSE None]' =
        [[l \in Line |-> IF command[l] \in Outcome THEN command[l] ELSE None]
           EXCEPT ![Here] = o]
  BY <1>1, <1>2 DEF ContractInv, IInv, TypeOK
<1>6. Contract!Close(Here, o)
  BY <1>1, <1>3, <1>4, <1>5 DEF Contract!Close
<1> QED BY <1>6

LEMMA ContractNext ==
  ASSUME ContractInv, [Next]_vars
  PROVE  Contract!Next \/ UNCHANGED Contract!vars
<1>1. ASSUME NEW built \in BOOLEAN, Evaluate(built)
      PROVE  Contract!Next \/ UNCHANGED Contract!vars
  <2>1. Here \in Line
    BY <1>1 DEF Evaluate
  <2> QED BY <1>1, <2>1, EvaluateRequests DEF ContractInv, Contract!Next
<1>2. ASSUME NEW result \in Outcome, NEW acts \in BOOLEAN, Execute(result, acts)
      PROVE  Contract!Next \/ UNCHANGED Contract!vars
  <2>1. Here \in Line
    BY <1>2, DataFacts DEF Execute, ContractInv, IInv, TypeOK, Stage
  <2> QED BY <1>2, <2>1, ExecutePerforms DEF ContractInv, Contract!Next
<1>3. CASE Reuse \/ Result
  <2>1. Here \in Line
    BY <1>3, DataFacts DEF Reuse, Result, ContractInv, IInv, TypeOK, Stage
  <2> QED BY <1>3, <2>1, ResultCloses DEF Contract!Next
<1>4. CASE Refuse \/ Claim
  <2>1. /\ Here \in Line /\ command[Here] \in Open /\ UNCHANGED effects
        /\ command' = [command EXCEPT ![Here] = "DISPATCHED"]
    BY <1>4, DataFacts DEF Refuse, Claim, ContractInv, IInv, TypeOK, Stage
  <2>2. \A l \in Line : command'[l] = command[l] \/ (command[l] \in Open /\ command'[l] \in Open)
    BY <2>1 DEF ContractInv, IInv, TypeOK, Open
  <2> QED BY <2>1, <2>2, PhaseFacts, ContractStutters
<1>5. CASE UNCHANGED <<command, effects>>
  BY <1>5, ContractStutters
<1>6. CASE CollectOnline \/ SaveOffset \/ CollectQueued \/ CollectUnevaluated \/ Report
           \/ EnqueueOffline
  BY <1>5, <1>6 DEF CollectOnline, SaveOffset, CollectQueued, CollectUnevaluated, Report,
     EnqueueOffline, agent
<1>7. CASE \E l \in Line : Upload(l) \/ Acknowledge(l) \/ ManagerResponds(l)
  BY <1>5, <1>7 DEF Upload, Acknowledge, ManagerResponds, agent
<1>8. CASE \E allows \in BOOLEAN : Configure(allows)
  BY <1>5, <1>8 DEF Configure
<1>9. CASE Switch \/ Tick \/ Crash \/ WriteFails \/ UNCHANGED vars
  BY <1>5, <1>9 DEF Switch, Tick, Crash, WriteFails, agent, vars
<1> QED
  BY <1>1, <1>2, <1>3, <1>4, <1>6, <1>7, <1>8, <1>9 DEF Next, Collect, CollectOffline

\* An event enters the queue when collect puts it there, the manager stores it
\* from there, and the row goes only then.
LEMMA TransferNext ==
  ASSUME IInv, [Next]_vars
  PROVE  Transfer!Next \/ UNCHANGED Transfer!vars
<1> DEFINE queued == {l \in Line : queue[l] # None}
           kept   == {l \in Line : stored[l] # None}
<1>1. ASSUME NEW l \in Line, NEW row \in Row, queue' = [queue EXCEPT ![l] = row],
             UNCHANGED stored
      PROVE  Transfer!Next \/ UNCHANGED Transfer!vars
  <2>1. queued' = queued \cup {l}
    BY <1>1, DataFacts DEF IInv, TypeOK
  <2>2. CASE l \in queued
    BY <1>1, <2>1, <2>2 DEF Transfer!vars
  <2>3. CASE l \notin queued
    BY <1>1, <2>1, <2>3 DEF Transfer!Next, Transfer!Collect
  <2> QED BY <2>2, <2>3
<1>2. CASE UNCHANGED <<queue, stored>>
  BY <1>2 DEF Transfer!vars
<1>3. CASE CollectOnline
  BY <1>1, <1>2, <1>3, RowTypes DEF CollectOnline
<1>4. CASE EnqueueOffline
  <2>1. PICK row \in Row : queue' = [queue EXCEPT ![Here] = row]
    BY <1>4, EnqueuedRow, EvidenceTyped, RowTypes DEF EnqueueOffline
  <2>2. Here \in Line /\ UNCHANGED stored
    BY <1>4 DEF EnqueueOffline, IInv, TypeOK, Stage
  <2> QED BY <1>1, <2>1, <2>2
<1>5. ASSUME NEW l \in Line, Upload(l)
      PROVE  Transfer!Next \/ UNCHANGED Transfer!vars
  <2>1. CASE stored' = [stored EXCEPT ![l] = queue[l].record] /\ UNCHANGED queue
    <3>1. queue[l].record # None /\ l \in queued \ kept
      BY <1>5, DataFacts DEF Upload, IInv, TypeOK
    <3>2. kept' = kept \cup {l} /\ UNCHANGED queued
      BY <2>1, <3>1 DEF IInv, TypeOK
    <3>3. Transfer!Store({l})
      BY <3>1, <3>2 DEF Transfer!Store
    <3> QED BY <3>3 DEF Transfer!Next
  <2>2. CASE /\ queue' = [queue EXCEPT ![l] = [record |-> queue[l].record, refused |-> TRUE]]
             /\ UNCHANGED stored
    <3>1. [record |-> queue[l].record, refused |-> TRUE] \in Row
      BY <1>5, DataFacts, RowTypes DEF Upload, IInv, TypeOK
    <3> QED BY <1>1, <2>2, <3>1
  <2> QED BY <1>5, <2>1, <2>2 DEF Upload
<1>6. ASSUME NEW l \in Line, Acknowledge(l) PROVE Transfer!Next
  <2>1. l \in queued \cap kept
    BY <1>6 DEF Acknowledge
  <2>2. queued' = queued \ {l} /\ UNCHANGED kept
    BY <1>6 DEF Acknowledge, IInv, TypeOK
  <2>3. Transfer!GiveUp({l})
    BY <2>1, <2>2 DEF Transfer!GiveUp
  <2> QED BY <2>3 DEF Transfer!Next
<1>7. CASE SaveOffset \/ CollectQueued \/ CollectUnevaluated
           \/ \E built \in BOOLEAN : Evaluate(built)
  BY <1>2, <1>7 DEF SaveOffset, CollectQueued, CollectUnevaluated, Evaluate, agent
<1>8. CASE Refuse \/ Claim \/ Reuse \/ Report \/ Result
           \/ \E result \in Outcome, acts \in BOOLEAN : Execute(result, acts)
  BY <1>2, <1>8 DEF Refuse, Claim, Reuse, Report, Result, Execute, agent
<1>9. CASE \E l \in Line : ManagerResponds(l)
  BY <1>2, <1>9 DEF ManagerResponds, agent
<1>10. CASE \E allows \in BOOLEAN : Configure(allows)
  BY <1>2, <1>10 DEF Configure
<1>11. CASE Switch \/ Tick \/ Crash \/ WriteFails \/ UNCHANGED vars
  BY <1>2, <1>11 DEF Switch, Tick, Crash, WriteFails, agent, vars
<1> QED
  BY <1>3, <1>4, <1>5, <1>6, <1>7, <1>8, <1>9, <1>10, <1>11
  DEF Next, Collect, CollectOffline

\* The agent that acts by itself keeps the contract of a command that the
\* manager gives, and its queue and the import the contract of the transfer.
THEOREM Refinement == Spec => ImplementsContracts
<1>1. Init => Contract!Init
  BY PhaseFacts DEF Init, Contract!Init, Closing
<1>2. ContractInv /\ [Next]_vars => [Contract!Next]_(Contract!vars)
  BY ContractNext
<1>3. Spec => Contract!Spec
  BY <1>1, <1>2, ContractInvariant, PTL DEF Spec, Contract!Spec
<1>4. Init => Transfer!Init
  BY DEF Init, Transfer!Init
<1>5. IInv /\ [Next]_vars => [Transfer!Next]_(Transfer!vars)
  BY TransferNext
<1>6. Spec => Transfer!Spec
  BY <1>4, <1>5, Invariant, PTL DEF Spec, Transfer!Spec
<1> QED BY <1>3, <1>6 DEF ImplementsContracts
=============================================================================
