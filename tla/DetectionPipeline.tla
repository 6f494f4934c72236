------------------------- MODULE DetectionPipeline -------------------------
(***************************************************************************)
(* The detection of the events of one agent (engine/pipeline.py): the      *)
(* correlation window, rules, risk (engine/risk), trust (engine/trust),    *)
(* policies (engine/policy), incidents and response commands               *)
(* (engine/response), and the decay of the risk (api/background.py).       *)
(*                                                                         *)
(* A worker reads the window before it takes the write lock of the         *)
(* database, and detects in one transaction.  The events of the stream     *)
(* reach the workers in any order, so that an event may come after a later *)
(* one was detected.                                                       *)
(*                                                                         *)
(* Abstractions.                                                           *)
(*  - Rules and policies do not change here; RuleCatalog has their edits.  *)
(*    Rules are numbered in the order of their codes, and so are policies. *)
(*  - A policy's condition is its range of risk scores.                    *)
(*  - Whether a command can be built (the event is fresh and names its     *)
(*    target exactly) is chosen when it is needed.                         *)
(*  - Incidents stay open: nothing in the manager closes one.              *)
(*  - enforcing is the flag of the agent's own engine, which runs the same *)
(*    pipeline while offline and has no decay.                             *)
(***************************************************************************)
EXTENDS ConditionTrees, Correlation

CONSTANTS
  Worker,
  Streams,        \* streams of events, with None for one that does not occur
  NumRules, Rules,       \* the rule table
  NumPolicies, Policies, \* the policy table
  Delta,          \* risk_delta of each finding
  TicksPerPoint,  \* clock ticks in which the risk decays by one point
  MaxTime,        \* bound on the manager's clock
  MaxOverwrites,  \* bound on failures written over a completed event
  None

MaxScore == 100
Score    == 0..MaxScore
Rule     == 1..NumRules
Policy   == 1..NumPolicies

Shape == [auth : {"none", "failed", "succeeded"}, user : User, shell : BOOLEAN,
          connects : BOOLEAN, data : Data, offline : BOOLEAN]
Action == {"notify", "contain", "destroy"}
PolicyEntry == [enabled : BOOLEAN, allowOffline : BOOLEAN, link : Rule \cup {None},
                priority : Nat, low : Score, high : Score,
                enforce : BOOLEAN, action : Action]
Response == {"NOT_REQUESTED", "RECOMMENDED_ONLY", "NOT_EXECUTED", "HISTORICAL_ONLY",
             "BLOCKED", "QUEUED"}
Incident == [risk : Score, trust : Score, policy : Policy \cup {None},
             response : Response]
Login    == [seen : SUBSET Event, alarm : BOOLEAN]
Command  == [event : Event, rule : Rule, policy : Policy]
Hand     == [event : Event, risk : Score, seen : SUBSET Event,
             findings : SUBSET Finding]

ASSUME PipelineAssumption ==
  /\ Streams \subseteq [Event -> Shape \cup {None}]
  /\ NumRules \in Nat /\ NumPolicies \in Nat
  /\ \A r \in Rule : Rules[r].delta \in Score /\ IsTree(Rules[r].condition)
  /\ \A r \in Rule, flag \in {"enabled", "allowOffline", "critical"} :
       Rules[r][flag] \in BOOLEAN
  /\ Policies \in [Policy -> PolicyEntry]
  /\ Delta \in [Finding -> Score]
  /\ TicksPerPoint \in Nat \ {0} /\ MaxTime \in Nat /\ MaxOverwrites \in Nat
  /\ None \notin Event \cup Policy /\ None \notin Hand \cup Incident \cup Login

VARIABLES
  stream,     \* what each event is; never changes
  enforcing,  \* this is the agent's engine; never changes
  completed,  \* the events whose processing_state is COMPLETED
  hand,       \* the event and findings a worker has brought to the lock
  publishing, \* the event a worker has completed and not yet published
  score,      \* new_score of the latest risk_history entry, 0 without one
  scoredAt,   \* its timestamp
  incidents,  \* the incident of each event and rule, or None
  commands,
  clock,
  \* history and bounds
  logins,     \* what the latest committed detection of each successful login
              \* had seen, and whether it raised an alarm, or None
  raisedTo,   \* the score the latest detection left, and when
  raisedAt,
  overwrites

vars == <<stream, enforcing, completed, hand, publishing, score, scoredAt, incidents, commands,
          clock, logins, raisedTo, raisedAt, overwrites>>

Init ==
  /\ stream \in Streams
  /\ enforcing \in BOOLEAN
  /\ completed = {}
  /\ hand = [w \in Worker |-> None]
  /\ publishing = [w \in Worker |-> None]
  /\ score = 0 /\ scoredAt = 0
  /\ incidents = [e \in Event |-> [r \in Rule |-> None]]
  /\ commands = {}
  /\ clock = 0
  /\ logins = [e \in Event |-> None]
  /\ raisedTo = 0 /\ raisedAt = 0
  /\ overwrites = 0

---------------------------------------------------------------------------
(* Before the lock *)

Preflight(w, e) ==
  /\ hand[w] = None /\ publishing[w] = None
  /\ enforcing => \A x \in Worker : hand[x] = None
  /\ stream[e] # None /\ e \notin completed
  /\ hand' = [hand EXCEPT ![w] =
       [event |-> e, risk |-> score, seen |-> {x \in completed : x < e},
        findings |-> Correlate(completed, stream, e)]]
  /\ UNCHANGED <<stream, enforcing, completed, publishing, score, scoredAt,
                 incidents, commands, clock, logins, raisedTo, raisedAt, overwrites>>

---------------------------------------------------------------------------
(* Risk and trust *)

\* apply_delta keeps the score between min_score and max_score.
Clamp(n) == IF n < 0 THEN 0 ELSE IF n > MaxScore THEN MaxScore ELSE n

\* Mutant: the score is not clamped.
MutApplyDelta(n, delta) == n + delta

ApplyDelta(n, delta) == Clamp(n + delta)

\* evaluate_trust without incidents.
TrustScore(risk) == Clamp(100 - risk)

\* The score after the findings, in the order the engine reports them.
AfterFindings(n, findings) ==
  LET first == IF "CORR-AUTH-001" \in findings
               THEN ApplyDelta(n, Delta["CORR-AUTH-001"]) ELSE n
  IN  IF "CORR-EXEC-002" \in findings
      THEN ApplyDelta(first, Delta["CORR-EXEC-002"]) ELSE first

---------------------------------------------------------------------------
(* Rules *)

Evaluated(r) == Rules[r].enabled /\ (enforcing => Rules[r].allowOffline)

\* The outcome of each rule on each data.
Outcomes == [r \in Rule |-> [data \in Data |-> Outcome(Rules[r].condition, data)]]

Matches(r, e) == Evaluated(r) /\ Outcomes[r][stream[e].data] = "MATCH"

Matched(e) == {r \in Rule : Matches(r, e)}

\* The score after the findings and the rules up to each one.
Scores(n, findings, e) ==
  LET after[r \in 0..NumRules] ==
        IF r = 0 THEN AfterFindings(n, findings)
        ELSE IF Matches(r, e) THEN ApplyDelta(after[r - 1], Rules[r].delta)
        ELSE after[r - 1]
  IN  after

---------------------------------------------------------------------------
(* Policies *)

\* evaluate_single_policy for a match of rule r at the given risk.
Triggered(p, r, risk) ==
  /\ Policies[p].enabled
  /\ Policies[p].link \in {None, r}
  /\ enforcing => Policies[p].allowOffline
  /\ risk \in Policies[p].low..Policies[p].high

\* policy_sort_key
Precedes(p, q) ==
  \/ Policies[p].priority < Policies[q].priority
  \/ Policies[p].priority = Policies[q].priority /\ p < q

Candidates(r, risk) == {p \in Policy : Triggered(p, r, risk)}

Selected(r, risk) ==
  IF Candidates(r, risk) = {} THEN None
  ELSE CHOOSE p \in Candidates(r, risk) :
         \A q \in Candidates(r, risk) \ {p} : Precedes(p, q)

\* The policies that ask for a command.
Commanding == {p \in Policy : Policies[p].enforce /\ Policies[p].action # "notify"}

\* What becomes of a policy that asks for a command: built holds those for which
\* build_command accepts the event.
Dispatched(p, e, built) ==
  IF stream[e].offline /\ ~enforcing THEN "HISTORICAL_ONLY"
  ELSE IF stream[e].offline /\ Policies[p].action = "destroy" THEN "BLOCKED"
  ELSE IF p \in built THEN "QUEUED" ELSE "BLOCKED"

\* Mutant: an incident that was there before is not looked at.
MutResponseOf(p, e, reobserved, built) ==
  CASE p = None                        -> "NOT_REQUESTED"
    [] p # None /\ ~Policies[p].enforce -> "RECOMMENDED_ONLY"
    [] p # None /\ Policies[p].enforce  ->
         IF Policies[p].action = "notify" THEN "NOT_EXECUTED"
         ELSE Dispatched(p, e, built)

\* The response to the selected policy.
ResponseOf(p, e, reobserved, built) ==
  CASE p = None                        -> "NOT_REQUESTED"
    [] p # None /\ ~Policies[p].enforce -> "RECOMMENDED_ONLY"
    [] p # None /\ Policies[p].enforce  ->
         IF Policies[p].action = "notify" \/ reobserved THEN "NOT_EXECUTED"
         ELSE Dispatched(p, e, built)

\* The incident of a match of rule r at the given risk.
IncidentOf(e, r, risk, built) ==
  [risk |-> risk, trust |-> TrustScore(risk), policy |-> Selected(r, risk),
   response |-> ResponseOf(Selected(r, risk), e, incidents[e][r] # None, built)]

---------------------------------------------------------------------------
(* The detection transaction *)

\* The event was completed by another worker in the meantime.
Discard(w) ==
  /\ hand[w] # None /\ hand[w].event \in completed
  /\ hand' = [hand EXCEPT ![w] = None]
  /\ UNCHANGED <<stream, enforcing, completed, publishing, score, scoredAt,
                 incidents, commands, clock, logins, raisedTo, raisedAt, overwrites>>

\* Mutant: the score read before the lock is used.
MutRiskBefore(w) == hand[w].risk

\* The score is read again under the lock.
RiskBefore(w) == score

Detect(w, built) ==
  /\ hand[w] # None /\ hand[w].event \notin completed
  /\ LET e     == hand[w].event
         after == Scores(RiskBefore(w), hand[w].findings, e)
         found == [r \in Rule |->
                     IF r \in Matched(e) THEN IncidentOf(e, r, after[r], built)
                     ELSE incidents[e][r]]
     IN  /\ completed' = completed \cup {e}
         /\ incidents' = [incidents EXCEPT ![e] = found]
         /\ commands' = commands \cup
              {[event |-> e, rule |-> r, policy |-> incidents'[e][r].policy] :
                 r \in {x \in Matched(e) : incidents'[e][x].response = "QUEUED"}}
         /\ score' = after[NumRules]
         /\ IF hand[w].findings # {} \/ Matched(e) # {}
            THEN scoredAt' = clock /\ raisedTo' = score' /\ raisedAt' = clock
            ELSE UNCHANGED <<scoredAt, raisedTo, raisedAt>>
         /\ publishing' = [publishing EXCEPT ![w] = e]
         /\ logins' = IF stream[e].auth = "succeeded"
                      THEN [logins EXCEPT ![e] =
                             [seen  |-> hand[w].seen,
                              alarm |-> "CORR-AUTH-001" \in hand[w].findings]]
                      ELSE logins
  /\ hand' = [hand EXCEPT ![w] = None]
  /\ UNCHANGED <<stream, enforcing, clock, overwrites>>

\* The worker's publications are sent.
Publish(w) ==
  /\ publishing[w] # None
  /\ publishing' = [publishing EXCEPT ![w] = None]
  /\ UNCHANGED <<stream, enforcing, completed, hand, score, scoredAt,
                 incidents, commands, clock, logins, raisedTo, raisedAt, overwrites>>

InHand(w) == IF hand[w] = None THEN publishing[w] ELSE hand[w].event

\* The detection raises, and its transaction is rolled back, or the publication
\* after it does.  The handler of the failure sets the event FAILED, even if
\* this worker or another one has completed it: it is detected again (see
\* EventProcessing).
Fail(w) ==
  /\ InHand(w) # None
  /\ IF InHand(w) \in completed
     THEN overwrites < MaxOverwrites /\ overwrites' = overwrites + 1
     ELSE UNCHANGED overwrites
  /\ completed' = completed \ {InHand(w)}
  /\ hand' = [hand EXCEPT ![w] = None]
  /\ publishing' = [publishing EXCEPT ![w] = None]
  /\ UNCHANGED <<stream, enforcing, score, scoredAt, incidents, commands,
                 clock, logins, raisedTo, raisedAt>>

---------------------------------------------------------------------------
(* Decay *)

CriticalOpen ==
  \E e \in Event, r \in Rule : incidents[e][r] # None /\ Rules[r].critical

Smaller(m, n) == IF m < n THEN m ELSE n

\* Whole points only; the part of a point is lost with each entry.
Decrement == Smaller(score, (clock - scoredAt) \div TicksPerPoint)

\* Mutant: the entry keeps the time of the one before.
MutDecay ==
  /\ ~enforcing /\ ~CriticalOpen
  /\ Decrement > 0
  /\ score' = score - Decrement
  /\ UNCHANGED <<stream, enforcing, completed, hand, publishing, scoredAt,
                 incidents, commands, clock, logins, raisedTo, raisedAt, overwrites>>

Decay ==
  /\ ~enforcing /\ ~CriticalOpen
  /\ Decrement > 0
  /\ score' = score - Decrement
  /\ scoredAt' = clock
  /\ UNCHANGED <<stream, enforcing, completed, hand, publishing, incidents,
                 commands, clock, logins, raisedTo, raisedAt, overwrites>>

Tick ==
  /\ clock < MaxTime
  /\ clock' = clock + 1
  /\ UNCHANGED <<stream, enforcing, completed, hand, publishing, score,
                 scoredAt, incidents, commands, logins, raisedTo, raisedAt,
                 overwrites>>

Work(w) ==
  \/ \E e \in Event : Preflight(w, e)
  \/ Discard(w) \/ Publish(w)
  \/ Fail(w)
  \/ \E built \in SUBSET Commanding : Detect(w, built)

Next ==
  \/ \E w \in Worker : Work(w)
  \/ Decay \/ Tick

Spec == Init /\ [][Next]_vars

---------------------------------------------------------------------------
(* Properties *)

\* Type invariant; the risk stays within its bounds.
TypeOK ==
  /\ stream \in Streams /\ enforcing \in BOOLEAN
  /\ completed \subseteq Event
  /\ hand \in [Worker -> Hand \cup {None}]
  /\ publishing \in [Worker -> Event \cup {None}]
  /\ score \in Score /\ raisedTo \in Score
  /\ clock \in 0..MaxTime /\ scoredAt \in 0..clock /\ raisedAt \in 0..clock
  /\ incidents \in [Event -> [Rule -> Incident \cup {None}]]
  /\ commands \subseteq Command
  /\ logins \in [Event -> Login \cup {None}]
  /\ overwrites \in 0..MaxOverwrites

\* What a worker brings to the lock is what the definition of the two
\* sequences says of the events it has seen, as long as they are not more than
\* the pipeline replays.  It says nothing of what two detections have found
\* together.
FindingsExact ==
  \A w \in Worker :
    hand[w] # None /\ Cardinality(hand[w].seen) <= ReplayLimit =>
      hand[w].findings = Expected(hand[w].seen, stream, hand[w].event)

\* The successful logins of the user of e before it that have been detected.
LoginsBefore(e) ==
  {a \in Event : a < e /\ logins[a] # None /\ stream[a].user = stream[e].user}

\* The detection of login e had seen login a, and of what came before a the
\* same events as the detection of a.
BuildsOn(e, a) ==
  /\ a \in logins[e].seen
  /\ logins[a].seen = {x \in logins[e].seen : x < a}

\* The failures that the detection of login e had seen in the window before it
\* and that are behind no alarm another detection has committed.
FailuresLeft(e) ==
  {f \in logins[e].seen :
     /\ f >= e - Window
     /\ stream[f].auth = "failed" /\ stream[f].user = stream[e].user
     /\ \A a \in LoginsBefore(e) : logins[a].alarm => a < f}

\* Across the detections of all workers, no failure of a user counts in two
\* alarms and none is lost: a login raises an alarm just if enough failures are
\* left by the alarms of the logins before it.  The condition excludes what the
\* code does not prevent: an earlier login that is detected later, or by
\* another worker after this one has read its window, or whose detection had
\* other events before it than the replay of this one.
AlarmsCountOnce ==
  \A e \in Event :
    /\ logins[e] # None /\ Cardinality(logins[e].seen) <= ReplayLimit
    /\ \A a \in LoginsBefore(e) : BuildsOn(e, a)
    => (logins[e].alarm <=> Cardinality(FailuresLeft(e)) >= FailuresNeeded)

\* A test that could not be evaluated never contributes to an incident,
\* however it is nested.
ErrorNeverMatches ==
  \A e \in Event, r \in Rule : incidents[e][r] # None =>
    Failed(Rules[r].condition, stream[e].data) = {}

\* An event and a rule lead to one command at most, and that of a policy that
\* is to be enforced, for an incident that is there: also if the event is
\* detected again, at another risk that selects another policy.
OneCommandPerIncident ==
  /\ \A c, d \in commands : c.event = d.event /\ c.rule = d.rule => c = d
  /\ \A c \in commands : incidents[c.event][c.rule] # None /\ Policies[c.policy].enforce

\* A detection adds all it found to the risk that is stored when it commits,
\* up to the maximum: no worker writes a score based on one that another
\* worker or the decay has replaced since.
Deltas(e, findings) ==
  LET ruleDeltas[r \in 0..NumRules] ==
        IF r = 0 THEN 0
        ELSE ruleDeltas[r - 1] + (IF Matches(r, e) THEN Rules[r].delta ELSE 0)
  IN  ruleDeltas[NumRules]
      + (IF "CORR-AUTH-001" \in findings THEN Delta["CORR-AUTH-001"] ELSE 0)
      + (IF "CORR-EXEC-002" \in findings THEN Delta["CORR-EXEC-002"] ELSE 0)

RiskAddsUp ==
  [][\A w \in Worker :
       hand[w] # None /\ hand'[w] = None /\ hand[w].event \in completed' \ completed
       => score' = Clamp(score + Deltas(hand[w].event, hand[w].findings))]_vars

\* The risk never decays faster than the configured rate, however often the
\* decay runs.
DecayWithinRate ==
  raisedTo - score <= (clock - raisedAt) \div TicksPerPoint
=============================================================================
