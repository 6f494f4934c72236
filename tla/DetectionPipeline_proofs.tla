---------------------- MODULE DetectionPipeline_proofs ----------------------
(***************************************************************************)
(* Proofs about DetectionPipeline, for every set of workers, stream, rule  *)
(* and policy table, and rate of decay.                                    *)
(*                                                                         *)
(* The risk after the rules and the replay of the correlation engine are   *)
(* recursive functions.  That they exist, and what they compute, is proved *)
(* by minimal counterexample: the naturals are well-founded, so that a set *)
(* of naturals for which a claim fails would have a least member           *)
(* (LeastNat, Recursion).                                                  *)
(***************************************************************************)
EXTENDS DetectionPipeline, FiniteSetTheorems, WellFoundedInduction, TLAPS

LEMMA NatOrder == IsWellFoundedOn({p \in Nat \X Nat : p[1] < p[2]}, Nat)
BY NatLessThanWellFounded DEF OpToRel

\* A set of naturals that is not empty has a least member.
LEMMA LeastNat ==
  ASSUME NEW T \in SUBSET Nat, T # {}
  PROVE  \E n \in T : \A k \in T : n <= k
<1> DEFINE R == {p \in Nat \X Nat : p[1] < p[2]}
<1>1. PICK n \in T : \A k \in T : <<k, n>> \notin R
  <2> HIDE DEF R
  <2> QED BY NatOrder, WFMin DEF R
<1>2. ASSUME NEW k \in T PROVE n <= k
  <2>1. <<k, n>> \in Nat \X Nat /\ n \in Nat /\ k \in Nat
    OBVIOUS
  <2>2. ~(<<k, n>>[1] < <<k, n>>[2])
    BY <1>1, <2>1
  <2> QED BY <2>1, <2>2
<1> QED BY <1>2

\* A function that is given by its first value and its steps exists.
Steps(N, S) == [1..N -> [S -> S]]

Follows(g, N, S, a, step) ==
  /\ g \in [0..N -> S]
  /\ g[0] = a
  /\ \A i \in 1..N : g[i] = step[i][g[i-1]]

LEMMA Recursion ==
  ASSUME NEW N \in Nat, NEW S, NEW a \in S, NEW step \in Steps(N, S)
  PROVE  \E g : Follows(g, N, S, a, step)
<1> DEFINE T == {n \in 0..N : ~\E g : Follows(g, n, S, a, step)}
<1>1. \E g : Follows(g, 0, S, a, step)
  <2>1. [i \in 0..0 |-> a] \in [0..0 -> S] /\ [i \in 0..0 |-> a][0] = a
    OBVIOUS
  <2>2. 1..0 = {}
    OBVIOUS
  <2> QED BY <2>1, <2>2 DEF Follows
<1>2. ASSUME NEW n \in 1..N, \E g : Follows(g, n - 1, S, a, step)
      PROVE  \E g : Follows(g, n, S, a, step)
  <2>1. PICK g : Follows(g, n - 1, S, a, step)
    BY <1>2
  <2> DEFINE h == [i \in 0..n |-> IF i = n THEN step[n][g[n-1]] ELSE g[i]]
  <2>2. n \in Nat /\ n >= 1 /\ n - 1 \in 0..(n-1) /\ n - 1 \in Nat
    OBVIOUS
  <2>3. step[n][g[n-1]] \in S
    BY <2>1, <2>2 DEF Follows, Steps
  <2>4. h \in [0..n -> S]
    BY <2>1, <2>2, <2>3 DEF Follows
  <2>5. h[0] = a
    BY <2>1, <2>2 DEF Follows
  <2>6. ASSUME NEW i \in 1..n PROVE h[i] = step[i][h[i-1]]
    <3>1. h[i-1] = g[i-1]
      BY <2>2
    <3> QED BY <2>1, <2>2, <3>1 DEF Follows
  <2> QED BY <2>4, <2>5, <2>6 DEF Follows
<1>3. ASSUME T # {} PROVE FALSE
  <2>1. PICK n \in T : \A k \in T : n <= k
    <3>1. T \in SUBSET Nat
      OBVIOUS
    <3> HIDE DEF T
    <3> QED BY <1>3, <3>1, LeastNat
  <2>2. n \in 0..N /\ ~\E g : Follows(g, n, S, a, step)
    OBVIOUS
  <2>3. n # 0
    BY <1>1, <2>2
  <2>4. n \in 1..N /\ n - 1 \in 0..N /\ ~(n <= n - 1)
    BY <2>2, <2>3
  <2>5. n - 1 \notin T
    <3> HIDE DEF T
    <3> QED BY <2>1, <2>4
  <2> QED BY <1>2, <2>2, <2>4, <2>5
<1> QED BY <1>3

\* Two functions that start alike and go on alike are alike.
LEMMA Agreement ==
  ASSUME NEW N \in Nat, NEW f, NEW g, f[0] = g[0],
         \A i \in 1..N : f[i-1] = g[i-1] => f[i] = g[i]
  PROVE  \A i \in 0..N : f[i] = g[i]
<1> DEFINE T == {i \in 0..N : f[i] # g[i]}
<1>1. ASSUME T # {} PROVE FALSE
  <2>1. PICK i \in T : \A k \in T : i <= k
    <3>1. T \in SUBSET Nat
      OBVIOUS
    <3> HIDE DEF T
    <3> QED BY <1>1, <3>1, LeastNat
  <2>2. i \in 0..N /\ f[i] # g[i]
    OBVIOUS
  <2>3. i # 0
    BY <2>2
  <2>4. i \in 1..N /\ i - 1 \in 0..N /\ ~(i <= i - 1)
    BY <2>2, <2>3
  <2>5. i - 1 \notin T
    <3> HIDE DEF T
    <3> QED BY <2>1, <2>4
  <2> QED BY <2>2, <2>4, <2>5
<1> QED BY <1>1

---------------------------------------------------------------------------
(* Scores *)

\* What most proofs use of the assumptions.
LEMMA Constants ==
  /\ Event \subseteq Nat \ {0}
  /\ NumRules \in Nat /\ NumPolicies \in Nat
  /\ \A r \in Rule : Rules[r].delta \in Score
  /\ Policies \in [Policy -> PolicyEntry]
  /\ Delta \in [Finding -> Score]
  /\ TicksPerPoint \in Nat \ {0} /\ MaxTime \in Nat /\ MaxOverwrites \in Nat
  /\ None \notin Event \cup Policy /\ None \notin Hand \cup Incident \cup Login
BY PipelineAssumption, CorrelationAssumption DEF PipelineAssumption, CorrelationAssumption

USE Constants

LEMMA ClampFacts ==
  /\ \A n \in Int : Clamp(n) \in Score
  /\ \A n \in Score : Clamp(n) = n
  /\ \A n, d, f \in Nat : Clamp(Clamp(n + d) + f) = Clamp(n + d + f)
BY DEF Clamp, Score, MaxScore

LEMMA ScoresAreNat ==
  /\ \A n \in Score : n \in Nat
  /\ \A r \in 1..NumRules : r \in Rule /\ Rules[r].delta \in Nat
  /\ \A f \in Finding : Delta[f] \in Nat
  /\ 0 \in 0..NumRules /\ NumRules \in 0..NumRules /\ NumRules \in Nat
BY DEF Score, MaxScore, Rule

\* The sum of the deltas of the matching rules up to each one.
RuleDeltas(e) ==
  LET ruleDeltas[r \in 0..NumRules] ==
        IF r = 0 THEN 0
        ELSE ruleDeltas[r - 1] + (IF Matches(r, e) THEN Rules[r].delta ELSE 0)
  IN  ruleDeltas

LEMMA RuleDeltasDefined ==
  ASSUME NEW e
  PROVE  /\ RuleDeltas(e) \in [0..NumRules -> Nat]
         /\ RuleDeltas(e)[0] = 0
         /\ \A r \in Rule : RuleDeltas(e)[r] =
              RuleDeltas(e)[r - 1] + (IF Matches(r, e) THEN Rules[r].delta ELSE 0)
<1> DEFINE Def(f) == f = [r \in 0..NumRules |->
                            IF r = 0 THEN 0
                            ELSE f[r - 1] + (IF Matches(r, e) THEN Rules[r].delta ELSE 0)]
           step == [r \in 1..NumRules |->
                      [n \in Nat |-> n + (IF Matches(r, e) THEN Rules[r].delta ELSE 0)]]
<1>1. step \in Steps(NumRules, Nat)
  BY DEF Steps, Score, MaxScore, Rule
<1>2. PICK g : Follows(g, NumRules, Nat, 0, step)
  <2> HIDE DEF step
  <2> QED BY <1>1, Recursion
<1>3. Def(g)
  <2>1. ASSUME NEW r \in 0..NumRules
        PROVE  g[r] = IF r = 0 THEN 0
                      ELSE g[r - 1] + (IF Matches(r, e) THEN Rules[r].delta ELSE 0)
    <3>1. CASE r = 0
      BY <1>2, <3>1 DEF Follows
    <3>2. CASE r # 0
      <4>1. r \in 1..NumRules /\ g[r-1] \in Nat
        BY <1>2, <3>2 DEF Follows
      <4> QED BY <1>2, <3>2, <4>1 DEF Follows
    <3> QED BY <3>1, <3>2
  <2> QED BY <1>2, <2>1 DEF Follows
<1>4. RuleDeltas(e) = CHOOSE f : Def(f)
  BY DEF RuleDeltas
<1>5. Def(RuleDeltas(e))
  <2> HIDE DEF Def
  <2> QED BY <1>3, <1>4
<1>6. \A r \in 0..NumRules : RuleDeltas(e)[r] = g[r]
  <2>1. RuleDeltas(e)[0] = g[0]
    BY <1>3, <1>5
  <2>2. ASSUME NEW r \in 1..NumRules, RuleDeltas(e)[r-1] = g[r-1] PROVE RuleDeltas(e)[r] = g[r]
    BY <1>3, <1>5, <2>2
  <2>3. \A r \in 1..NumRules : RuleDeltas(e)[r-1] = g[r-1] => RuleDeltas(e)[r] = g[r]
    BY <2>2
  <2>4. NumRules \in Nat
    OBVIOUS
  <2> QED BY ONLY <2>1, <2>3, <2>4, Agreement
<1>7. RuleDeltas(e) = g
  BY <1>3, <1>5, <1>6
<1> QED
  <2> HIDE DEF step
  <2>1. ASSUME NEW r \in Rule
        PROVE  RuleDeltas(e)[r] =
                 RuleDeltas(e)[r - 1] + (IF Matches(r, e) THEN Rules[r].delta ELSE 0)
    BY <1>5 DEF Rule
  <2>2. RuleDeltas(e)[0] = 0
    BY <1>5
  <2> QED BY <1>2, <1>7, <2>1, <2>2 DEF Follows

LEMMA AfterFindingsSum ==
  ASSUME NEW n \in Score, NEW findings \in SUBSET Finding
  PROVE  /\ AfterFindings(n, findings) \in Score
         /\ \A d \in Nat :
              Clamp(AfterFindings(n, findings) + d)
              = Clamp(n + (IF "CORR-AUTH-001" \in findings THEN Delta["CORR-AUTH-001"] ELSE 0)
                        + (IF "CORR-EXEC-002" \in findings THEN Delta["CORR-EXEC-002"] ELSE 0) + d)
<1>1. Delta["CORR-AUTH-001"] \in Nat /\ Delta["CORR-EXEC-002"] \in Nat /\ n \in Nat
  BY ScoresAreNat DEF Finding
<1> DEFINE c == IF "CORR-AUTH-001" \in findings THEN Delta["CORR-AUTH-001"] ELSE 0
           d == IF "CORR-EXEC-002" \in findings THEN Delta["CORR-EXEC-002"] ELSE 0
<1>2. c \in Nat /\ d \in Nat
  BY <1>1
<1>3. Clamp(n + 0) = n /\ Clamp(n + c) \in Score /\ Clamp(Clamp(n + c) + 0) = Clamp(n + c)
  BY <1>1, <1>2, ClampFacts
<1>4. AfterFindings(n, findings) = Clamp(Clamp(n + c) + d)
  BY <1>3 DEF AfterFindings, ApplyDelta
<1>5. AfterFindings(n, findings) = Clamp(n + (c + d))
  <2> HIDE DEF c, d
  <2>1. Clamp(Clamp(n + c) + d) = Clamp(n + c + d)
    BY <1>1, <1>2, ClampFacts
  <2> QED BY <1>1, <1>2, <1>4, <2>1
<1>6. ASSUME NEW f \in Nat PROVE Clamp(AfterFindings(n, findings) + f) = Clamp(n + c + d + f)
  <2> HIDE DEF c, d
  <2>1. Clamp(Clamp(n + (c + d)) + f) = Clamp(n + (c + d) + f)
    BY <1>1, <1>2 DEF Clamp, MaxScore
  <2> QED BY <1>1, <1>2, <1>5, <2>1
<1>7. AfterFindings(n, findings) \in Score
  <2> HIDE DEF c, d
  <2> QED BY <1>1, <1>2, <1>5, ClampFacts
<1> QED BY <1>6, <1>7

\* The rules add their deltas, up to the maximum.
LEMMA ScoresSum ==
  ASSUME NEW n \in Score, NEW findings \in SUBSET Finding, NEW e
  PROVE  \A r \in 0..NumRules :
           /\ Scores(n, findings, e)[r] = Clamp(AfterFindings(n, findings) + RuleDeltas(e)[r])
           /\ Scores(n, findings, e)[r] \in Score
<1> DEFINE a == AfterFindings(n, findings)
           Def(f) == f = [r \in 0..NumRules |->
                            IF r = 0 THEN a
                            ELSE IF Matches(r, e) THEN ApplyDelta(f[r - 1], Rules[r].delta)
                            ELSE f[r - 1]]
           g == [r \in 0..NumRules |-> Clamp(a + RuleDeltas(e)[r])]
<1>1. a \in Score /\ a \in Nat
  BY AfterFindingsSum, ScoresAreNat
<1>2. g[0] = a
  BY <1>1, RuleDeltasDefined, ClampFacts
<1>3. ASSUME NEW r \in 1..NumRules
      PROVE  g[r] = IF Matches(r, e) THEN ApplyDelta(g[r - 1], Rules[r].delta) ELSE g[r - 1]
  <2>1. /\ r \in Rule /\ r \in 0..NumRules /\ r - 1 \in 0..NumRules
        /\ RuleDeltas(e)[r - 1] \in Nat /\ Rules[r].delta \in Nat
    <3>1. r \in Rule /\ r \in 0..NumRules /\ r - 1 \in 0..NumRules
      BY DEF Rule
    <3> QED BY <3>1, RuleDeltasDefined, ScoresAreNat
  <2>2. RuleDeltas(e)[r] = RuleDeltas(e)[r - 1] + (IF Matches(r, e) THEN Rules[r].delta ELSE 0)
    BY <2>1, RuleDeltasDefined
  <2>3. Clamp(Clamp(a + RuleDeltas(e)[r-1]) + Rules[r].delta)
        = Clamp(a + RuleDeltas(e)[r-1] + Rules[r].delta)
    BY <1>1, <2>1, ClampFacts
  <2> HIDE DEF a
  <2> QED BY <1>1, <2>1, <2>2, <2>3 DEF ApplyDelta
<1>4. Def(g)
  <2>1. ASSUME NEW r \in 0..NumRules, r # 0 PROVE r \in 1..NumRules
    BY <2>1
  <2>2. ASSUME NEW r \in 0..NumRules
        PROVE  g[r] = IF r = 0 THEN a
                      ELSE IF Matches(r, e) THEN ApplyDelta(g[r - 1], Rules[r].delta)
                      ELSE g[r - 1]
    <3> HIDE DEF g, a
    <3> QED BY <1>2, <1>3, <2>1
  <2>3. g = [r \in 0..NumRules |-> g[r]]
    OBVIOUS
  <2> HIDE DEF g, a
  <2> QED BY <2>2, <2>3
<1>5. Scores(n, findings, e) = CHOOSE f : Def(f)
  BY DEF Scores
<1>6. Def(Scores(n, findings, e))
  <2> HIDE DEF Def, g
  <2> QED BY <1>4, <1>5
<1>7. \A r \in 0..NumRules : Scores(n, findings, e)[r] = g[r]
  <2>1. Scores(n, findings, e)[0] = g[0]
    <3> HIDE DEF g, a
    <3> QED BY <1>2, <1>6
  <2>2. ASSUME NEW r \in 1..NumRules, Scores(n, findings, e)[r-1] = g[r-1]
        PROVE  Scores(n, findings, e)[r] = g[r]
    <3> HIDE DEF g, a
    <3> QED BY <1>3, <1>6, <2>2
  <2>3. \A r \in 1..NumRules : Scores(n, findings, e)[r-1] = g[r-1]
                               => Scores(n, findings, e)[r] = g[r]
    <3> HIDE DEF g
    <3> QED BY <2>2
  <2>4. NumRules \in Nat
    OBVIOUS
  <2> HIDE DEF g
  <2> QED BY ONLY <2>1, <2>3, <2>4, Agreement
<1> QED
  <2> SUFFICES ASSUME NEW r \in 0..NumRules
               PROVE  Scores(n, findings, e)[r] = Clamp(a + RuleDeltas(e)[r])
                      /\ Scores(n, findings, e)[r] \in Score
    OBVIOUS
  <2>1. Scores(n, findings, e)[r] = Clamp(a + RuleDeltas(e)[r])
    BY <1>7
  <2>2. a + RuleDeltas(e)[r] \in Int
    BY <1>1, RuleDeltasDefined
  <2> QED BY <2>1, <2>2, ClampFacts

\* With what the engine found, the score is the clamped sum.
LEMMA ScoreIsSum ==
  ASSUME NEW n \in Score, NEW findings \in SUBSET Finding, NEW e
  PROVE  Scores(n, findings, e)[NumRules] = Clamp(n + Deltas(e, findings))
<1>1. Deltas(e, findings) =
        RuleDeltas(e)[NumRules]
        + (IF "CORR-AUTH-001" \in findings THEN Delta["CORR-AUTH-001"] ELSE 0)
        + (IF "CORR-EXEC-002" \in findings THEN Delta["CORR-EXEC-002"] ELSE 0)
  BY DEF Deltas, RuleDeltas
<1>2. /\ RuleDeltas(e)[NumRules] \in Nat /\ NumRules \in 0..NumRules
      /\ Delta["CORR-AUTH-001"] \in Nat /\ Delta["CORR-EXEC-002"] \in Nat /\ n \in Nat
  BY RuleDeltasDefined, ScoresAreNat DEF Finding
<1>3. Scores(n, findings, e)[NumRules] =
        Clamp(AfterFindings(n, findings) + RuleDeltas(e)[NumRules])
  BY <1>2, ScoresSum
<1>4. n + (IF "CORR-AUTH-001" \in findings THEN Delta["CORR-AUTH-001"] ELSE 0)
        + (IF "CORR-EXEC-002" \in findings THEN Delta["CORR-EXEC-002"] ELSE 0)
        + RuleDeltas(e)[NumRules]
      = n + Deltas(e, findings)
  BY <1>1, <1>2
<1> QED BY <1>2, <1>3, <1>4, AfterFindingsSum

\* A detection that finds nothing leaves the score alone.
LEMMA NothingFound ==
  ASSUME NEW n \in Score, NEW e, Matched(e) = {}
  PROVE  Scores(n, {}, e)[NumRules] = n
<1>1. \A r \in 0..NumRules : RuleDeltas(e)[r] = [k \in 0..NumRules |-> 0][r]
  <2> DEFINE z == [k \in 0..NumRules |-> 0]
  <2>1. RuleDeltas(e)[0] = z[0]
    BY RuleDeltasDefined
  <2>2. ASSUME NEW r \in 1..NumRules, RuleDeltas(e)[r-1] = z[r-1] PROVE RuleDeltas(e)[r] = z[r]
    <3>1. r \in Rule /\ ~Matches(r, e)
      BY DEF Matched, Rule
    <3>2. RuleDeltas(e)[r] = RuleDeltas(e)[r-1] + 0
      BY <3>1, RuleDeltasDefined
    <3> QED BY <2>2, <3>2
  <2>3. \A r \in 1..NumRules : RuleDeltas(e)[r-1] = z[r-1] => RuleDeltas(e)[r] = z[r]
    <3> HIDE DEF z
    <3> QED BY <2>2
  <2>4. NumRules \in Nat
    OBVIOUS
  <2> HIDE DEF z
  <2>5. \A r \in 0..NumRules : RuleDeltas(e)[r] = z[r]
    BY ONLY <2>1, <2>3, <2>4, Agreement
  <2> QED BY <2>5 DEF z
<1>2. NumRules \in 0..NumRules /\ RuleDeltas(e)[NumRules] = 0
  BY <1>1
<1>3. AfterFindings(n, {}) = n
  BY DEF AfterFindings
<1>4. Scores(n, {}, e)[NumRules] = Clamp(n + 0)
  BY <1>2, <1>3, ScoresSum
<1> QED BY <1>4, ClampFacts DEF Score, MaxScore

---------------------------------------------------------------------------
(* Findings *)

Engine == [buffer : SUBSET Nat, failures : [User -> SUBSET Nat], findings : SUBSET Finding]

LEMMA ProcessEventType ==
  ASSUME NEW engine \in Engine, NEW str, NEW e \in Nat, str[e] \in Shape
  PROVE  ProcessEvent(engine, str, e) \in Engine
<1>1. /\ str[e].user \in User
      /\ engine.failures \in [User -> SUBSET Nat] /\ engine.buffer \in SUBSET Nat
  BY DEF Shape, Engine
<1>2. [engine.failures EXCEPT ![str[e].user] = {}] \in [User -> SUBSET Nat]
  BY <1>1
<1>3. [engine.failures EXCEPT ![str[e].user] = engine.failures[str[e].user] \cup {e}]
        \in [User -> SUBSET Nat]
  BY <1>1
<1>4. FailuresAfter(engine, str[e], e) \in [User -> SUBSET Nat]
  <2>1. CASE str[e].auth = "failed"
    BY <1>3, <2>1 DEF FailuresAfter
  <2>2. CASE str[e].auth # "failed" /\ SuspiciousLogin(engine, str[e], e)
    BY <1>2, <2>2 DEF FailuresAfter
  <2>3. CASE str[e].auth # "failed" /\ ~SuspiciousLogin(engine, str[e], e)
    BY <1>1, <2>3 DEF FailuresAfter
  <2> QED BY <2>1, <2>2, <2>3
<1>5. Pruned(engine.buffer, e) \in SUBSET Nat
  BY <1>1 DEF Pruned
<1> QED BY <1>4, <1>5 DEF ProcessEvent, Engine

\* The engine after each point of time of the replay that Correlate makes.
Replay(events, str, e) ==
  LET replay[time \in 0..e] ==
        IF time = 0 THEN Empty
        ELSE IF time \in Replayed(events, e) \cup {e}
             THEN ProcessEvent(replay[time - 1], str, time)
             ELSE replay[time - 1]
  IN  replay

IsReplay(f, events, str, e) ==
  /\ f \in [0..e -> Engine]
  /\ f[0] = Empty
  /\ \A time \in 1..e :
       f[time] = IF time \in Replayed(events, e) \cup {e}
                 THEN ProcessEvent(f[time - 1], str, time)
                 ELSE f[time - 1]

LEMMA ReplayDefined ==
  ASSUME NEW events, NEW str, NEW e \in Nat \ {0},
         \A x \in events \cup {e} : str[x] \in Shape
  PROVE  IsReplay(Replay(events, str, e), events, str, e)
<1> DEFINE Def(f) == f = [time \in 0..e |->
                            IF time = 0 THEN Empty
                            ELSE IF time \in Replayed(events, e) \cup {e}
                                 THEN ProcessEvent(f[time - 1], str, time)
                                 ELSE f[time - 1]]
           step == [time \in 1..e |->
                      [engine \in Engine |->
                         IF time \in Replayed(events, e) \cup {e}
                         THEN ProcessEvent(engine, str, time) ELSE engine]]
<1>1. step \in Steps(e, Engine)
  <2>1. ASSUME NEW time \in 1..e, NEW engine \in Engine
        PROVE  (IF time \in Replayed(events, e) \cup {e}
                THEN ProcessEvent(engine, str, time) ELSE engine) \in Engine
    <3>1. CASE time \in Replayed(events, e) \cup {e}
      <4>1. str[time] \in Shape /\ time \in Nat
        BY <3>1 DEF Replayed
      <4> QED BY <3>1, <4>1, ProcessEventType
    <3>2. CASE time \notin Replayed(events, e) \cup {e}
      BY <3>2
    <3> QED BY <3>1, <3>2
  <2> QED BY <2>1 DEF Steps
<1>2. Empty \in Engine
  BY DEF Empty, Engine
<1>3. PICK g : Follows(g, e, Engine, Empty, step)
  <2> HIDE DEF step
  <2>1. e \in Nat
    OBVIOUS
  <2> QED BY <1>1, <1>2, <2>1, Recursion
<1>4. Def(g)
  <2>1. ASSUME NEW time \in 0..e
        PROVE  g[time] = IF time = 0 THEN Empty
                         ELSE IF time \in Replayed(events, e) \cup {e}
                              THEN ProcessEvent(g[time - 1], str, time)
                              ELSE g[time - 1]
    <3>1. CASE time = 0
      BY <1>3, <3>1 DEF Follows
    <3>2. CASE time # 0
      <4>1. time \in 1..e /\ g[time-1] \in Engine
        BY <1>3, <3>2 DEF Follows
      <4>2. g[time] = step[time][g[time-1]]
        <5> HIDE DEF step
        <5> QED BY <1>3, <4>1 DEF Follows
      <4> QED BY <3>2, <4>1, <4>2
    <3> QED BY <3>1, <3>2
  <2>2. g = [time \in 0..e |-> g[time]]
    <3> HIDE DEF step
    <3> QED BY <1>3 DEF Follows
  <2> HIDE DEF step
  <2> QED BY <2>1, <2>2
<1> DEFINE replay == Replay(events, str, e)
<1>5. Def(replay)
  <2>1. replay = CHOOSE f : Def(f)
    BY DEF Replay
  <2> HIDE DEF Def, step, replay
  <2> QED BY <1>4, <2>1
<1>6. \A time \in 0..e : replay[time] = g[time]
  <2> HIDE DEF replay, step
  <2>1. replay[0] = g[0]
    BY <1>4, <1>5
  <2>2. ASSUME NEW time \in 1..e, replay[time-1] = g[time-1] PROVE replay[time] = g[time]
    BY <1>4, <1>5, <2>2
  <2>3. \A time \in 1..e : replay[time-1] = g[time-1] => replay[time] = g[time]
    <3> HIDE DEF Def
    <3> QED BY <2>2
  <2>4. e \in Nat
    OBVIOUS
  <2> QED BY ONLY <2>1, <2>3, <2>4, Agreement
<1>7. replay = g
  <2> HIDE DEF replay, step
  <2> QED BY <1>4, <1>5, <1>6
<1>8. g \in [0..e -> Engine]
  <2> HIDE DEF step
  <2> QED BY <1>3 DEF Follows
<1>9. replay[0] = Empty /\ \A time \in 1..e :
        replay[time] = IF time \in Replayed(events, e) \cup {e}
                       THEN ProcessEvent(replay[time - 1], str, time) ELSE replay[time - 1]
  <2> HIDE DEF replay, step
  <2> QED BY <1>5
<1> HIDE DEF replay, step
<1> QED BY <1>7, <1>8, <1>9 DEF IsReplay, replay

\* The replay ends with findings.
LEMMA CorrelateType ==
  ASSUME NEW events, NEW str, NEW e \in Nat \ {0},
         \A x \in events \cup {e} : str[x] \in Shape
  PROVE  Correlate(events, str, e) \in SUBSET Finding
<1>1. Correlate(events, str, e) = Replay(events, str, e)[e].findings
  BY DEF Correlate, Replay
<1>2. Replay(events, str, e)[e] \in Engine
  BY ReplayDefined DEF IsReplay
<1> QED BY <1>1, <1>2 DEF Engine

---------------------------------------------------------------------------
(* Correlation *)

\* Nothing is left out of a replay below the limit.
LEMMA AllReplayed ==
  ASSUME NEW events \in SUBSET Nat, NEW e \in Nat,
         Cardinality({x \in events : x < e}) <= ReplayLimit
  PROVE  Replayed(events, e) = {x \in events : x < e}
<1> DEFINE seen == {x \in events : x < e}
           between(x) == {y \in events : x < y /\ y < e}
<1>1. IsFiniteSet(seen)
  <2>1. IsFiniteSet(0..e)
    BY FS_Interval
  <2>2. ASSUME NEW x \in seen PROVE x \in 0..e
    <3>1. x \in Nat /\ x < e
      OBVIOUS
    <3> QED BY <3>1
  <2> QED BY <2>1, <2>2, FS_Subset
<1>2. ReplayLimit \in Nat
  BY CorrelationAssumption DEF CorrelationAssumption
<1>3. ASSUME NEW x \in seen PROVE Cardinality(between(x)) < ReplayLimit
  <2>1. between(x) \subseteq seen \ {x}
    OBVIOUS
  <2> HIDE DEF seen, between
  <2>2. IsFiniteSet(seen \ {x}) /\ Cardinality(seen \ {x}) = Cardinality(seen) - 1
    BY <1>1, FS_RemoveElement
  <2>3. Cardinality(between(x)) <= Cardinality(seen \ {x})
    BY <2>1, <2>2, FS_Subset
  <2>4. /\ Cardinality(seen) \in Nat /\ Cardinality(seen \ {x}) \in Nat
        /\ IsFiniteSet(between(x)) /\ Cardinality(between(x)) \in Nat
    BY <1>1, <2>1, <2>2, FS_CardinalityType, FS_Subset
  <2> QED BY <1>2, <2>2, <2>3, <2>4 DEF seen
<1> QED BY <1>3 DEF Replayed

\* The events a replay takes in when it leaves none out, and its alarms.
Taken(events, e) == {x \in events : x < e} \cup {e}

Alarms(events, str, e) ==
  {t \in Taken(events, e) : "CORR-AUTH-001" \in Replay(events, str, e)[t].findings}

\* The failures up to t that no alarm has used.
Unused(R, str, A, user, t) ==
  {f \in R : /\ f <= t /\ str[f].auth = "failed" /\ str[f].user = user
             /\ \A x \in R : f < x /\ x <= t /\ str[x].user = user => x \notin A}

\* What the engine knows when it has processed the events of R up to t.
EngineFits(engine, R, str, A, t) ==
  /\ \A user \in User : engine.failures[user] = Unused(R, str, A, user, t)
  /\ engine.buffer \subseteq {x \in R : x <= t}
  /\ {x \in R : x <= t /\ x >= t - Window} \subseteq engine.buffer

\* Time passes without an event.
LEMMA EngineWaits ==
  ASSUME NEW R \in SUBSET Nat, NEW str, NEW A, NEW t \in Nat \ {0}, t \notin R,
         NEW engine, EngineFits(engine, R, str, A, t - 1)
  PROVE  EngineFits(engine, R, str, A, t)
<1>1. Window \in Nat
  BY CorrelationAssumption DEF CorrelationAssumption
<1>2. \A x \in R : x <= t <=> x <= t - 1
  OBVIOUS
<1>3. ASSUME NEW user PROVE Unused(R, str, A, user, t) = Unused(R, str, A, user, t - 1)
  BY <1>2 DEF Unused
<1>4. \A x \in R : x >= t - Window => x >= (t - 1) - Window
  BY <1>1
<1> QED BY <1>2, <1>3, <1>4 DEF EngineFits

\* The engine processes an event.
LEMMA EngineSteps ==
  ASSUME NEW R \in SUBSET Nat, NEW str, NEW A, NEW t \in R, t # 0, str[t] \in Shape,
         NEW engine \in Engine, EngineFits(engine, R, str, A, t - 1),
         t \in A <=> "CORR-AUTH-001" \in ProcessEvent(engine, str, t).findings
  PROVE  EngineFits(ProcessEvent(engine, str, t), R, str, A, t)
<1> DEFINE after == ProcessEvent(engine, str, t)
           U(user, time) == Unused(R, str, A, user, time)
<1>1. Window \in Nat
  BY CorrelationAssumption DEF CorrelationAssumption
<1>2. \A x \in R : x <= t <=> x <= t - 1 \/ x = t
  OBVIOUS
<1>3. /\ after.buffer = Pruned(engine.buffer, t)
      /\ after.failures = FailuresAfter(engine, str[t], t)
      /\ "CORR-AUTH-001" \in after.findings <=> SuspiciousLogin(engine, str[t], t)
  BY DEF ProcessEvent, Finding
<1>4. t \in A <=> SuspiciousLogin(engine, str[t], t)
  BY <1>3
<1>5. /\ engine.failures \in [User -> SUBSET Nat] /\ str[t].user \in User
      /\ \A user \in User : engine.failures[user] = U(user, t - 1)
  BY DEF Engine, Shape, EngineFits
<1>6. str[t].auth = "failed" =>
        FailuresAfter(engine, str[t], t) =
          [engine.failures EXCEPT ![str[t].user] = engine.failures[str[t].user] \cup {t}]
  <2> DEFINE added == [engine.failures EXCEPT ![str[t].user] =
                         engine.failures[str[t].user] \cup {t}]
  <2>1. FailuresAfter(engine, str[t], t) =
          CASE str[t].auth = "failed" -> added
            [] SuspiciousLogin(engine, str[t], t) ->
                 [engine.failures EXCEPT ![str[t].user] = {}]
            [] OTHER -> engine.failures
    BY DEF FailuresAfter
  <2>2. str[t].auth = "failed" => ~SuspiciousLogin(engine, str[t], t)
    BY DEF SuspiciousLogin
  <2>3. str[t].auth = "failed" => FailuresAfter(engine, str[t], t) = added
    <3> HIDE DEF added
    <3> QED BY <2>1, <2>2
  <2> QED BY <2>3
<1>7. ASSUME NEW user \in User PROVE after.failures[user] = U(user, t)
  <2> DEFINE clear(f, time) ==
               \A x \in R : f < x /\ x <= time /\ str[x].user = user => x \notin A
             fails(f) == str[f].auth = "failed" /\ str[f].user = user
  <2>1. /\ U(user, t) = {f \in R : f <= t /\ fails(f) /\ clear(f, t)}
        /\ U(user, t - 1) = {f \in R : f <= t - 1 /\ fails(f) /\ clear(f, t - 1)}
    BY DEF Unused
  <2>2. \A f \in R : clear(f, t) <=>
          clear(f, t - 1) /\ (f < t /\ str[t].user = user => t \notin A)
    BY <1>2
  <2>3. clear(t, t)
    <3>1. \A x \in R : ~(t < x /\ x <= t)
      OBVIOUS
    <3> QED BY <3>1
  <2> HIDE DEF after
  <2> HIDE DEF clear
  <2>4. CASE str[t].user # user
    <3>1. after.failures[user] = engine.failures[user]
      BY <1>3, <1>5, <2>4 DEF FailuresAfter
    <3>2. U(user, t) = U(user, t - 1)
      BY <1>2, <2>1, <2>2, <2>4
    <3> QED BY <1>5, <3>1, <3>2
  <2>5. CASE str[t].user = user /\ str[t].auth = "failed"
    <3>1. t \notin A
      BY <1>4, <2>5 DEF SuspiciousLogin
    <3>2. after.failures[user] = engine.failures[user] \cup {t}
      <4>1. after.failures = [engine.failures EXCEPT ![user] = @ \cup {t}]
        BY <1>3, <1>6, <2>5
      <4> QED BY <1>5, <4>1
    <3>3. U(user, t) = U(user, t - 1) \cup {t}
      BY <1>2, <2>1, <2>2, <2>3, <2>5, <3>1
    <3> QED BY <1>5, <3>2, <3>3
  <2>6. CASE str[t].user = user /\ SuspiciousLogin(engine, str[t], t)
    <3>1. t \in A /\ str[t].auth # "failed"
      BY <1>4, <2>6 DEF SuspiciousLogin
    <3>2. after.failures[user] = {}
      BY <1>3, <1>5, <2>6, <3>1 DEF FailuresAfter
    <3>3. \A f \in R : f <= t => f = t \/ f < t
      OBVIOUS
    <3>4. ASSUME NEW f \in R, f <= t, fails(f), clear(f, t) PROVE FALSE
      <4>1. f # t
        BY <2>6, <3>1, <3>4
      <4> QED BY <2>2, <2>6, <3>1, <3>3, <3>4, <4>1
    <3>5. U(user, t) = {}
      <4> HIDE DEF U, fails
      <4> QED BY <2>1, <3>4
    <3> QED BY <3>2, <3>5
  <2>7. CASE /\ str[t].user = user /\ str[t].auth # "failed"
             /\ ~SuspiciousLogin(engine, str[t], t)
    <3>1. t \notin A
      BY <1>4, <2>7
    <3>2. after.failures[user] = engine.failures[user]
      BY <1>3, <2>7 DEF FailuresAfter
    <3>3. U(user, t) = U(user, t - 1)
      BY <1>2, <2>1, <2>2, <2>7, <3>1
    <3> QED BY <1>5, <3>2, <3>3
  <2> QED BY <2>4, <2>5, <2>6, <2>7
<1>8. after.buffer \subseteq {x \in R : x <= t}
  BY <1>2, <1>3 DEF Pruned, EngineFits
<1>9. {x \in R : x <= t /\ x >= t - Window} \subseteq after.buffer
  <2> HIDE DEF after
  <2>1. ASSUME NEW x \in R, x <= t, x >= t - Window PROVE x \in engine.buffer \cup {t}
    <3>1. CASE x = t
      BY <3>1
    <3>2. CASE x # t
      <4>1. x \in Nat /\ t \in Nat
        OBVIOUS
      <4>2. x <= t - 1 /\ x >= (t - 1) - Window
        BY ONLY <1>1, <2>1, <3>2, <4>1
      <4> QED BY <4>2 DEF EngineFits
    <3> QED BY <3>1, <3>2
  <2> QED BY <1>3, <2>1 DEF Pruned, InWindow
<1> HIDE DEF after
<1> QED BY <1>7, <1>8, <1>9 DEF EngineFits, after

\* The engine of a complete replay fits at every time.
LEMMA ReplayFits ==
  ASSUME NEW events \in SUBSET (Nat \ {0}), NEW str, NEW e \in Nat \ {0},
         \A x \in events \cup {e} : str[x] \in Shape,
         Cardinality({x \in events : x < e}) <= ReplayLimit
  PROVE  \A t \in 0..e :
           EngineFits(Replay(events, str, e)[t], Taken(events, e), str,
                      Alarms(events, str, e), t)
<1>0. IsReplay(Replay(events, str, e), events, str, e)
  BY ReplayDefined
<1> DEFINE replay == Replay(events, str, e)
           R == Taken(events, e)
           A == Alarms(events, str, e)
           Fits(t) == EngineFits(replay[t], R, str, A, t)
           T == {t \in 0..e : ~Fits(t)}
<1>1. /\ replay \in [0..e -> Engine] /\ replay[0] = Empty
      /\ \A t \in 1..e : replay[t] = IF t \in R THEN ProcessEvent(replay[t-1], str, t)
                                     ELSE replay[t-1]
  <2>1. R = Replayed(events, e) \cup {e}
    BY AllReplayed DEF Taken
  <2>2. IsReplay(replay, events, str, e)
    BY <1>0
  <2> HIDE DEF R, replay
  <2> QED BY <2>1, <2>2 DEF IsReplay
<1>2. /\ R \in SUBSET Nat /\ 0 \notin R
      /\ \A t \in R : t \in 1..e /\ str[t] \in Shape
  <2>1. \A t \in R : t \in Nat \ {0} /\ t <= e /\ t \in events \cup {e}
    BY DEF Taken
  <2> HIDE DEF R
  <2> QED BY <2>1
<1>3. \A t \in R : t \in A <=> "CORR-AUTH-001" \in replay[t].findings
  BY DEF Alarms
<1> HIDE DEF replay, R, A
<1>4. Fits(0)
  BY <1>1, <1>2 DEF EngineFits, Empty, Unused
<1>5. ASSUME NEW t \in 1..e, Fits(t - 1) PROVE Fits(t)
  <2>1. replay[t-1] \in Engine /\ t \in Nat \ {0}
    BY <1>1
  <2>2. CASE t \in R
    <3>1. replay[t] = ProcessEvent(replay[t-1], str, t)
      BY <1>1, <2>2
    <3> QED BY <1>2, <1>3, <1>5, <2>1, <2>2, <3>1, EngineSteps
  <2>3. CASE t \notin R
    <3>1. replay[t] = replay[t-1]
      BY <1>1, <2>3
    <3> QED BY <1>2, <1>5, <2>1, <2>3, <3>1, EngineWaits
  <2> QED BY <2>2, <2>3
<1>6. ASSUME T # {} PROVE FALSE
  <2>1. PICK t \in T : \A k \in T : t <= k
    <3>1. T \in SUBSET Nat
      OBVIOUS
    <3> HIDE DEF T
    <3> QED BY <1>6, <3>1, LeastNat
  <2>2. t \in 0..e /\ ~Fits(t)
    OBVIOUS
  <2> HIDE DEF Fits
  <2>3. t # 0
    BY <1>4, <2>2
  <2>4. t \in 1..e /\ t - 1 \in 0..e /\ ~(t <= t - 1)
    BY <2>2, <2>3
  <2>5. t - 1 \notin T
    <3> HIDE DEF T
    <3> QED BY <2>1, <2>4
  <2> QED BY <1>5, <2>2, <2>4, <2>5
<1> QED BY <1>6 DEF replay, R, A

\* What an event adds to the alarms depends on the failures that the alarms
\* before it have left.
UnusedBefore(R, str, A, s) ==
  {f \in R : /\ f < s /\ f >= s - Window
             /\ str[f].auth = "failed" /\ str[f].user = str[s].user
             /\ \A x \in R : f < x /\ x < s /\ str[x].user = str[s].user => x \notin A}

\* The findings of an event from the engine before it.
LEMMA FindingsFit ==
  ASSUME NEW R \in SUBSET Nat, NEW str, NEW A, NEW s \in R, str[s] \in Shape,
         NEW engine, EngineFits(engine, R, str, A, s - 1)
  PROVE  /\ "CORR-AUTH-001" \in ProcessEvent(engine, str, s).findings <=>
              /\ str[s].auth = "succeeded"
              /\ Cardinality(UnusedBefore(R, str, A, s)) >= FailuresNeeded
         /\ "CORR-EXEC-002" \in ProcessEvent(engine, str, s).findings <=>
              /\ str[s].connects
              /\ \E x \in R : x <= s /\ x >= s - Window /\ str[x].shell
<1>1. Window \in Nat
  BY CorrelationAssumption DEF CorrelationAssumption
<1>2. \A x \in R : x <= s - 1 <=> x < s
  OBVIOUS
<1>3. RecentFailures(engine, str[s], s) = UnusedBefore(R, str, A, s)
  <2>1. engine.failures[str[s].user] = Unused(R, str, A, str[s].user, s - 1)
    BY DEF EngineFits, Shape
  <2>2. \A f \in R : f >= s - Window <=> InWindow(f, s)
    BY DEF InWindow
  <2> QED BY <1>2, <2>1, <2>2 DEF RecentFailures, Unused, UnusedBefore
<1>4. Pruned(engine.buffer, s) = {x \in R : x <= s /\ x >= s - Window}
  <2>1. \A x \in R : x <= s <=> x < s \/ x = s
    OBVIOUS
  <2>2. \A x \in R : x < s => (x >= s - Window => x >= (s - 1) - Window)
    BY <1>1
  <2>3. s >= s - Window
    BY <1>1
  <2> QED BY <1>2, <2>1, <2>2, <2>3 DEF Pruned, EngineFits, InWindow
<1>5. /\ "CORR-AUTH-001" \in ProcessEvent(engine, str, s).findings <=>
           SuspiciousLogin(engine, str[s], s)
      /\ "CORR-EXEC-002" \in ProcessEvent(engine, str, s).findings <=>
           str[s].connects /\ \E x \in Pruned(engine.buffer, s) : str[x].shell
  BY DEF ProcessEvent, Finding
<1>6. SuspiciousLogin(engine, str[s], s) <=>
        /\ str[s].auth = "succeeded"
        /\ Cardinality(UnusedBefore(R, str, A, s)) >= FailuresNeeded
  BY <1>3 DEF SuspiciousLogin
<1> QED BY <1>4, <1>5, <1>6

\* The alarms are what the reference calls suspicious: both are determined by
\* what they are before an event, and start alike.
LEMMA AlarmsAreSuspicious ==
  ASSUME NEW R \in SUBSET Nat, NEW str, NEW A, NEW e \in R,
         \A s \in R : s <= e =>
           (s \in A <=> /\ str[s].auth = "succeeded"
                        /\ Cardinality(UnusedBefore(R, str, A, s)) >= FailuresNeeded),
         A \subseteq R
  PROVE  Suspicious(R, str, e) <=> e \in A
<1> DEFINE left(f, s) ==
             {x \in R : /\ x < s /\ x >= s - Window
                        /\ str[x].auth = "failed" /\ str[x].user = str[s].user
                        /\ \A y \in R : x < y /\ y < s /\ str[y].user = str[s].user => ~f[y]}
           body(f, s) == /\ s \in R /\ str[s].auth = "succeeded"
                         /\ Cardinality(left(f, s)) >= FailuresNeeded
           Def(f) == f = [s \in 0..e |-> body(f, s)]
           alarm == [s \in 0..e |-> s \in A]
           susp == CHOOSE f : Def(f)
<1>1. Suspicious(R, str, e) = susp[e]
  BY DEF Suspicious
<1>2. ASSUME NEW f, NEW s \in 0..e, \A x \in 0..e : x < s => (f[x] <=> x \in A)
      PROVE  body(f, s) <=> s \in A
  <2>1. left(f, s) = UnusedBefore(R, str, A, s)
    <3>1. \A y \in R : y < s => (f[y] <=> y \in A)
      <4>1. \A y \in R : y < s => y \in 0..e
        OBVIOUS
      <4> QED BY <1>2, <4>1
    <3> QED BY <3>1 DEF UnusedBefore
  <2>2. s <= e
    OBVIOUS
  <2> HIDE DEF left
  <2> QED BY <2>1, <2>2
<1> HIDE DEF body
<1>3. Def(alarm)
  <2>1. \A x \in 0..e : alarm[x] <=> x \in A
    OBVIOUS
  <2>2. \A s \in 0..e : body(alarm, s) <=> s \in A
    <3> HIDE DEF alarm
    <3> QED BY <1>2, <2>1
  <2>3. \A s \in 0..e : body(alarm, s) = (s \in A)
    <3> HIDE DEF alarm
    <3>1. \A s \in 0..e : body(alarm, s) \in BOOLEAN
      BY DEF body
    <3> QED BY <2>2, <3>1
  <2>4. [s \in 0..e |-> body(alarm, s)] = [s \in 0..e |-> s \in A]
    <3> HIDE DEF alarm
    <3> QED BY <2>3
  <2> QED BY <2>4
<1>4. Def(susp)
  <2> HIDE DEF Def, alarm
  <2> QED BY <1>3
<1>5. \A s \in 0..e : susp[s] = body(susp, s)
  <2> HIDE DEF susp
  <2> QED BY <1>4
<1> DEFINE T == {s \in 0..e : ~(susp[s] <=> s \in A)}
<1> HIDE DEF susp, Def, alarm
<1>6. ASSUME T # {} PROVE FALSE
  <2>1. PICK s \in T : \A k \in T : s <= k
    <3>1. T \in SUBSET Nat
      OBVIOUS
    <3> HIDE DEF T
    <3> QED BY <1>6, <3>1, LeastNat
  <2>2. s \in 0..e /\ ~(susp[s] <=> s \in A)
    OBVIOUS
  <2>3. ASSUME NEW x \in 0..e, x < s PROVE susp[x] <=> x \in A
    <3>1. x \notin T
      <4>1. ~(s <= x)
        BY <2>2, <2>3
      <4> HIDE DEF T
      <4> QED BY <2>1, <4>1
    <3> QED BY <3>1
  <2>4. body(susp, s) <=> s \in A
    <3> HIDE DEF T
    <3> QED BY <1>2, <2>2, <2>3
  <2>5. susp[s] = body(susp, s)
    BY <1>5, <2>2
  <2> HIDE DEF T
  <2> QED BY <2>2, <2>4, <2>5
<1>7. e \in 0..e
  OBVIOUS
<1>8. susp[e] <=> e \in A
  BY <1>6, <1>7
<1> HIDE DEF T
<1> QED BY <1>1, <1>8

\* The findings of a complete replay, by the alarms of the same replay.
LEMMA AlarmsFit ==
  ASSUME NEW events \in SUBSET (Nat \ {0}), NEW str, NEW e \in Nat \ {0},
         \A x \in events \cup {e} : str[x] \in Shape,
         Cardinality({x \in events : x < e}) <= ReplayLimit
  PROVE  /\ Taken(events, e) \in SUBSET Nat /\ e \in Taken(events, e)
         /\ \A s \in Taken(events, e) :
              /\ s \in Alarms(events, str, e) <=>
                   /\ str[s].auth = "succeeded"
                   /\ Cardinality(UnusedBefore(Taken(events, e), str, Alarms(events, str, e), s))
                        >= FailuresNeeded
              /\ "CORR-EXEC-002" \in Replay(events, str, e)[s].findings <=>
                   /\ str[s].connects
                   /\ \E x \in Taken(events, e) : x <= s /\ x >= s - Window /\ str[x].shell
<1> DEFINE replay == Replay(events, str, e)
           R == Taken(events, e)
           A == Alarms(events, str, e)
<1>1. \A t \in 0..e : EngineFits(replay[t], R, str, A, t)
  BY ReplayFits
<1>2. IsReplay(replay, events, str, e)
  BY ReplayDefined
<1>3. R = Replayed(events, e) \cup {e} /\ e \in R
  BY AllReplayed DEF Taken
<1>4. ASSUME NEW s \in R
      PROVE  /\ s \in 1..e /\ s - 1 \in 0..e /\ s \in Nat /\ str[s] \in Shape
  <2>1. s \in Nat \ {0} /\ s <= e /\ s \in events \cup {e}
    BY DEF Taken
  <2> HIDE DEF R
  <2> QED BY <2>1
<1>5. \A s \in R : s \in A <=> "CORR-AUTH-001" \in replay[s].findings
  BY DEF Alarms
<1> HIDE DEF replay, R, A
<1>6. R \in SUBSET Nat
  BY <1>4
<1>7. ASSUME NEW s \in R
      PROVE  /\ s \in A <=>
                  /\ str[s].auth = "succeeded"
                  /\ Cardinality(UnusedBefore(R, str, A, s)) >= FailuresNeeded
             /\ "CORR-EXEC-002" \in replay[s].findings <=>
                  /\ str[s].connects
                  /\ \E x \in R : x <= s /\ x >= s - Window /\ str[x].shell
  <2>1. replay[s] = ProcessEvent(replay[s-1], str, s)
    BY <1>2, <1>3, <1>4 DEF IsReplay
  <2>2. EngineFits(replay[s-1], R, str, A, s - 1)
    BY <1>1, <1>4
  <2>3. s \in A <=> "CORR-AUTH-001" \in replay[s].findings
    BY <1>5
  <2> QED BY <1>4, <1>6, <2>1, <2>2, <2>3, FindingsFit
<1> QED BY <1>3, <1>6, <1>7 DEF replay, R, A

\* What Correlate returns is what is expected, up to the limit of the replay.
LEMMA CorrelateExact ==
  ASSUME NEW events \in SUBSET (Nat \ {0}), NEW str, NEW e \in Nat \ {0},
         \A x \in events \cup {e} : str[x] \in Shape,
         Cardinality({x \in events : x < e}) <= ReplayLimit
  PROVE  Correlate(events, str, e) = Expected({x \in events : x < e}, str, e)
<1> DEFINE replay == Replay(events, str, e)
           R == Taken(events, e)
           A == Alarms(events, str, e)
           seen == {x \in events : x < e}
<1>1. Correlate(events, str, e) = replay[e].findings
  BY DEF Correlate, Replay
<1>2. R = seen \cup {e} /\ A \subseteq R
  BY DEF Taken, Alarms
<1>3. /\ R \in SUBSET Nat /\ e \in R
      /\ \A s \in R :
           /\ s \in A <=> /\ str[s].auth = "succeeded"
                          /\ Cardinality(UnusedBefore(R, str, A, s)) >= FailuresNeeded
           /\ "CORR-EXEC-002" \in replay[s].findings <=>
                /\ str[s].connects
                /\ \E x \in R : x <= s /\ x >= s - Window /\ str[x].shell
  BY AlarmsFit
<1>4. \A s \in R : s \in A <=> "CORR-AUTH-001" \in replay[s].findings
  BY DEF Alarms
<1>5. Correlate(events, str, e) \in SUBSET Finding
  BY CorrelateType
<1> HIDE DEF replay, R, A, seen
<1>6. Suspicious(R, str, e) <=> e \in A
  <2>1. \A s \in R : s <= e =>
          (s \in A <=> /\ str[s].auth = "succeeded"
                       /\ Cardinality(UnusedBefore(R, str, A, s)) >= FailuresNeeded)
    BY <1>3
  <2>2. R \in SUBSET Nat /\ e \in R /\ A \subseteq R
    BY <1>2, <1>3
  <2> QED BY <2>1, <2>2, AlarmsAreSuspicious
<1>7. Expected(seen, str, e) =
         {f \in Finding :
            \/ f = "CORR-AUTH-001" /\ Suspicious(R, str, e)
            \/ f = "CORR-EXEC-002" /\ str[e].connects
                 /\ \E x \in R : x <= e /\ x >= e - Window /\ str[x].shell}
  BY <1>2 DEF Expected
<1>8. replay[e].findings = Expected(seen, str, e)
  <2>1. \A f \in Finding : f = "CORR-AUTH-001" \/ f = "CORR-EXEC-002"
    BY DEF Finding
  <2>2. "CORR-AUTH-001" \in replay[e].findings <=> Suspicious(R, str, e)
    BY <1>3, <1>4, <1>6
  <2>3. "CORR-EXEC-002" \in replay[e].findings <=>
          str[e].connects /\ \E x \in R : x <= e /\ x >= e - Window /\ str[x].shell
    BY <1>3
  <2> QED BY <1>1, <1>5, <1>7, <2>1, <2>2, <2>3
<1> QED BY <1>1, <1>8 DEF seen

\* What is suspicious of each event a replay takes in depends on what came
\* before it only.
LEMMA SuspiciousIsLocal ==
  ASSUME NEW events \in SUBSET (Nat \ {0}), NEW str, NEW e \in Nat \ {0},
         \A x \in events \cup {e} : str[x] \in Shape,
         Cardinality({x \in events : x < e}) <= ReplayLimit,
         NEW a \in Taken(events, e)
  PROVE  Suspicious({x \in Taken(events, e) : x <= a}, str, a)
           <=> a \in Alarms(events, str, e)
<1> DEFINE R == Taken(events, e)
           A == Alarms(events, str, e)
           early == {x \in R : x <= a}
           first == A \cap early
<1>1. /\ R \in SUBSET Nat /\ a \in R
      /\ \A s \in R : s \in A <=> /\ str[s].auth = "succeeded"
                                  /\ Cardinality(UnusedBefore(R, str, A, s)) >= FailuresNeeded
  BY AlarmsFit
<1> HIDE DEF R, A
<1>2. ASSUME NEW s \in early
      PROVE  UnusedBefore(early, str, first, s) = UnusedBefore(R, str, A, s)
  <2>1. /\ s \in R /\ s <= a
        /\ \A x \in R : x < s => x \in early /\ (x \in first <=> x \in A)
    BY <1>1
  <2>2. early \subseteq R
    OBVIOUS
  <2> HIDE DEF early, first
  <2> QED BY <2>1, <2>2 DEF UnusedBefore
<1>3. \A s \in early : s <= a =>
        (s \in first <=> /\ str[s].auth = "succeeded"
                         /\ Cardinality(UnusedBefore(early, str, first, s)) >= FailuresNeeded)
  BY <1>1, <1>2
<1>4. early \in SUBSET Nat /\ a \in early /\ first \subseteq early
  <2>1. a <= a
    BY <1>1
  <2> QED BY <1>1, <2>1
<1>5. a \in first <=> a \in A
  BY <1>4
<1> HIDE DEF early, first
<1>6. Suspicious(early, str, a) <=> a \in first
  BY <1>3, <1>4, AlarmsAreSuspicious
<1> QED BY <1>5, <1>6 DEF early, R, A

\* Whether a login among the events is expected to raise an alarm, and the
\* failures among them that those alarms leave to login e.
Alarmed(seen, str, a) == "CORR-AUTH-001" \in Expected({x \in seen : x < a}, str, a)

LeftTo(seen, str, e) ==
  {f \in seen :
     /\ f >= e - Window
     /\ str[f].auth = "failed" /\ str[f].user = str[e].user
     /\ \A a \in seen :
          str[a].auth = "succeeded" /\ str[a].user = str[e].user /\ Alarmed(seen, str, a)
          => a < f}

\* The alarm of a login, by those of the logins before it.
LEMMA AlarmByAlarms ==
  ASSUME NEW seen \in SUBSET (Nat \ {0}), NEW str, NEW e \in Nat \ {0},
         \A x \in seen \cup {e} : str[x] \in Shape,
         \A x \in seen : x < e,
         Cardinality(seen) <= ReplayLimit
  PROVE  "CORR-AUTH-001" \in Expected(seen, str, e) <=>
           /\ str[e].auth = "succeeded"
           /\ Cardinality(LeftTo(seen, str, e)) >= FailuresNeeded
<1> DEFINE R == Taken(seen, e)
           A == Alarms(seen, str, e)
<1>1. {x \in seen : x < e} = seen
  OBVIOUS
<1>2. R = seen \cup {e}
  BY <1>1 DEF Taken
<1>3. /\ R \in SUBSET Nat /\ e \in R
      /\ \A s \in R : s \in A <=> /\ str[s].auth = "succeeded"
                                  /\ Cardinality(UnusedBefore(R, str, A, s)) >= FailuresNeeded
  BY <1>1, AlarmsFit
<1>4. \A a \in R : Suspicious({x \in R : x <= a}, str, a) <=> a \in A
  BY <1>1, SuspiciousIsLocal
<1>5. ASSUME NEW events, NEW a
      PROVE  "CORR-AUTH-001" \in Expected(events, str, a) <=> Suspicious(events \cup {a}, str, a)
  BY DEF Expected, Finding
<1> HIDE DEF R, A
<1>6. "CORR-AUTH-001" \in Expected(seen, str, e) <=> e \in A
  <2>1. e \in Nat /\ \A x \in seen : x \in Nat /\ x < e
    OBVIOUS
  <2>2. \A x \in seen \cup {e} : x <= e
    BY <2>1
  <2>3. {x \in R : x <= e} = seen \cup {e}
    BY <1>2, <2>2
  <2>4. Suspicious(seen \cup {e}, str, e) <=> e \in A
    BY <1>3, <1>4, <2>3
  <2> QED BY <1>5, <2>4
<1>7. ASSUME NEW a \in seen PROVE Alarmed(seen, str, a) <=> a \in A
  <2>1. {x \in R : x <= a} = {x \in seen : x < a} \cup {a}
    <3>1. a \in Nat /\ ~(e <= a) /\ \A x \in seen : x \in Nat
      OBVIOUS
    <3>2. \A x \in seen : x <= a <=> x < a \/ x = a
      BY <3>1
    <3> QED BY <1>2, <3>1, <3>2
  <2>2. Suspicious({x \in seen : x < a} \cup {a}, str, a) <=> a \in A
    BY <1>2, <1>4, <2>1
  <2> QED BY <1>5, <2>2 DEF Alarmed
<1>8. LeftTo(seen, str, e) = UnusedBefore(R, str, A, e)
  <2>1. ASSUME NEW f \in seen, str[f].auth = "failed"
        PROVE  (\A a \in seen :
                  str[a].auth = "succeeded" /\ str[a].user = str[e].user /\ Alarmed(seen, str, a)
                  => a < f)
               <=> \A x \in R : f < x /\ x < e /\ str[x].user = str[e].user => x \notin A
    <3>1. ASSUME NEW a \in seen, str[a].auth = "succeeded" PROVE a < f <=> ~(f < a)
      <4>1. a # f
        BY <2>1, <3>1
      <4>2. a \in Nat /\ f \in Nat
        OBVIOUS
      <4> QED BY <4>1, <4>2
    <3>2. \A x \in R : x \in A => str[x].auth = "succeeded"
      BY <1>3
    <3>3. \A x \in R : x < e <=> x \in seen
      BY <1>2
    <3> QED BY <1>2, <1>7, <3>1, <3>2, <3>3
  <2>2. \A f \in R : f < e <=> f \in seen
    BY <1>2
  <2>3. seen \subseteq R
    BY <1>2
  <2>4. UnusedBefore(R, str, A, e) =
          {f \in seen : /\ f >= e - Window
                        /\ str[f].auth = "failed" /\ str[f].user = str[e].user
                        /\ \A x \in R : f < x /\ x < e /\ str[x].user = str[e].user => x \notin A}
    BY <2>2, <2>3 DEF UnusedBefore
  <2> QED BY <2>1, <2>4 DEF LeftTo
<1>9. e \in A <=>
        str[e].auth = "succeeded" /\ Cardinality(LeftTo(seen, str, e)) >= FailuresNeeded
  BY <1>3, <1>8
<1> QED BY <1>6, <1>9

---------------------------------------------------------------------------
(* Conditions *)

\* The trace of a node from those of its children.
NodeTrace(f, tree, data, i) ==
  IF IsTest(tree[i])
  THEN [result |-> TestHolds(tree[i], data), error |-> TestErrs(tree[i], data)]
  ELSE Grouped(tree[i].kind, {f[c] : c \in ChildrenOf(tree[i])})

\* The traces of a tree exist: those of its last nodes do, and those of a node
\* are given by those of its children, which come later.
LEMMA TracesDefined ==
  ASSUME NEW tree, NEW data, IsTree(tree)
  PROVE  \A i \in DOMAIN tree :
           Traces(tree, data)[i] = NodeTrace(Traces(tree, data), tree, data, i)
<1> DEFINE Body(f, i) == NodeTrace(f, tree, data, i)
           LastNodes(k) == {i \in DOMAIN tree : i > Len(tree) - k}
           Given(k) == \E f : f = [i \in LastNodes(k) |-> Body(f, i)]
           Def(f) == f = [i \in DOMAIN tree |-> Body(f, i)]
<1>1. Len(tree) \in Nat /\ DOMAIN tree = 1..Len(tree)
  BY DEF IsTree
<1>2. Given(0)
  <2>1. LastNodes(0) = {}
    BY <1>1
  <2>2. [i \in {} |-> 0] = [i \in {} |-> Body([j \in {} |-> 0], i)]
    OBVIOUS
  <2> HIDE DEF Body
  <2> QED BY <2>1, <2>2
<1>3. ASSUME NEW k \in 1..Len(tree), Given(k - 1) PROVE Given(k)
  <2>1. PICK f : f = [i \in LastNodes(k - 1) |-> Body(f, i)]
    BY <1>3
  <2> DEFINE top == Len(tree) - k + 1
             g == [i \in LastNodes(k) |-> IF i = top THEN Body(f, i) ELSE f[i]]
  <2>2. /\ top \in DOMAIN tree /\ k \in Nat
        /\ \A i \in LastNodes(k) : i = top \/ i \in LastNodes(k - 1)
        /\ \A i \in LastNodes(k - 1) : i \in LastNodes(k) /\ i # top
    BY <1>1
  <2>3. ASSUME NEW i \in LastNodes(k) PROVE Body(g, i) = Body(f, i)
    <3>1. ChildrenOf(tree[i]) \subseteq LastNodes(k - 1)
      <4>1. ChildrenOf(tree[i]) \subseteq (i + 1)..Len(tree)
        BY DEF IsTree
      <4> QED BY <1>1, <2>2, <4>1
    <3>2. \A c \in ChildrenOf(tree[i]) : g[c] = f[c]
      BY <2>2, <3>1
    <3>3. {g[c] : c \in ChildrenOf(tree[i])} = {f[c] : c \in ChildrenOf(tree[i])}
      <4> HIDE DEF g
      <4> QED BY <3>2
    <3> HIDE DEF g
    <3> QED BY <3>3 DEF NodeTrace
  <2>4. ASSUME NEW i \in LastNodes(k) PROVE g[i] = Body(g, i)
    <3>1. CASE i = top
      <4>1. g[i] = Body(f, i)
        <5> HIDE DEF Body
        <5> QED BY <3>1
      <4> HIDE DEF Body, g
      <4> QED BY <2>3, <4>1
    <3>2. CASE i # top
      <4>1. g[i] = f[i] /\ i \in LastNodes(k - 1)
        <5> HIDE DEF Body
        <5> QED BY <2>2, <3>2
      <4>2. f[i] = Body(f, i)
        <5> HIDE DEF Body, LastNodes
        <5> QED BY <2>1, <4>1
      <4> HIDE DEF Body, g
      <4> QED BY <2>3, <4>1, <4>2
    <3> QED BY <3>1, <3>2
  <2>5. g = [i \in LastNodes(k) |-> g[i]]
    <3> HIDE DEF Body, LastNodes
    <3> QED OBVIOUS
  <2> HIDE DEF Body, LastNodes, g
  <2> QED BY <2>4, <2>5
<1>4. Given(Len(tree))
  <2> DEFINE T == {k \in 0..Len(tree) : ~Given(k)}
  <2>1. ASSUME T # {} PROVE FALSE
    <3>1. PICK k \in T : \A j \in T : k <= j
      <4>1. T \in SUBSET Nat
        BY <1>1
      <4> HIDE DEF T
      <4> QED BY <2>1, <4>1, LeastNat
    <3> HIDE DEF Given
    <3>2. k \in 0..Len(tree) /\ ~Given(k)
      OBVIOUS
    <3>3. k # 0
      BY <1>2, <3>2
    <3>4. k \in 1..Len(tree) /\ k - 1 \in 0..Len(tree) /\ ~(k <= k - 1)
      BY <1>1, <3>2, <3>3
    <3>5. k - 1 \notin T
      <4> HIDE DEF T
      <4> QED BY <3>1, <3>4
    <3> QED BY <1>3, <3>2, <3>4, <3>5
  <2> HIDE DEF Given
  <2>2. Len(tree) \in 0..Len(tree)
    BY <1>1
  <2> QED BY <2>1, <2>2
<1>5. \E f : Def(f)
  <2>1. LastNodes(Len(tree)) = DOMAIN tree
    BY <1>1
  <2> HIDE DEF Body, LastNodes
  <2> QED BY <1>4, <2>1
<1>6. Traces(tree, data) = CHOOSE f : Def(f)
  BY DEF Traces, NodeTrace
<1>7. Def(Traces(tree, data))
  <2> HIDE DEF Def
  <2> QED BY <1>5, <1>6
<1> HIDE DEF Body
<1> QED BY <1>7 DEF Body

\* An error anywhere in a tree reaches its root.
LEMMA ErrorsReachRoot ==
  ASSUME NEW tree, NEW data, IsTree(tree), Failed(tree, data) # {}
  PROVE  Traces(tree, data)[1].error
<1> DEFINE trace == Traces(tree, data)
           T == {i \in DOMAIN tree : trace[i].error}
<1>1. /\ Len(tree) \in Nat /\ DOMAIN tree = 1..Len(tree)
      /\ \A i \in DOMAIN tree \ {1} : \E p \in 1..(i-1) : i \in ChildrenOf(tree[p])
  BY DEF IsTree
<1>trace. \A i \in DOMAIN tree : trace[i] = NodeTrace(trace, tree, data, i)
  BY TracesDefined
<1>2. T # {}
  <2>1. PICK i \in DOMAIN tree : IsTest(tree[i]) /\ TestErrs(tree[i], data)
    BY DEF Failed
  <2>2. trace[i] = [result |-> TestHolds(tree[i], data), error |-> TestErrs(tree[i], data)]
    BY <1>trace, <2>1 DEF NodeTrace
  <2> QED BY <2>1, <2>2
<1>3. PICK i \in T : \A j \in T : i <= j
  <2>1. T \in SUBSET Nat
    BY <1>1
  <2> HIDE DEF T
  <2> QED BY <1>2, <2>1, LeastNat
<1>4. i \in DOMAIN tree /\ trace[i].error
  OBVIOUS
<1>5. ASSUME i # 1 PROVE FALSE
  <2>1. PICK p \in 1..(i-1) : i \in ChildrenOf(tree[p])
    BY <1>1, <1>4, <1>5
  <2>2. p \in DOMAIN tree /\ ~(i <= p)
    BY <1>1, <1>4
  <2>3. ~IsTest(tree[p])
    BY <2>1 DEF ChildrenOf
  <2> DEFINE results == {trace[c] : c \in ChildrenOf(tree[p])}
  <2>4. trace[p] = Grouped(tree[p].kind, results)
    BY <1>trace, <2>2, <2>3 DEF NodeTrace
  <2>5. trace[i] \in results
    BY <2>1
  <2>6. Grouped(tree[p].kind, results).error = (\E x \in results : x.error)
    BY DEF Grouped
  <2>7. trace[p].error
    <3> HIDE DEF trace, results
    <3> QED BY <1>4, <2>4, <2>5, <2>6
  <2>8. p \in T
    BY <2>2, <2>7
  <2> HIDE DEF T
  <2> QED BY <1>3, <2>2, <2>8
<1> QED BY <1>4, <1>5

\* A rule that matches has evaluated all its tests.
LEMMA MatchIsComplete ==
  ASSUME NEW e \in Event, NEW r \in Rule, stream[e] \in Shape, Matches(r, e)
  PROVE  Failed(Rules[r].condition, stream[e].data) = {}
<1>1. stream[e].data \in Data
  BY DEF Shape
<1>2. Outcome(Rules[r].condition, stream[e].data) = "MATCH"
  BY <1>1 DEF Matches, Outcomes
<1>3. ~Traces(Rules[r].condition, stream[e].data)[1].error
  BY <1>2 DEF Outcome
<1>4. IsTree(Rules[r].condition)
  BY PipelineAssumption DEF PipelineAssumption
<1> QED BY <1>3, <1>4, ErrorsReachRoot

---------------------------------------------------------------------------
(* Policies *)

\* Among the policies that are triggered one comes first.
LEMMA SelectedFirst ==
  ASSUME NEW r, NEW risk
  PROVE  /\ Selected(r, risk) \in Policy \cup {None}
         /\ Selected(r, risk) # None => Selected(r, risk) \in Candidates(r, risk)
<1> DEFINE C == Candidates(r, risk)
<1>1. CASE C = {}
  BY <1>1 DEF Selected
<1>2. CASE C # {}
  <2>1. C \in SUBSET Policy /\ \A p \in C : p \in Nat /\ Policies[p].priority \in Nat
    BY DEF Candidates, Policy, PolicyEntry
  <2> HIDE DEF C
  <2> DEFINE Levels == {Policies[p].priority : p \in C}
             Least(n) == {p \in C : Policies[p].priority = n}
  <2>2. PICK n \in Levels : \A k \in Levels : n <= k
    <3>1. Levels \in SUBSET Nat /\ Levels # {}
      BY <1>2, <2>1
    <3> HIDE DEF Levels
    <3> QED BY <3>1, LeastNat
  <2>3. PICK p \in Least(n) : \A q \in Least(n) : p <= q
    <3>1. Least(n) \in SUBSET Nat /\ Least(n) # {}
      BY <2>1
    <3> HIDE DEF Least
    <3> QED BY <3>1, LeastNat
  <2>4. \A q \in C \ {p} : Precedes(p, q)
    <3> SUFFICES ASSUME NEW q \in C \ {p} PROVE Precedes(p, q)
      OBVIOUS
    <3>1. n <= Policies[q].priority /\ Policies[p].priority = n /\ n \in Nat
      BY <2>1, <2>2, <2>3
    <3>2. Policies[q].priority = n => p <= q
      BY <2>3
    <3> QED BY <2>1, <3>1, <3>2 DEF Precedes
  <2>5. \E x \in C : \A q \in C \ {x} : Precedes(x, q)
    BY <2>3, <2>4
  <2>6. Selected(r, risk) \in C
    <3>1. Selected(r, risk) = CHOOSE x \in C : \A q \in C \ {x} : Precedes(x, q)
      BY <1>2 DEF Selected, C
    <3> QED BY <2>5, <3>1
  <2> QED BY <2>1, <2>6 DEF C
<1> QED BY <1>1, <1>2

---------------------------------------------------------------------------
(* The invariant *)

\* What is in hand or completed occurs in the stream.
Occurs ==
  /\ \A e \in completed : stream[e] # None
  /\ \A w \in Worker : hand[w] # None => stream[hand[w].event] # None

\* What the decay has taken up to its latest entry.
DecayFits ==
  /\ raisedAt <= scoredAt
  /\ raisedTo - score <= (scoredAt - raisedAt) \div TicksPerPoint

IInv == TypeOK /\ Occurs /\ OneCommandPerIncident /\ DecayFits /\ ErrorNeverMatches

\* Whole points of two stretches of time are not more than those of both.
LEMMA WholePoints ==
  ASSUME NEW m \in Nat, NEW n \in Nat
  PROVE  /\ m \div TicksPerPoint \in Nat
         /\ m \div TicksPerPoint + n \div TicksPerPoint <= (m + n) \div TicksPerPoint
         /\ m \div TicksPerPoint <= (m + n) \div TicksPerPoint
         /\ 0 \div TicksPerPoint = 0
OBVIOUS

LEMMA StreamType == TypeOK => stream \in [Event -> Shape \cup {None}]
BY PipelineAssumption DEF PipelineAssumption, TypeOK

LEMMA InitInv == Init => IInv
<1> SUFFICES ASSUME Init PROVE IInv
  OBVIOUS
<1>1. TypeOK
  BY DEF Init, TypeOK, Score, MaxScore
<1>2. Occurs /\ OneCommandPerIncident /\ ErrorNeverMatches
  BY DEF Init, Occurs, OneCommandPerIncident, ErrorNeverMatches
<1>3. DecayFits
  BY WholePoints DEF Init, DecayFits
<1> QED BY <1>1, <1>2, <1>3 DEF IInv

LEMMA PreflightInv == ASSUME IInv, NEW w \in Worker, NEW e \in Event, Preflight(w, e) PROVE IInv'
<1> DEFINE found == Correlate(completed, stream, e)
           h == [event |-> e, risk |-> score, seen |-> {x \in completed : x < e},
                 findings |-> found]
<1>1. \A x \in completed \cup {e} : stream[x] \in Shape
  <2>1. stream \in [Event -> Shape \cup {None}]
    BY StreamType DEF IInv
  <2> QED BY <2>1 DEF IInv, TypeOK, Occurs, Preflight
<1>2. found \in SUBSET Finding
  <2>1. e \in Nat \ {0}
    OBVIOUS
  <2> QED BY <1>1, <2>1, CorrelateType
<1>3. h \in Hand
  <2> HIDE DEF found
  <2> QED BY <1>2 DEF IInv, TypeOK, Hand
<1>4. hand' = [hand EXCEPT ![w] = h]
  BY DEF Preflight
<1> HIDE DEF h
<1>5. TypeOK'
  <2>1. hand' \in [Worker -> Hand \cup {None}]
    BY <1>3, <1>4 DEF IInv, TypeOK
  <2> QED BY <2>1 DEF IInv, TypeOK, Preflight
<1>6. Occurs'
  <2>1. h.event = e
    BY DEF h
  <2> QED BY <1>4, <2>1 DEF IInv, TypeOK, Occurs, Preflight
<1>7. OneCommandPerIncident' /\ DecayFits' /\ ErrorNeverMatches'
  BY DEF IInv, OneCommandPerIncident, DecayFits, ErrorNeverMatches, Preflight
<1> QED BY <1>5, <1>6, <1>7 DEF IInv

LEMMA DiscardInv == ASSUME IInv, NEW w \in Worker, Discard(w) PROVE IInv'
<1>1. TypeOK' /\ Occurs'
  BY DEF IInv, TypeOK, Occurs, Discard
<1>2. OneCommandPerIncident' /\ DecayFits' /\ ErrorNeverMatches'
  BY DEF IInv, OneCommandPerIncident, DecayFits, ErrorNeverMatches, Discard
<1> QED BY <1>1, <1>2 DEF IInv

LEMMA PublishInv == ASSUME IInv, NEW w \in Worker, Publish(w) PROVE IInv'
<1>1. TypeOK' /\ Occurs'
  BY DEF IInv, TypeOK, Occurs, Publish
<1>2. OneCommandPerIncident' /\ DecayFits' /\ ErrorNeverMatches'
  BY DEF IInv, OneCommandPerIncident, DecayFits, ErrorNeverMatches, Publish
<1> QED BY <1>1, <1>2 DEF IInv

LEMMA FailInv == ASSUME IInv, NEW w \in Worker, Fail(w) PROVE IInv'
<1>1. completed' \subseteq completed /\ overwrites' \in 0..MaxOverwrites
  BY DEF IInv, TypeOK, Fail
<1>2. hand' \in [Worker -> Hand \cup {None}] /\ publishing' \in [Worker -> Event \cup {None}]
  BY DEF IInv, TypeOK, Fail
<1>3. TypeOK'
  BY <1>1, <1>2 DEF IInv, TypeOK, Fail
<1>4. Occurs'
  BY <1>1 DEF IInv, TypeOK, Occurs, Fail
<1>5. OneCommandPerIncident' /\ DecayFits' /\ ErrorNeverMatches'
  BY DEF IInv, OneCommandPerIncident, DecayFits, ErrorNeverMatches, Fail
<1> QED BY <1>3, <1>4, <1>5 DEF IInv

LEMMA DecayInv == ASSUME IInv, Decay PROVE IInv'
<1>1. /\ score \in Nat /\ score <= MaxScore /\ clock - scoredAt \in Nat
      /\ scoredAt - raisedAt \in Nat /\ raisedTo \in Nat
      /\ clock \in Nat /\ scoredAt \in Nat /\ raisedAt \in Nat
  BY DEF IInv, TypeOK, DecayFits, Score, MaxScore
<1> DEFINE points == (clock - scoredAt) \div TicksPerPoint
<1>2. points \in Nat
  BY <1>1, WholePoints
<1>3. Decrement \in Nat /\ Decrement <= score /\ Decrement <= points
  BY <1>1, <1>2 DEF Decrement, Smaller
<1>4. score' \in Score
  <2>1. score' = score - Decrement
    BY DEF Decay
  <2> QED BY <1>1, <1>3, <2>1 DEF Score, MaxScore
<1>5. TypeOK'
  BY <1>1, <1>4 DEF IInv, TypeOK, Decay
<1>6. Occurs' /\ OneCommandPerIncident' /\ ErrorNeverMatches'
  BY DEF IInv, Occurs, OneCommandPerIncident, ErrorNeverMatches, Decay
<1>7. DecayFits'
  <2>1. (scoredAt - raisedAt) \div TicksPerPoint + points <= (clock - raisedAt) \div TicksPerPoint
    <3>1. (scoredAt - raisedAt) + (clock - scoredAt) = clock - raisedAt
      BY <1>1
    <3> QED BY <1>1, <3>1, WholePoints
  <2>2. /\ (scoredAt - raisedAt) \div TicksPerPoint \in Nat
        /\ (clock - raisedAt) \div TicksPerPoint \in Nat
    <3>1. clock - raisedAt \in Nat
      BY <1>1
    <3> QED BY <1>1, <3>1, WholePoints
  <2>3. raisedTo - score <= (scoredAt - raisedAt) \div TicksPerPoint
    BY DEF IInv, DecayFits
  <2> DEFINE before == (scoredAt - raisedAt) \div TicksPerPoint
             after == (clock - raisedAt) \div TicksPerPoint
  <2>4. raisedTo - (score - Decrement) <= after
    <3> HIDE DEF before, after, points
    <3>1. /\ before \in Nat /\ after \in Nat
          /\ before + points <= after /\ raisedTo - score <= before
      BY <2>1, <2>2, <2>3 DEF before, after, points
    <3> QED BY <1>1, <1>2, <1>3, <3>1
  <2> QED BY <1>1, <2>4 DEF DecayFits, Decay
<1> QED BY <1>5, <1>6, <1>7 DEF IInv

LEMMA TickInv == ASSUME IInv, Tick PROVE IInv'
<1>1. TypeOK'
  BY DEF IInv, TypeOK, Tick
<1>2. Occurs' /\ OneCommandPerIncident' /\ DecayFits' /\ ErrorNeverMatches'
  BY DEF IInv, Occurs, OneCommandPerIncident, DecayFits, ErrorNeverMatches, Tick
<1> QED BY <1>1, <1>2 DEF IInv

LEMMA StutterInv == ASSUME IInv, UNCHANGED vars PROVE IInv'
<1>1. TypeOK' /\ Occurs'
  BY DEF IInv, TypeOK, Occurs, vars
<1>2. OneCommandPerIncident' /\ DecayFits' /\ ErrorNeverMatches'
  BY DEF IInv, OneCommandPerIncident, DecayFits, ErrorNeverMatches, vars
<1> QED BY <1>1, <1>2 DEF IInv

---------------------------------------------------------------------------
(* The detection transaction *)

\* The score it leaves, and when the score counts as raised.
LEMMA DetectScore ==
  ASSUME IInv, NEW w \in Worker, NEW built, Detect(w, built)
  PROVE  /\ hand[w] \in Hand /\ stream[hand[w].event] \in Shape
         /\ score' = Clamp(score + Deltas(hand[w].event, hand[w].findings))
         /\ score' \in Score
         /\ \/ scoredAt' = clock /\ raisedTo' = score' /\ raisedAt' = clock
            \/ score' = score /\ UNCHANGED <<scoredAt, raisedTo, raisedAt>>
<1> DEFINE e == hand[w].event
           after == Scores(RiskBefore(w), hand[w].findings, e)
<1>1. hand[w] \in Hand /\ stream[e] \in Shape /\ hand[w].findings \in SUBSET Finding
  <2>1. hand[w] \in Hand
    BY DEF IInv, TypeOK, Detect
  <2>2. stream \in [Event -> Shape \cup {None}]
    BY StreamType DEF IInv
  <2>3. hand[w].event \in Event /\ hand[w].findings \in SUBSET Finding
    BY <2>1 DEF Hand
  <2> QED BY <2>1, <2>2, <2>3 DEF IInv, Occurs, Detect
<1>2. score \in Score
  BY DEF IInv, TypeOK
<1>3. score' = after[NumRules]
  BY DEF Detect
<1>4. after = Scores(score, hand[w].findings, e)
  BY DEF RiskBefore
<1>5. score' = Clamp(score + Deltas(e, hand[w].findings)) /\ score' \in Score
  <2> HIDE DEF e, after
  <2>1. after[NumRules] = Clamp(score + Deltas(e, hand[w].findings))
    BY <1>1, <1>2, <1>4, ScoreIsSum
  <2>2. after[NumRules] \in Score
    BY <1>1, <1>2, <1>4, ScoresSum, ScoresAreNat
  <2> QED BY <1>3, <2>1, <2>2
<1>6. CASE hand[w].findings # {} \/ Matched(e) # {}
  <2>1. scoredAt' = clock /\ raisedTo' = score' /\ raisedAt' = clock
    BY <1>6 DEF Detect
  <2> QED BY <1>1, <1>5, <2>1
<1>7. CASE hand[w].findings = {} /\ Matched(e) = {}
  <2>1. UNCHANGED <<scoredAt, raisedTo, raisedAt>>
    BY <1>7 DEF Detect
  <2>2. score' = score
    BY <1>2, <1>3, <1>4, <1>7, NothingFound
  <2> QED BY <1>1, <1>5, <2>1, <2>2
<1> QED BY <1>6, <1>7

\* The incident of a match, and when it asks for a command.
LEMMA IncidentFacts ==
  ASSUME NEW e \in Event, NEW r \in Rule, NEW risk \in Score, NEW built
  PROVE  /\ IncidentOf(e, r, risk, built) \in Incident
         /\ IncidentOf(e, r, risk, built).response = "QUEUED" =>
              /\ incidents[e][r] = None
              /\ IncidentOf(e, r, risk, built).policy \in Policy
              /\ Policies[IncidentOf(e, r, risk, built).policy].enforce
<1> DEFINE p == Selected(r, risk)
           again == incidents[e][r] # None
<1>1. p \in Policy \cup {None} /\ TrustScore(risk) \in Score
  <2>1. risk \in Nat
    BY ScoresAreNat
  <2>2. 100 - risk \in Int
    BY <2>1
  <2> QED BY <2>2, SelectedFirst, ClampFacts DEF TrustScore
<1>2. ASSUME p \in Policy
      PROVE  Policies[p].enforce \in BOOLEAN /\ Dispatched(p, e, built) \in Response
  BY <1>2 DEF PolicyEntry, Dispatched, Response
<1>3. ResponseOf(p, e, again, built) \in Response
  <2>1. CASE p = None
    BY <2>1 DEF ResponseOf, Response
  <2>2. CASE p # None /\ ~Policies[p].enforce
    BY <2>2 DEF ResponseOf, Response
  <2>3. CASE p # None /\ Policies[p].enforce
    <3> HIDE DEF p
    <3> QED BY <1>1, <1>2, <2>3 DEF ResponseOf, Response
  <2> QED BY <1>1, <2>1, <2>2, <2>3
<1>4. ASSUME ResponseOf(p, e, again, built) = "QUEUED"
      PROVE  p # None /\ Policies[p].enforce /\ ~again
  <2>1. p # None
    BY <1>4 DEF ResponseOf
  <2>2. Policies[p].enforce
    BY <1>4, <2>1 DEF ResponseOf
  <2>3. ~again
    <3> HIDE DEF again, p
    <3> QED BY <1>4, <2>1, <2>2 DEF ResponseOf
  <2> QED BY <2>1, <2>2, <2>3
<1>5. IncidentOf(e, r, risk, built) =
        [risk |-> risk, trust |-> TrustScore(risk), policy |-> p,
         response |-> ResponseOf(p, e, again, built)]
  BY DEF IncidentOf
<1> HIDE DEF p, again
<1>6. IncidentOf(e, r, risk, built) \in Incident
  BY <1>1, <1>3, <1>5 DEF Incident
<1> QED BY <1>1, <1>4, <1>5, <1>6 DEF again

LEMMA DetectInv ==
  ASSUME IInv, NEW w \in Worker, NEW built, Detect(w, built)
  PROVE  IInv'
<1> DEFINE e == hand[w].event
           after == Scores(RiskBefore(w), hand[w].findings, e)
           found == [r \in Rule |-> IF r \in Matched(e) THEN IncidentOf(e, r, after[r], built)
                                    ELSE incidents[e][r]]
           Queued == {r \in Matched(e) : found[r].response = "QUEUED"}
           command(r) == [event |-> e, rule |-> r, policy |-> found[r].policy]
<1>1. e \in Event /\ stream[e] # None /\ hand[w].findings \in SUBSET Finding
  BY DetectScore DEF IInv, Occurs, Detect, Hand
<1>2. incidents \in [Event -> [Rule -> Incident \cup {None}]] /\ score \in Score
  BY DEF IInv, TypeOK
<1>3. \A r \in Rule : after[r] \in Score
  <2>1. \A r \in Rule : r \in 0..NumRules
    BY DEF Rule
  <2> QED BY <1>1, <1>2, <2>1, ScoresSum DEF RiskBefore
<1>4. ASSUME NEW r \in Rule
      PROVE  /\ found[r] \in Incident \cup {None}
             /\ r \in Matched(e) => found[r] = IncidentOf(e, r, after[r], built)
             /\ r \in Matched(e) => found[r] \in Incident
             /\ r \notin Matched(e) => found[r] = incidents[e][r]
             /\ r \in Queued => /\ incidents[e][r] = None
                                /\ found[r].policy \in Policy
                                /\ Policies[found[r].policy].enforce
  <2> HIDE DEF after, e
  <2>1. IncidentOf(e, r, after[r], built) \in Incident
    BY <1>1, <1>3, IncidentFacts
  <2>2. IncidentOf(e, r, after[r], built).response = "QUEUED" =>
          /\ incidents[e][r] = None
          /\ IncidentOf(e, r, after[r], built).policy \in Policy
          /\ Policies[IncidentOf(e, r, after[r], built).policy].enforce
    BY <1>1, <1>3, IncidentFacts
  <2>3. found[r] = IF r \in Matched(e) THEN IncidentOf(e, r, after[r], built)
                   ELSE incidents[e][r]
    OBVIOUS
  <2>4. r \in Queued => r \in Matched(e) /\ found[r].response = "QUEUED"
    OBVIOUS
  <2> HIDE DEF found, Queued
  <2>5. incidents[e][r] \in Incident \cup {None}
    <3>1. incidents[e] \in [Rule -> Incident \cup {None}]
      BY <1>1, <1>2
    <3> QED BY <3>1
  <2>6. CASE r \in Matched(e)
    <3>1. found[r] = IncidentOf(e, r, after[r], built)
      BY <2>3, <2>6
    <3>2. found[r] \in Incident
      BY <3>1, <2>1
    <3> QED BY <3>1, <3>2, <2>2, <2>4, <2>6
  <2>7. CASE r \notin Matched(e)
    BY <2>3, <2>4, <2>5, <2>7
  <2> QED BY <2>6, <2>7
<1>5. /\ incidents' = [incidents EXCEPT ![e] = found]
      /\ incidents'[e] = found
      /\ found \in [Rule -> Incident \cup {None}]
  <2>1. incidents' = [incidents EXCEPT ![e] = found]
    BY DEF Detect
  <2>2. found = [r \in Rule |-> found[r]]
    OBVIOUS
  <2> HIDE DEF found, e
  <2> QED BY <1>1, <1>2, <1>4, <2>1, <2>2
<1>6. commands' = commands \cup {command(r) : r \in Queued}
  <2>1. commands' = commands \cup
          {[event |-> e, rule |-> r, policy |-> incidents'[e][r].policy] :
             r \in {x \in Matched(e) : incidents'[e][x].response = "QUEUED"}}
    BY DEF Detect
  <2> HIDE DEF found, e
  <2> QED BY <1>5, <2>1
<1>7. \A r \in Queued : r \in Rule
  BY DEF Matched
<1>8. /\ completed' = completed \cup {e}
      /\ hand' = [hand EXCEPT ![w] = None] /\ publishing' = [publishing EXCEPT ![w] = e]
      /\ UNCHANGED <<stream, enforcing, clock, overwrites>>
  BY DEF Detect
<1>9. /\ score' \in Score
      /\ \/ scoredAt' = clock /\ raisedTo' = score' /\ raisedAt' = clock
         \/ score' = score /\ UNCHANGED <<scoredAt, raisedTo, raisedAt>>
  BY DetectScore
<1> HIDE DEF e, found, Queued, after
<1>10. TypeOK'
  <2>1. commands' \subseteq Command
    <3>1. \A r \in Queued : command(r) \in Command
      BY <1>1, <1>4, <1>7 DEF Command
    <3> QED BY <1>6, <3>1 DEF IInv, TypeOK
  <2>2. incidents' \in [Event -> [Rule -> Incident \cup {None}]]
    BY <1>1, <1>2, <1>5
  <2>3. /\ completed' \subseteq Event /\ hand' \in [Worker -> Hand \cup {None}]
        /\ publishing' \in [Worker -> Event \cup {None}]
    BY <1>1, <1>8 DEF IInv, TypeOK
  <2>4. scoredAt' \in 0..clock' /\ raisedAt' \in 0..clock' /\ raisedTo' \in Score
    BY <1>8, <1>9 DEF IInv, TypeOK
  <2>5. logins' \in [Event -> Login \cup {None}]
    <3>1. [seen |-> hand[w].seen, alarm |-> "CORR-AUTH-001" \in hand[w].findings] \in Login
      BY DetectScore DEF Hand, Login
    <3> QED BY <1>1, <3>1 DEF IInv, TypeOK, Detect, e
  <2> QED BY <1>8, <1>9, <2>1, <2>2, <2>3, <2>4, <2>5 DEF IInv, TypeOK
<1>11. Occurs'
  <2>1. \A x \in Worker : hand'[x] # None => hand[x] # None /\ hand'[x] = hand[x]
    BY <1>8 DEF IInv, TypeOK
  <2> QED BY <1>1, <1>8, <2>1 DEF IInv, Occurs
<1>12. OneCommandPerIncident'
  <2>1. ASSUME NEW c \in commands
        PROVE  /\ incidents[c.event][c.rule] # None /\ Policies[c.policy].enforce
               /\ incidents'[c.event][c.rule] # None
               /\ c.event = e => c.rule \notin Queued
    <3>1. incidents[c.event][c.rule] # None /\ Policies[c.policy].enforce
      BY DEF IInv, OneCommandPerIncident
    <3>2. c.event \in Event /\ c.rule \in Rule
      BY DEF IInv, TypeOK, Command
    <3>3. c.event = e => c.rule \notin Queued
      BY <1>4, <3>1, <3>2
    <3>4. incidents'[c.event][c.rule] # None
      <4>1. CASE c.event = e
        <5>1. found[c.rule] \in Incident \/ found[c.rule] = incidents[e][c.rule]
          BY <1>4, <3>2
        <5> QED BY <1>5, <3>1, <4>1, <5>1
      <4>2. CASE c.event # e
        BY <1>2, <1>5, <3>1, <3>2, <4>2
      <4> QED BY <4>1, <4>2
    <3> QED BY <3>1, <3>3, <3>4
  <2>2. ASSUME NEW r \in Queued
        PROVE  /\ incidents'[command(r).event][command(r).rule] # None
               /\ Policies[command(r).policy].enforce
    <3>1. r \in Rule /\ r \in Matched(e)
      BY <1>7 DEF Queued
    <3>2. found[r] \in Incident /\ Policies[found[r].policy].enforce
      BY <1>4, <3>1
    <3> QED BY <1>5, <3>2
  <2>3. ASSUME NEW c \in commands', NEW d \in commands', c.event = d.event, c.rule = d.rule
        PROVE  c = d
    <3>1. CASE c \in commands /\ d \in commands
      BY <2>3, <3>1 DEF IInv, OneCommandPerIncident
    <3>2. CASE c \notin commands /\ d \notin commands
      BY <1>6, <2>3, <3>2
    <3>3. CASE (c \in commands) # (d \in commands)
      BY <1>6, <2>1, <2>3, <3>3
    <3> QED BY <3>1, <3>2, <3>3
  <2>4. ASSUME NEW c \in commands'
        PROVE  incidents'[c.event][c.rule] # None /\ Policies[c.policy].enforce
    BY <1>6, <2>1, <2>2
  <2> QED BY <2>3, <2>4 DEF OneCommandPerIncident
<1>13. DecayFits'
  <2>1. CASE scoredAt' = clock /\ raisedTo' = score' /\ raisedAt' = clock
    <3>1. score' \in Nat /\ clock \in Nat
      BY <1>9, ScoresAreNat DEF IInv, TypeOK
    <3>2. \A n \in Nat : n - n = 0
      OBVIOUS
    <3>3. 0 \div TicksPerPoint = 0
      BY WholePoints
    <3>4. raisedTo' - score' = 0
      BY <2>1, <3>1, <3>2
    <3>5. raisedAt' = scoredAt' /\ scoredAt' \in Nat
      BY <2>1, <3>1
    <3>6. scoredAt' - raisedAt' = 0
      BY <3>2, <3>5
    <3> QED BY <3>3, <3>4, <3>5, <3>6 DEF DecayFits
  <2>2. CASE score' = score /\ UNCHANGED <<scoredAt, raisedTo, raisedAt>>
    BY <2>2 DEF IInv, DecayFits
  <2> QED BY <1>9, <2>1, <2>2
<1>14. ErrorNeverMatches'
  <2> SUFFICES ASSUME NEW x \in Event, NEW r \in Rule, incidents'[x][r] # None
               PROVE  Failed(Rules[r].condition, stream[x].data) = {}
    BY <1>8 DEF ErrorNeverMatches
  <2>1. CASE x = e /\ r \in Matched(e)
    <3>1. stream[e] \in Shape /\ Matches(r, e)
      BY <2>1, DetectScore DEF Matched, e
    <3> QED BY <1>1, <2>1, <3>1, MatchIsComplete
  <2>2. CASE ~(x = e /\ r \in Matched(e))
    <3>1. incidents'[x][r] = incidents[x][r]
      BY <1>1, <1>2, <1>4, <1>5, <2>2
    <3> QED BY <3>1 DEF IInv, ErrorNeverMatches
  <2> QED BY <2>1, <2>2
<1> QED BY <1>10, <1>11, <1>12, <1>13, <1>14 DEF IInv

LEMMA NextInv == IInv /\ [Next]_vars => IInv'
<1> SUFFICES ASSUME IInv, [Next]_vars PROVE IInv'
  OBVIOUS
<1>1. CASE \E w \in Worker : Work(w)
  BY <1>1, PreflightInv, DiscardInv, PublishInv, FailInv, DetectInv DEF Work
<1>2. CASE Decay
  BY <1>2, DecayInv
<1>3. CASE Tick
  BY <1>3, TickInv
<1>4. CASE UNCHANGED vars
  BY <1>4, StutterInv
<1> QED BY <1>1, <1>2, <1>3, <1>4 DEF Next

---------------------------------------------------------------------------
\* The inductive invariant holds in every reachable state.
THEOREM Invariant == Spec => []IInv
BY InitInv, NextInv, PTL DEF Spec

\* Type correctness; apply_delta keeps the risk between 0 and 100, and every
\* incident names a policy of the table.
THEOREM TypeCorrect == Spec => []TypeOK
<1>1. IInv => TypeOK
  BY DEF IInv
<1> QED BY <1>1, Invariant, PTL

\* process builds at most one command for an event and a rule, however often a
\* failure makes it detect the event again.
THEOREM CommandsAreUnique == Spec => []OneCommandPerIncident
<1>1. IInv => OneCommandPerIncident
  BY DEF IInv
<1> QED BY <1>1, Invariant, PTL

\* A test whose evaluation failed never contributes to an incident, whatever
\* groups of ConditionEvaluator it is nested in.
THEOREM ErrorsNeverMatch == Spec => []ErrorNeverMatches
<1>1. IInv => ErrorNeverMatches
  BY DEF IInv
<1> QED BY <1>1, Invariant, PTL

\* The decay of BackgroundWorker.tick takes no more than the rate allows since
\* the latest detection.
THEOREM DecayBounded == Spec => []DecayWithinRate
<1>1. IInv => DecayWithinRate
  <2> SUFFICES ASSUME IInv PROVE DecayWithinRate
    OBVIOUS
  <2>1. /\ scoredAt - raisedAt \in Nat /\ clock - scoredAt \in Nat
        /\ (scoredAt - raisedAt) + (clock - scoredAt) = clock - raisedAt
    BY DEF IInv, TypeOK, DecayFits
  <2>2. /\ (scoredAt - raisedAt) \div TicksPerPoint <= (clock - raisedAt) \div TicksPerPoint
        /\ (scoredAt - raisedAt) \div TicksPerPoint \in Nat
    BY <2>1, WholePoints
  <2>3. (clock - raisedAt) \div TicksPerPoint \in Nat
    <3>1. clock - raisedAt \in Nat
      BY <2>1 DEF IInv, TypeOK
    <3> QED BY <3>1, WholePoints
  <2>4. raisedTo - score \in Int
    BY ScoresAreNat DEF IInv, TypeOK
  <2> QED BY <2>2, <2>3, <2>4 DEF IInv, DecayFits, DecayWithinRate
<1> QED BY <1>1, Invariant, PTL

\* Every detection adds all it found to the score that is stored when its
\* transaction commits.
THEOREM RisksAddUp == Spec => RiskAddsUp
<1> DEFINE Adds == \A w \in Worker :
       hand[w] # None /\ hand'[w] = None /\ hand[w].event \in completed' \ completed
       => score' = Clamp(score + Deltas(hand[w].event, hand[w].findings))
<1>1. IInv /\ [Next]_vars => [Adds]_vars
  <2> SUFFICES ASSUME IInv, [Next]_vars, NEW w \in Worker,
                      hand[w] # None,
                      hand[w].event \in completed', hand[w].event \notin completed,
                      hand'[w] = None
               PROVE  score' = Clamp(score + Deltas(hand[w].event, hand[w].findings))
    OBVIOUS
  <2>1. PICK x \in Worker : \E built : Detect(x, built)
    <3>1. completed' # completed
      OBVIOUS
    <3>2. /\ ~\E x \in Worker, e \in Event : Preflight(x, e)
          /\ ~\E x \in Worker : Discard(x) \/ Publish(x)
      BY <3>1 DEF Preflight, Discard, Publish
    <3>3. ~(\E x \in Worker : Fail(x))
      BY DEF Fail
    <3> QED BY <3>1, <3>2, <3>3 DEF Next, Work, Decay, Tick, vars
  <2>2. hand' = [hand EXCEPT ![x] = None]
    BY <2>1 DEF Detect
  <2>3. x = w
    BY <2>2 DEF IInv, TypeOK
  <2> QED BY <2>1, <2>3, DetectScore
<1> QED BY <1>1, Invariant, PTL DEF Spec, RiskAddsUp

\* FindingsExact is kept: a worker's hand only changes when it is filled or
\* emptied.
LEMMA FindingsStay ==
  IInv /\ FindingsExact /\ [Next]_vars => FindingsExact'
<1> SUFFICES ASSUME IInv, FindingsExact, [Next]_vars PROVE FindingsExact'
  OBVIOUS
<1>1. /\ hand \in [Worker -> Hand \cup {None}]
      /\ stream \in [Event -> Shape \cup {None}] /\ completed \in SUBSET Event
  BY StreamType DEF IInv, TypeOK
<1>2. ASSUME stream' = stream, \A w \in Worker : hand'[w] = None \/ hand'[w] = hand[w]
      PROVE  FindingsExact'
  BY <1>2 DEF FindingsExact
<1>3. ASSUME NEW w \in Worker, NEW e \in Event, Preflight(w, e) PROVE FindingsExact'
  <2> DEFINE new == [event |-> e, risk |-> score, seen |-> {x \in completed : x < e},
                     findings |-> Correlate(completed, stream, e)]
  <2>1. hand' = [hand EXCEPT ![w] = new] /\ stream' = stream /\ stream[e] # None
    BY <1>3 DEF Preflight
  <2>2. \A x \in completed \cup {e} : stream[x] \in Shape
    BY <1>1, <2>1 DEF IInv, Occurs
  <2>3. Cardinality(new.seen) <= ReplayLimit => new.findings = Expected(new.seen, stream, e)
    <3>1. completed \in SUBSET (Nat \ {0}) /\ e \in Nat \ {0}
      BY <1>1
    <3> QED BY <2>2, <3>1, CorrelateExact
  <2>4. new.event = e
    OBVIOUS
  <2> HIDE DEF new
  <2>5. \A v \in Worker : hand'[v] = IF v = w THEN new ELSE hand[v]
    BY <1>1, <2>1
  <2> QED BY <2>1, <2>3, <2>4, <2>5 DEF FindingsExact
<1>4. ASSUME NEW w \in Worker, Work(w), ~\E e \in Event : Preflight(w, e)
      PROVE  stream' = stream /\ \A v \in Worker : hand'[v] = None \/ hand'[v] = hand[v]
  <2>1. \/ Discard(w) \/ Publish(w) \/ Fail(w) \/ \E built : Detect(w, built)
    BY <1>4 DEF Work
  <2>2. stream' = stream /\ (hand' = hand \/ hand' = [hand EXCEPT ![w] = None])
    BY <2>1 DEF Discard, Publish, Fail, Detect
  <2> QED BY <1>1, <2>2
<1>5. CASE \E w \in Worker : Work(w)
  BY <1>2, <1>3, <1>4, <1>5
<1>6. CASE Decay
  BY <1>2, <1>6 DEF Decay
<1>7. CASE Tick
  BY <1>2, <1>7 DEF Tick
<1>8. CASE UNCHANGED vars
  BY <1>2, <1>8 DEF vars
<1> QED BY <1>5, <1>6, <1>7, <1>8 DEF Next

\* The correlation's findings are those of the definition of the two sequences,
\* whatever events a worker has seen, unless the pipeline had to
\* leave some out of the replay.
THEOREM FindingsAreExact == Spec => []FindingsExact
<1>1. Init => FindingsExact
  BY DEF Init, FindingsExact
<1> QED BY <1>1, FindingsStay, Invariant, PTL DEF Spec

---------------------------------------------------------------------------
(* Alarms *)

\* The events before e occur, and the logins among them are recorded.
Known(events, e) ==
  \A x \in events : /\ x < e /\ stream[x] # None
                    /\ stream[x].auth = "succeeded" => logins[x] # None

\* What a worker has seen is known.
SeenFits ==
  /\ \A x \in completed : stream[x].auth = "succeeded" => logins[x] # None
  /\ \A w \in Worker : hand[w] # None => Known(hand[w].seen, hand[w].event)

\* The record of a login says what is expected of it.
RecordFits(e) ==
  /\ stream[e] # None /\ stream[e].auth = "succeeded"
  /\ Known(logins[e].seen, e)
  /\ Cardinality(logins[e].seen) <= ReplayLimit =>
       (logins[e].alarm <=> "CORR-AUTH-001" \in Expected(logins[e].seen, stream, e))

LoginsFit == \A e \in Event : logins[e] # None => RecordFits(e)

\* Records are never taken back, and a login is completed with its record.
LEMMA RecordsStay ==
  ASSUME IInv, [Next]_vars
  PROVE  /\ stream' = stream
         /\ \A x \in Event : logins[x] # None => logins'[x] # None
         /\ \A x \in completed' :
              x \in completed \/ (stream[x].auth = "succeeded" => logins'[x] # None)
<1>1. ASSUME NEW w \in Worker, NEW built, Detect(w, built)
      PROVE  /\ stream' = stream
             /\ \A x \in Event : logins[x] # None => logins'[x] # None
             /\ \A x \in completed' :
                  x \in completed \/ (stream[x].auth = "succeeded" => logins'[x] # None)
  <2> DEFINE e == hand[w].event
             new == [seen |-> hand[w].seen, alarm |-> "CORR-AUTH-001" \in hand[w].findings]
  <2>1. /\ stream' = stream /\ completed' = completed \cup {e}
        /\ logins' = IF stream[e].auth = "succeeded" THEN [logins EXCEPT ![e] = new] ELSE logins
    BY <1>1 DEF Detect
  <2>2. new \in Login /\ e \in Event
    BY DetectScore, <1>1 DEF Hand, Login
  <2>3. new # None
    BY <2>2
  <2> HIDE DEF new, e
  <2>4. stream[e].auth = "succeeded" =>
          \A x \in Event : logins'[x] = IF x = e THEN new ELSE logins[x]
    BY <2>1 DEF IInv, TypeOK
  <2> QED BY <2>1, <2>2, <2>3, <2>4
<1>2. ASSUME NEW w \in Worker, Work(w), ~\E built : Detect(w, built)
      PROVE  stream' = stream /\ logins' = logins /\ completed' \subseteq completed
  BY <1>2 DEF Work, Preflight, Discard, Publish, Fail
<1>3. CASE \E w \in Worker : Work(w)
  BY <1>1, <1>2, <1>3
<1>4. CASE Decay
  BY <1>4 DEF Decay
<1>5. CASE Tick
  BY <1>5 DEF Tick
<1>6. CASE UNCHANGED vars
  BY <1>6 DEF vars
<1> QED BY <1>3, <1>4, <1>5, <1>6 DEF Next

LEMMA KnownStays ==
  ASSUME IInv, [Next]_vars, NEW events \in SUBSET Event, NEW e, Known(events, e)
  PROVE  \A x \in events : /\ x < e /\ stream'[x] # None
                           /\ stream'[x].auth = "succeeded" => logins'[x] # None
BY RecordsStay DEF Known

LEMMA SeenStays == IInv /\ SeenFits /\ [Next]_vars => SeenFits'
<1> SUFFICES ASSUME IInv, SeenFits, [Next]_vars PROVE SeenFits'
  OBVIOUS
<1>1. hand \in [Worker -> Hand \cup {None}] /\ completed \subseteq Event
  BY DEF IInv, TypeOK
<1>2. \A x \in completed' : stream'[x].auth = "succeeded" => logins'[x] # None
  BY <1>1, RecordsStay DEF SeenFits
<1>3. ASSUME NEW v \in Worker, hand'[v] = hand[v], hand[v] # None
      PROVE  Known(hand[v].seen, hand[v].event)'
  <2>1. hand[v].seen \in SUBSET Event /\ Known(hand[v].seen, hand[v].event)
    BY <1>1, <1>3 DEF SeenFits, Hand
  <2>2. \A x \in hand[v].seen : /\ x < hand[v].event /\ stream'[x] # None
                                /\ stream'[x].auth = "succeeded" => logins'[x] # None
    BY <2>1, KnownStays
  <2> QED BY <1>3, <2>2 DEF Known
<1>4. ASSUME NEW w \in Worker, NEW e \in Event, Preflight(w, e) PROVE SeenFits'
  <2> DEFINE new == [event |-> e, risk |-> score, seen |-> {x \in completed : x < e},
                     findings |-> Correlate(completed, stream, e)]
  <2>1. hand' = [hand EXCEPT ![w] = new] /\ stream' = stream /\ logins' = logins
    BY <1>4 DEF Preflight
  <2>2. new.event = e /\ new.seen = {x \in completed : x < e}
    OBVIOUS
  <2> HIDE DEF new
  <2>3. \A v \in Worker : hand'[v] = IF v = w THEN new ELSE hand[v]
    BY <1>1, <2>1
  <2>4. Known(hand[w].seen, hand[w].event)'
    <3>1. \A x \in completed : stream[x] # None
      BY DEF IInv, Occurs
    <3> QED BY <2>1, <2>2, <2>3, <3>1 DEF Known, SeenFits
  <2> QED BY <1>2, <1>3, <2>3, <2>4 DEF SeenFits
<1>5. ASSUME \A v \in Worker : hand'[v] = None \/ hand'[v] = hand[v] PROVE SeenFits'
  BY <1>2, <1>3, <1>5 DEF SeenFits
<1>6. ASSUME NEW w \in Worker, Work(w), ~\E e \in Event : Preflight(w, e)
      PROVE  \A v \in Worker : hand'[v] = None \/ hand'[v] = hand[v]
  <2>1. Discard(w) \/ Publish(w) \/ Fail(w) \/ \E built : Detect(w, built)
    BY <1>6 DEF Work
  <2>2. hand' = hand \/ hand' = [hand EXCEPT ![w] = None]
    BY <2>1 DEF Discard, Publish, Fail, Detect
  <2> QED BY <1>1, <2>2
<1>7. CASE \E w \in Worker : Work(w)
  BY <1>4, <1>5, <1>6, <1>7
<1>8. CASE Decay
  BY <1>5, <1>8 DEF Decay
<1>9. CASE Tick
  BY <1>5, <1>9 DEF Tick
<1>10. CASE UNCHANGED vars
  BY <1>5, <1>10 DEF vars
<1> QED BY <1>7, <1>8, <1>9, <1>10 DEF Next

\* A login is only recorded by its detection.
LEMMA LoginsStay ==
  IInv /\ FindingsExact /\ SeenFits /\ LoginsFit /\ [Next]_vars => LoginsFit'
<1> SUFFICES ASSUME IInv, FindingsExact, SeenFits, LoginsFit, [Next]_vars PROVE LoginsFit'
  OBVIOUS
<1>1. logins \in [Event -> Login \cup {None}] /\ stream' = stream
  BY RecordsStay DEF IInv, TypeOK
<1>2. ASSUME NEW x \in Event, logins'[x] = logins[x], logins[x] # None
      PROVE  RecordFits(x)'
  <2>1. RecordFits(x) /\ logins[x].seen \in SUBSET Event
    BY <1>1, <1>2 DEF LoginsFit, Login
  <2>2. \A y \in logins[x].seen : /\ y < x /\ stream'[y] # None
                                  /\ stream'[y].auth = "succeeded" => logins'[y] # None
    BY <2>1, KnownStays DEF RecordFits
  <2>3. Known(logins[x].seen, x)'
    BY <1>2, <2>2 DEF Known
  <2> QED BY <1>1, <1>2, <2>1, <2>3 DEF RecordFits
<1>3. ASSUME NEW w \in Worker, NEW built, Detect(w, built),
             stream[hand[w].event].auth = "succeeded"
      PROVE  LoginsFit'
  <2> DEFINE e == hand[w].event
             new == [seen |-> hand[w].seen, alarm |-> "CORR-AUTH-001" \in hand[w].findings]
  <2>1. hand[w] # None /\ logins' = [logins EXCEPT ![e] = new]
    BY <1>3 DEF Detect
  <2>2. e \in Event /\ stream[e] # None /\ new.seen \in SUBSET Event
    BY <1>3, <2>1, DetectScore DEF IInv, Occurs, Hand
  <2>3. /\ Known(new.seen, e)
        /\ Cardinality(new.seen) <= ReplayLimit =>
             (new.alarm <=> "CORR-AUTH-001" \in Expected(new.seen, stream, e))
    BY <2>1 DEF FindingsExact, SeenFits
  <2>4. ASSUME NEW events, events = new.seen
        PROVE  \A x \in events : /\ x < e /\ stream'[x] # None
                                 /\ stream'[x].auth = "succeeded" => logins'[x] # None
    <3> HIDE DEF new, e
    <3> QED BY <2>2, <2>3, <2>4, KnownStays
  <2>5. stream[e].auth = "succeeded"
    BY <1>3
  <2> HIDE DEF new, e
  <2>6. \A x \in Event : logins'[x] = IF x = e THEN new ELSE logins[x]
    BY <1>1, <2>1
  <2>7. ASSUME NEW x \in Event, logins'[x] # None PROVE RecordFits(x)'
    <3>1. CASE x = e
      <4>1. logins'[x] = new
        BY <2>6, <3>1
      <4>2. Known(logins[x].seen, x)'
        BY <2>4, <3>1, <4>1 DEF Known
      <4> QED BY <1>1, <2>2, <2>3, <2>5, <3>1, <4>1, <4>2 DEF RecordFits
    <3>2. CASE x # e
      BY <1>2, <2>6, <2>7, <3>2
    <3> QED BY <3>1, <3>2
  <2> QED BY <2>7 DEF LoginsFit
<1>4. ASSUME logins' = logins PROVE LoginsFit'
  BY <1>2, <1>4 DEF LoginsFit
<1>5. ASSUME NEW w \in Worker, Work(w) PROVE LoginsFit'
  <2>1. CASE \E built : Detect(w, built) /\ stream[hand[w].event].auth = "succeeded"
    BY <1>3, <2>1
  <2>2. CASE \E built : Detect(w, built) /\ stream[hand[w].event].auth # "succeeded"
    BY <1>4, <2>2 DEF Detect
  <2>3. CASE ~\E built : Detect(w, built)
    BY <1>4, <1>5, <2>3 DEF Work, Preflight, Discard, Publish, Fail
  <2> QED BY <2>1, <2>2, <2>3
<1>6. CASE Decay
  BY <1>4, <1>6 DEF Decay
<1>7. CASE Tick
  BY <1>4, <1>7 DEF Tick
<1>8. CASE UNCHANGED vars
  BY <1>4, <1>8 DEF vars
<1> QED BY <1>5, <1>6, <1>7, <1>8 DEF Next

\* The records of two detections that saw the same events before the earlier
\* login agree on its alarm.
LEMMA AlarmsAgree == IInv /\ LoginsFit => AlarmsCountOnce
<1> SUFFICES ASSUME IInv, LoginsFit, NEW e \in Event,
                    logins[e] # None, Cardinality(logins[e].seen) <= ReplayLimit,
                    \A a \in LoginsBefore(e) : BuildsOn(e, a)
             PROVE  logins[e].alarm <=> Cardinality(FailuresLeft(e)) >= FailuresNeeded
  BY DEF AlarmsCountOnce
<1> DEFINE seen == logins[e].seen
           mine(a) == stream[a].auth = "succeeded" /\ stream[a].user = stream[e].user
<1>1. /\ stream \in [Event -> Shape \cup {None}]
      /\ \A a \in Event : logins[a] # None => logins[a].seen \in SUBSET Event
  BY StreamType DEF IInv, TypeOK, Login
<1>2. /\ seen \in SUBSET Event /\ e \in Nat \ {0}
      /\ \A x \in seen : x \in Event /\ x \in Nat \ {0} /\ x < e /\ stream[x] # None
      /\ \A x \in seen : stream[x].auth = "succeeded" => logins[x] # None
      /\ stream[e] # None /\ stream[e].auth = "succeeded"
      /\ logins[e].alarm <=> "CORR-AUTH-001" \in Expected(seen, stream, e)
  BY <1>1 DEF LoginsFit, RecordFits, Known
<1>3. \A x \in seen \cup {e} : stream[x] \in Shape
  <2> HIDE DEF seen
  <2> QED BY <1>1, <1>2
<1>4. IsFiniteSet(seen)
  <2>1. IsFiniteSet(0..e)
    BY <1>2, FS_Interval
  <2>2. ASSUME NEW x \in seen PROVE x \in 0..e
    <3> HIDE DEF seen
    <3>1. x \in Nat /\ x < e /\ e \in Nat
      BY <1>2
    <3> QED BY <3>1
  <2> QED BY <2>1, <2>2, FS_Subset
<1>5. logins[e].alarm <=> Cardinality(LeftTo(seen, stream, e)) >= FailuresNeeded
  <2>1. seen \in SUBSET (Nat \ {0})
    BY <1>2
  <2>2. Cardinality(seen) <= ReplayLimit
    OBVIOUS
  <2> HIDE DEF seen
  <2> QED BY <1>2, <1>3, <2>1, <2>2, AlarmByAlarms
<1>6. ASSUME NEW a \in LoginsBefore(e)
      PROVE  /\ a \in Event /\ a < e /\ a \in seen /\ mine(a)
             /\ logins[a].alarm <=> Alarmed(seen, stream, a)
  <2>1. a \in Event /\ a < e /\ logins[a] # None /\ stream[a].user = stream[e].user
    BY DEF LoginsBefore
  <2>2. a \in seen /\ logins[a].seen = {x \in seen : x < a}
    BY DEF BuildsOn
  <2>3. Cardinality(logins[a].seen) <= ReplayLimit
    <3>1. logins[a].seen \subseteq seen
      BY <2>2
    <3> HIDE DEF seen
    <3>2. /\ IsFiniteSet(logins[a].seen)
          /\ Cardinality(logins[a].seen) <= Cardinality(seen)
      BY <1>4, <3>1, FS_Subset
    <3>3. /\ Cardinality(logins[a].seen) \in Nat /\ Cardinality(seen) \in Nat
          /\ ReplayLimit \in Nat
      BY <1>4, <3>2, FS_CardinalityType, CorrelationAssumption DEF CorrelationAssumption
    <3>4. Cardinality(seen) <= ReplayLimit
      BY DEF seen
    <3> QED BY <3>2, <3>3, <3>4
  <2>4. /\ stream[a].auth = "succeeded"
        /\ logins[a].alarm <=> "CORR-AUTH-001" \in Expected(logins[a].seen, stream, a)
    BY <2>1, <2>3 DEF LoginsFit, RecordFits
  <2> QED BY <2>1, <2>2, <2>4 DEF Alarmed
<1> HIDE DEF seen
<1>7. LeftTo(seen, stream, e) = FailuresLeft(e)
  <2>1. ASSUME NEW f \in seen
        PROVE  (\A a \in seen : mine(a) /\ Alarmed(seen, stream, a) => a < f)
               <=> \A a \in LoginsBefore(e) : logins[a].alarm => a < f
    <3>1. ASSUME \A a \in seen : mine(a) /\ Alarmed(seen, stream, a) => a < f,
                 NEW a \in LoginsBefore(e), logins[a].alarm
          PROVE  a < f
      BY <1>6, <3>1
    <3>2. ASSUME \A a \in LoginsBefore(e) : logins[a].alarm => a < f, NEW a \in seen,
                 mine(a), Alarmed(seen, stream, a)
          PROVE  a < f
      <4>1. a \in LoginsBefore(e)
        BY <1>2, <3>2 DEF LoginsBefore
      <4> QED BY <1>6, <3>2, <4>1
    <3> QED BY <3>1, <3>2
  <2> QED BY <2>1 DEF FailuresLeft, LeftTo, seen
<1> QED BY <1>5, <1>7

\* Across detections, no failure counts in two alarms of process, and none is
\* lost, unless an earlier login of the user was detected later, or without its
\* being seen, or from other events.
THEOREM AlarmsAreDisjoint == Spec => []AlarmsCountOnce
<1>1. Init => SeenFits /\ LoginsFit
  BY DEF Init, SeenFits, LoginsFit
<1> QED BY <1>1, SeenStays, LoginsStay, AlarmsAgree, FindingsAreExact, Invariant, PTL DEF Spec

=============================================================================
