------------------------ MODULE RuleCatalog_proofs ------------------------
(***************************************************************************)
(* Proofs about RuleCatalog, for all rules, policies, threads, definitions *)
(* and bounds.                                                             *)
(*                                                                         *)
(* The primary key of rule_versions is all that orders two requests.  The  *)
(* invariant says what a request still knows when it comes to write        *)
(* (Fits): the version it read is stored with the definition it read, so   *)
(* that an edit whose successor version is free found the rule unchanged.  *)
(***************************************************************************)
EXTENDS RuleCatalog, SequenceTheorems, TLAPS

\* A rule that has any version has its first one.
FirstStays ==
  \A r \in Rule, v \in Version : history[r][v] # None => history[r][1] # None

\* What a request that is about to write knows.
Fits(o, k, b, n, missed) ==
  /\ o = "create_rule" => k \in Rule /\ n \in RuleRow /\ n.version = 1
  /\ o \in Edits => /\ k \in Rule /\ b \in RuleRow /\ n \in RuleRow
                    /\ n.version = b.version + 1
                    /\ history[k][b.version] = Definition(b)
  /\ o = "delete_rule" => k \in Rule /\ LinkedTo(k) \subseteq missed
  /\ o \in {"create_policy", "update_policy", "toggle_policy"} => k \in Policy /\ n \in PolicyRow
  /\ o = "delete_policy" => k \in Policy

ThreadFits(t) == Fits(op[t], key[t], base[t], new[t], late[t])

RequestsFit ==
  \A t \in Thread : at[t] = "write" => ThreadFits(t)

\* What the matches of the detection in progress say can be looked up too.
FoundStands ==
  \A m \in evidence \cup found : /\ history[m.rule][m.version] # None
                                 /\ history[m.rule][m.version].body = m.body

\* A detection that was not disturbed matches with the stored policies.
DetectionFits ==
  /\ worker # "match" => found = {} /\ decided = None
  /\ worker = "match" /\ ~disturbed => engine = policy /\ decided \in {None, policy}

CatalogInv == HistoryComplete /\ FirstStays

IInv == TypeOK /\ CatalogInv /\ RequestsFit /\ FoundStands /\ DetectionFits

---------------------------------------------------------------------------
(* Types *)

USE CatalogAssumption DEF CatalogAssumption

\* Rows, snapshots and None are apart, and a row gives its snapshot.
LEMMA RowFacts ==
  /\ \A row \in RuleRow : /\ Definition(row) \in Snapshot /\ row # None
                          /\ row.version \in Version /\ row.body \in Body
                          /\ row.enabled \in Flag
                          /\ Definition(row).body = row.body
                          /\ Definition(row).enabled = row.enabled
  /\ \A s \in Snapshot : s # None /\ s.body \in Body /\ s.enabled \in Flag
  /\ \A row \in PolicyRow : /\ row # None /\ row.link \in Rule \cup {NoRule}
                            /\ row.enabled \in Flag
BY DEF RuleRow, Snapshot, PolicyRow, Definition

\* Rows with the same columns are the same.
LEMMA RowsEqual ==
  ASSUME NEW a \in RuleRow, NEW b \in RuleRow,
         a.version = b.version, Definition(a) = Definition(b)
  PROVE  a = b
<1>1. a.body = b.body /\ a.enabled = b.enabled
  BY RowFacts
<1> QED BY <1>1 DEF RuleRow

\* The baseline gives every rule a first version and changes no other.
LEMMA BaselineType ==
  ASSUME NEW rules \in [Rule -> RuleRow \cup {None}],
         NEW snapshots \in [Rule -> [Version -> Snapshot \cup {None}]]
  PROVE  /\ Baseline(rules, snapshots) \in [Rule -> [Version -> Snapshot \cup {None}]]
         /\ \A r \in Rule, v \in Version :
              Baseline(rules, snapshots)[r][v] =
                IF v = 1 /\ rules[r] # None /\ snapshots[r][1] = None
                THEN Definition(rules[r]) ELSE snapshots[r][v]
<1>1. 1 \in Version
  BY DEF Version
<1>2. \A r \in Rule : rules[r] # None => Definition(rules[r]) \in Snapshot
  BY RowFacts
<1> QED BY <1>1, <1>2 DEF Baseline

\* Once the history is complete, a restart finds every baseline laid.
LEMMA BaselineLaid ==
  ASSUME TypeOK, HistoryComplete
  PROVE  Baseline(rule, history) = history
<1>1. ASSUME NEW r \in Rule, rule[r] # None PROVE history[r][1] # None
  <2>1. rule[r] \in RuleRow
    BY <1>1 DEF TypeOK
  <2>2. rule[r].version \in Nat /\ 1 <= rule[r].version /\ 1 \in Version
    BY <2>1, RowFacts DEF Version
  <2> QED BY <1>1, <2>2 DEF HistoryComplete
<1>2. \A r \in Rule : Baseline(rule, history)[r] = history[r]
  BY <1>1 DEF Baseline
<1> QED BY <1>2 DEF Baseline, TypeOK

\* Parts of the type invariant.
CatalogType ==
  /\ rule \in [Rule -> RuleRow \cup {None}]
  /\ history \in [Rule -> [Version -> Snapshot \cup {None}]]
  /\ policy \in [Policy -> PolicyRow \cup {None}]

RequestType ==
  /\ at \in [Thread -> {"idle", "write", "reload", "clear", "install"}]
  /\ op \in [Thread -> {"none", "create_rule", "delete_rule", "create_policy",
                       "update_policy", "toggle_policy", "delete_policy"} \cup Edits]
  /\ key \in [Thread -> Rule \cup Policy \cup {None}]
  /\ base \in [Thread -> RuleRow \cup PolicyRow \cup {None}]
  /\ new \in [Thread -> RuleRow \cup PolicyRow \cup {None}]
  /\ list \in [Thread -> [Policy -> PolicyRow \cup {None}]]
  /\ late \in [Thread -> SUBSET Policy]
  /\ requests \in 0..MaxRequests

DetectionType ==
  /\ evidence \subseteq Evidence /\ found \subseteq Evidence
  /\ engine \in [Policy -> PolicyRow \cup {None}]
  /\ worker \in {"idle", "clear", "install", "match"}
  /\ decided \in [Policy -> PolicyRow \cup {None}] \cup {None}
  /\ disturbed \in BOOLEAN

LEMMA TypeParts == TypeOK <=> CatalogType /\ RequestType /\ DetectionType
BY DEF TypeOK, CatalogType, RequestType, DetectionType

LEMMA TypePartsNext == TypeOK' <=> CatalogType' /\ RequestType' /\ DetectionType'
BY DEF TypeOK, CatalogType, RequestType, DetectionType

\* A finished request leaves the types of the requests.
LEMMA FinishType ==
  ASSUME RequestType, NEW t \in Thread, Finish(t), UNCHANGED requests
  PROVE  RequestType'
<1>1. NoPolicies \in [Policy -> PolicyRow \cup {None}]
  BY DEF NoPolicies
<1> QED BY <1>1 DEF RequestType, Finish

---------------------------------------------------------------------------
(* Steps that leave parts of the state alone *)

SameRequest(t) ==
  /\ at'[t] = at[t] /\ op'[t] = op[t] /\ key'[t] = key[t]
  /\ base'[t] = base[t] /\ new'[t] = new[t]

HistoryGrows ==
  \A r \in Rule, v \in Version : history[r][v] # None => history'[r][v] = history[r][v]

\* A request fits as long as the history grows and no link is missed.
LEMMA FitsStays ==
  ASSUME NEW t \in Thread, ThreadFits(t), SameRequest(t), HistoryGrows,
         op[t] = "delete_rule" /\ LinkedTo(key[t]) \subseteq late[t] =>
           LinkedTo(key[t])' \subseteq late'[t]
  PROVE  ThreadFits(t)'
<1>1. op[t] \in Edits => /\ key[t] \in Rule /\ base[t] \in RuleRow /\ new[t] \in RuleRow
                         /\ new[t].version = base[t].version + 1
                         /\ history[key[t]][base[t].version] = Definition(base[t])
  BY DEF ThreadFits, Fits
<1>2. op[t] \in Edits => history'[key[t]][base[t].version] = Definition(base[t])
  <2> SUFFICES ASSUME op[t] \in Edits
               PROVE  history'[key[t]][base[t].version] = Definition(base[t])
    OBVIOUS
  <2>1. base[t].version \in Version /\ Definition(base[t]) # None
    BY <1>1, RowFacts
  <2> QED BY <1>1, <2>1 DEF HistoryGrows
<1>3. op'[t] \in Edits => /\ key'[t] \in Rule /\ base'[t] \in RuleRow /\ new'[t] \in RuleRow
                          /\ new'[t].version = base'[t].version + 1
                          /\ history'[key'[t]][base'[t].version] = Definition(base'[t])
  BY <1>1, <1>2 DEF SameRequest
<1>4. op'[t] = "delete_rule" => key'[t] \in Rule /\ LinkedTo(key[t])' \subseteq late'[t]
  BY DEF SameRequest, ThreadFits, Fits
<1>5. /\ op'[t] = "create_rule" => key'[t] \in Rule /\ new'[t] \in RuleRow /\ new'[t].version = 1
      /\ op'[t] \in {"create_policy", "update_policy", "toggle_policy"} =>
           key'[t] \in Policy /\ new'[t] \in PolicyRow
      /\ op'[t] = "delete_policy" => key'[t] \in Policy
  BY DEF SameRequest, ThreadFits, Fits
<1> QED BY <1>3, <1>4, <1>5 DEF ThreadFits, Fits

\* Thread t has given its answer: the requests of the others still fit.
LEMMA FinishFits ==
  ASSUME TypeOK, RequestsFit, NEW t \in Thread, Finish(t), UNCHANGED policy, HistoryGrows
  PROVE  RequestsFit'
<1> SUFFICES ASSUME NEW u \in Thread, at'[u] = "write" PROVE ThreadFits(u)'
  BY DEF RequestsFit
<1>1. SameRequest(u) /\ late'[u] = late[u] /\ at[u] = "write"
  BY DEF Finish, TypeOK, SameRequest
<1>2. ThreadFits(u)
  BY <1>1 DEF RequestsFit
<1>3. LinkedTo(key[u])' = LinkedTo(key[u])
  BY <1>1 DEF LinkedTo, SameRequest
<1> QED BY <1>1, <1>2, <1>3, FitsStays

LEMMA CatalogFrame ==
  ASSUME CatalogInv, UNCHANGED <<rule, history>>
  PROVE  CatalogInv' /\ HistoryGrows
BY DEF CatalogInv, HistoryComplete, FirstStays, HistoryGrows

LEMMA StandsFrame ==
  ASSUME TypeOK, FoundStands, HistoryGrows, evidence' \cup found' \subseteq evidence \cup found
  PROVE  FoundStands'
<1> SUFFICES ASSUME NEW m \in evidence \cup found
             PROVE  /\ history'[m.rule][m.version] # None
                    /\ history'[m.rule][m.version].body = m.body
  BY DEF FoundStands
<1>1. m.rule \in Rule /\ m.version \in Version
  BY DEF TypeOK, Evidence
<1>2. history[m.rule][m.version] # None /\ history[m.rule][m.version].body = m.body
  BY DEF FoundStands
<1> QED BY <1>1, <1>2 DEF HistoryGrows

LEMMA DetectionFrame ==
  ASSUME DetectionFits, UNCHANGED detector,
         worker = "idle" \/ UNCHANGED <<policy, engine, disturbed>>
  PROVE  DetectionFits'
BY DEF DetectionFits, detector

---------------------------------------------------------------------------
(* The initial states *)

LEMMA InitInv == Init => IInv
<1> SUFFICES ASSUME Init PROVE IInv
  OBVIOUS
<1> DEFINE Blank == [r \in Rule |-> [v \in Version |-> None]]
<1>0. 1 \in Version
  BY DEF Version
<1>1. rule \in [Rule -> RuleRow \cup {None}] /\ \A r \in Rule : rule[r] # None => rule[r].version = 1
  <2>1. PICK seeded \in SUBSET Rule, b \in Body :
          rule = [r \in Rule |-> IF r \in seeded
                                 THEN [version |-> 1, body |-> b, enabled |-> 1] ELSE None]
    BY DEF Init
  <2>2. [version |-> 1, body |-> b, enabled |-> 1] \in RuleRow
    BY <1>0 DEF RuleRow, Flag
  <2> QED BY <2>1, <2>2
<1>2. policy \in [Policy -> PolicyRow \cup {None}]
  <2>1. PICK seeded \in SUBSET Policy, l \in Rule \cup {NoRule} :
          policy = [p \in Policy |-> IF p \in seeded THEN [link |-> l, enabled |-> 1] ELSE None]
    BY DEF Init
  <2>2. [link |-> l, enabled |-> 1] \in PolicyRow
    BY DEF PolicyRow, Flag
  <2> QED BY <2>1, <2>2
<1>3. Blank \in [Rule -> [Version -> Snapshot \cup {None}]]
  OBVIOUS
<1>4. /\ history \in [Rule -> [Version -> Snapshot \cup {None}]]
      /\ \A r \in Rule, v \in Version :
           history[r][v] = IF v = 1 /\ rule[r] # None THEN Definition(rule[r]) ELSE None
  <2>1. history = Baseline(rule, Blank)
    BY DEF Init
  <2>2. \A r \in Rule, v \in Version : Blank[r][v] = None
    OBVIOUS
  <2> HIDE DEF Blank
  <2> QED BY <2>1, <2>2, <1>0, <1>1, <1>3, BaselineType
<1>5. CatalogType
  BY <1>1, <1>2, <1>4 DEF CatalogType
<1>6. RequestType
  BY DEF Init, RequestType, NoPolicies
<1>7. DetectionType
  BY <1>2 DEF Init, DetectionType
<1>8. TypeOK
  BY <1>5, <1>6, <1>7, TypeParts
<1>9. CatalogInv
  <2>1. \A r \in Rule : rule[r] # None => rule[r] \in RuleRow /\ Definition(rule[r]) # None
    BY <1>1, RowFacts
  <2> QED BY <1>0, <1>1, <1>4, <2>1 DEF CatalogInv, HistoryComplete, FirstStays, Version
<1>10. RequestsFit /\ FoundStands /\ DetectionFits
  BY DEF Init, RequestsFit, FoundStands, DetectionFits
<1> QED BY <1>8, <1>9, <1>10 DEF IInv

---------------------------------------------------------------------------
(* The first half of a request *)

Operations == {"create_rule", "delete_rule", "create_policy", "update_policy",
               "toggle_policy", "delete_policy"} \cup Edits

LEMMA BeginInv ==
  ASSUME IInv, NEW t \in Thread, NEW o \in Operations, NEW k \in Rule \cup Policy,
         NEW b \in RuleRow \cup PolicyRow \cup {None},
         NEW n \in RuleRow \cup PolicyRow \cup {None},
         Begin(t, o, k, b, n), Fits(o, k, b, n, {})
  PROVE  IInv'
<1>0. UNCHANGED <<rule, history, policy, evidence, engine, worker, found, decided, disturbed>>
  BY DEF Begin, database, detector
<1>1. TypeOK'
  <2>1. CatalogType' /\ DetectionType'
    BY <1>0 DEF IInv, TypeOK, CatalogType, DetectionType
  <2>2. RequestType'
    BY DEF IInv, TypeOK, RequestType, Begin, Operations
  <2> QED BY <2>1, <2>2, TypePartsNext
<1>2. CatalogInv' /\ HistoryGrows
  BY <1>0, CatalogFrame DEF IInv
<1>3. RequestsFit'
  <2> SUFFICES ASSUME NEW u \in Thread, at'[u] = "write" PROVE ThreadFits(u)'
    BY DEF RequestsFit
  <2>1. CASE u = t
    <3>1. op'[t] = o /\ key'[t] = k /\ base'[t] = b /\ new'[t] = n /\ late'[t] = {}
      BY DEF IInv, TypeOK, Begin
    <3> QED BY <2>1, <3>1, <1>0 DEF ThreadFits, Fits, LinkedTo
  <2>2. CASE u # t
    <3>1. SameRequest(u) /\ late'[u] = late[u]
      BY <2>2 DEF IInv, TypeOK, Begin, SameRequest
    <3>2. ThreadFits(u) /\ LinkedTo(key[u])' = LinkedTo(key[u])
      BY <3>1, <1>0 DEF IInv, RequestsFit, SameRequest, LinkedTo
    <3> QED BY <3>1, <3>2, <1>2, FitsStays
  <2> QED BY <2>1, <2>2
<1>4. FoundStands'
  BY <1>0, <1>2, StandsFrame DEF IInv
<1>5. DetectionFits'
  BY <1>0, DetectionFrame DEF IInv, detector
<1> QED BY <1>1, <1>2, <1>3, <1>4, <1>5 DEF IInv

LEMMA BeginsInv ==
  ASSUME IInv, NEW t \in Thread, Post(t) \/ Put(t) \/ Patch(t) \/ Delete(t)
  PROVE  IInv'
<1>1. ASSUME NEW r \in Rule, NEW b \in Body, CreateRule(t, r, b) PROVE IInv'
  <2> DEFINE n == [version |-> 1, body |-> b, enabled |-> 1]
  <2>1. n \in RuleRow /\ n.version = 1
    BY DEF RuleRow, Version, Flag
  <2>2. Fits("create_rule", r, None, n, {})
    BY <2>1 DEF Fits, Edits
  <2>3. Begin(t, "create_rule", r, None, n)
    BY <1>1 DEF CreateRule
  <2> HIDE DEF n
  <2> QED BY <2>1, <2>2, <2>3, BeginInv DEF Operations
<1>2. ASSUME NEW r \in Rule, NEW body \in Body, NEW f \in Flag, NEW o \in Edits,
             rule[r] # None, rule[r].version < MaxVersion,
             Begin(t, o, r, rule[r], Successor(rule[r], body, f))
      PROVE  IInv'
  <2>1. PICK b \in RuleRow : b = rule[r]
    BY <1>2 DEF IInv, TypeOK
  <2> DEFINE n == Successor(b, body, f)
  <2>2. n \in RuleRow /\ n.version = b.version + 1
    <3>1. b.version \in Version /\ b.version + 1 \in Version
      BY <1>2, <2>1, RowFacts DEF Version
    <3> QED BY <3>1 DEF Successor, RuleRow
  <2>3. history[r][b.version] = Definition(b)
    BY <1>2, <2>1 DEF IInv, CatalogInv, HistoryComplete
  <2>4. Fits(o, r, b, n, {})
    BY <2>2, <2>3 DEF Fits, Edits
  <2>5. Begin(t, o, r, b, n)
    BY <1>2, <2>1
  <2> HIDE DEF n
  <2> QED BY <2>2, <2>4, <2>5, BeginInv DEF Operations
<1>3. ASSUME NEW r \in Rule, NEW b \in Body, NEW f \in Flag, UpdateRule(t, r, b, f) PROVE IInv'
  BY <1>2, <1>3 DEF UpdateRule, Edits
<1>4. ASSUME NEW r \in Rule, NEW asked \in Flag \cup {None}, ToggleRule(t, r, asked) PROVE IInv'
  <2>1. rule[r] \in RuleRow
    BY <1>4 DEF ToggleRule, IInv, TypeOK
  <2>2. rule[r].body \in Body /\ rule[r].enabled \in Flag
    BY <2>1, RowFacts
  <2>3. PICK b \in Body : b = rule[r].body
    BY <2>2
  <2>4. PICK f \in Flag : f = Toggled(rule[r], asked)
    BY <2>2 DEF Toggled, Flag
  <2>5. /\ rule[r] # None /\ rule[r].version < MaxVersion
        /\ Begin(t, "toggle_rule", r, rule[r], Successor(rule[r], b, f))
    BY <1>4, <2>3, <2>4 DEF ToggleRule
  <2> QED BY <2>5, <1>2 DEF Edits
<1>5. ASSUME NEW r \in Rule, NEW v \in Version, RollbackRule(t, r, v) PROVE IInv'
  <2>1. history[r][v] \in Snapshot
    BY <1>5 DEF RollbackRule, IInv, TypeOK
  <2>2. history[r][v].body \in Body /\ history[r][v].enabled \in Flag
    BY <2>1, RowFacts
  <2>3. PICK b \in Body : b = history[r][v].body
    BY <2>2
  <2>4. PICK f \in Flag : f = history[r][v].enabled
    BY <2>2
  <2>5. /\ rule[r] # None /\ rule[r].version < MaxVersion
        /\ Begin(t, "rollback_rule", r, rule[r], Successor(rule[r], b, f))
    BY <1>5, <2>3, <2>4 DEF RollbackRule
  <2> QED BY <2>5, <1>2 DEF Edits
<1>6. ASSUME NEW r \in Rule, DeleteRule(t, r) PROVE IInv'
  <2>1. PICK b \in RuleRow : b = rule[r]
    BY <1>6 DEF DeleteRule, IInv, TypeOK
  <2>2. Fits("delete_rule", r, b, None, {})
    BY <1>6 DEF DeleteRule, Fits, Edits
  <2>3. Begin(t, "delete_rule", r, b, None)
    BY <1>6, <2>1 DEF DeleteRule
  <2> QED BY <2>2, <2>3, BeginInv DEF Operations
<1>7. ASSUME NEW p \in Policy, NEW o \in {"create_policy", "update_policy", "toggle_policy"},
             NEW b \in PolicyRow \cup {None}, NEW n \in PolicyRow, Begin(t, o, p, b, n)
      PROVE  IInv'
  <2>1. Fits(o, p, b, n, {})
    BY DEF Fits, Edits
  <2> QED BY <1>7, <2>1, BeginInv DEF Operations
<1>8. ASSUME NEW p \in Policy, NEW l \in Rule \cup {NoRule}, CreatePolicy(t, p, l) PROVE IInv'
  <2>1. PICK n \in PolicyRow : n = [link |-> l, enabled |-> 1]
    BY DEF PolicyRow, Flag
  <2> QED BY <1>8, <2>1, <1>7 DEF CreatePolicy
<1>9. ASSUME NEW p \in Policy, NEW l \in Rule \cup {NoRule}, NEW f \in Flag,
             UpdatePolicy(t, p, l, f)
      PROVE  IInv'
  <2>1. PICK n \in PolicyRow : n = [link |-> l, enabled |-> f]
    BY DEF PolicyRow
  <2>2. PICK b \in PolicyRow : b = policy[p]
    BY <1>9 DEF UpdatePolicy, IInv, TypeOK
  <2> QED BY <1>9, <2>1, <2>2, <1>7 DEF UpdatePolicy
<1>10. ASSUME NEW p \in Policy, NEW asked \in Flag \cup {None}, TogglePolicy(t, p, asked)
       PROVE  IInv'
  <2>1. PICK b \in PolicyRow : b = policy[p]
    BY <1>10 DEF TogglePolicy, IInv, TypeOK
  <2>2. Toggled(b, asked) \in Flag
    BY RowFacts DEF Toggled, Flag
  <2>3. PICK n \in PolicyRow : n = [b EXCEPT !.enabled = Toggled(b, asked)]
    BY <2>2 DEF PolicyRow
  <2> QED BY <1>10, <2>1, <2>3, <1>7 DEF TogglePolicy
<1>11. ASSUME NEW p \in Policy, DeletePolicy(t, p) PROVE IInv'
  <2>1. PICK b \in PolicyRow : b = policy[p]
    BY <1>11 DEF DeletePolicy, IInv, TypeOK
  <2>2. Fits("delete_policy", p, b, None, {})
    BY DEF Fits, Edits
  <2> QED BY <1>11, <2>1, <2>2, BeginInv DEF DeletePolicy, Operations
<1>12. CASE Post(t)
  BY <1>12, <1>1, <1>4, <1>5, <1>8, <1>10 DEF Post
<1>13. CASE Put(t)
  BY <1>13, <1>3, <1>9 DEF Put
<1>14. CASE Patch(t)
  BY <1>14, <1>4, <1>10 DEF Patch
<1>15. CASE Delete(t)
  BY <1>15, <1>6, <1>11 DEF Delete
<1> QED BY <1>12, <1>13, <1>14, <1>15

---------------------------------------------------------------------------
(* The second half of a request *)

\* A request that ends without writing.
LEMMA EndInv ==
  ASSUME IInv, NEW t \in Thread, Finish(t),
         UNCHANGED <<database, engine, detector, disturbed, requests>>
  PROVE  IInv'
<1>1. CatalogInv' /\ HistoryGrows
  BY CatalogFrame DEF IInv, database
<1>2. TypeOK'
  <2>1. CatalogType' /\ DetectionType'
    BY DEF IInv, TypeOK, CatalogType, DetectionType, database, detector
  <2>2. RequestType'
    BY FinishType, TypeParts DEF IInv
  <2> QED BY <2>1, <2>2, TypePartsNext
<1>3. RequestsFit'
  BY <1>1, FinishFits DEF IInv, database
<1>4. FoundStands' /\ DetectionFits'
  BY <1>1, StandsFrame, DetectionFrame DEF IInv, database, detector
<1> QED BY <1>1, <1>2, <1>3, <1>4 DEF IInv

\* A rule is written while no detection is under way, under a version that was
\* free, or is removed.
LEMMA RuleWrittenInv ==
  ASSUME IInv, NEW t \in Thread, Finish(t), worker = "idle",
         CatalogType', CatalogInv', HistoryGrows,
         UNCHANGED <<policy, evidence, engine, detector, disturbed, requests>>
  PROVE  IInv'
<1>1. TypeOK'
  <2>1. DetectionType'
    BY DEF IInv, TypeOK, DetectionType, detector
  <2>2. RequestType'
    BY FinishType, TypeParts DEF IInv
  <2> QED BY <2>1, <2>2, TypePartsNext
<1>2. RequestsFit'
  BY FinishFits DEF IInv
<1>3. FoundStands' /\ DetectionFits'
  BY StandsFrame, DetectionFrame DEF IInv, detector
<1> QED BY <1>1, <1>2, <1>3 DEF IInv

\* What becomes of the history of a rule whose row is stored under a version.
LEMMA SaveVersionType ==
  ASSUME TypeOK, NEW r \in Rule, NEW v \in Version, NEW row \in RuleRow,
         MaySave(r, v), SaveVersion(r, v, row)
  PROVE  /\ history' \in [Rule -> [Version -> Snapshot \cup {None}]]
         /\ \A q \in Rule, w \in Version :
              history'[q][w] = IF q = r /\ w = v THEN Definition(row) ELSE history[q][w]
         /\ HistoryGrows
BY RowFacts DEF SaveVersion, MaySave, TypeOK, HistoryGrows

LEMMA InsertRuleInv == ASSUME IInv, NEW t \in Thread, InsertRule(t) PROVE IInv' /\ HistoryGrows
<1>1. PICK r \in Rule : r = key[t]
  BY DEF InsertRule, Writing, IInv, RequestsFit, ThreadFits, Fits
<1>2. PICK n \in RuleRow : n = new[t] /\ n.version = 1
  BY DEF InsertRule, Writing, IInv, RequestsFit, ThreadFits, Fits
<1>3. 1 \in Version
  BY DEF Version
<1>4. /\ rule[r] = None /\ MaySave(r, 1) /\ SaveVersion(r, 1, n)
      /\ rule' = [rule EXCEPT ![r] = n]
  BY <1>1, <1>2 DEF InsertRule, MayCreate
<1>5. /\ history' \in [Rule -> [Version -> Snapshot \cup {None}]]
      /\ \A q \in Rule, w \in Version :
           history'[q][w] = IF q = r /\ w = 1 THEN Definition(n) ELSE history[q][w]
      /\ HistoryGrows
  BY <1>3, <1>4, SaveVersionType DEF IInv
<1>6. \A w \in Version : history[r][w] = None
  BY <1>4 DEF MaySave, IInv, CatalogInv, FirstStays
<1>7. rule' \in [Rule -> RuleRow \cup {None}] /\ rule'[r] = n
      /\ \A q \in Rule : q # r => rule'[q] = rule[q]
  BY <1>4 DEF IInv, TypeOK
<1>8. CatalogType'
  BY <1>5, <1>7 DEF InsertRule, IInv, TypeOK, CatalogType
<1>9. Definition(n) # None
  BY RowFacts
<1>10. HistoryComplete'
  <2> SUFFICES ASSUME NEW q \in Rule, rule'[q] # None
               PROVE  /\ \A w \in Version : history'[q][w] # None <=> w <= rule'[q].version
                      /\ history'[q][rule'[q].version] = Definition(rule'[q])
    BY DEF HistoryComplete
  <2>1. CASE q = r
    <3>1. \A w \in Version : w <= 1 <=> w = 1
      BY DEF Version
    <3>2. rule'[q] = n /\ n.version = 1
      BY <2>1, <1>2, <1>7
    <3>3. \A w \in Version : history'[q][w] = IF w = 1 THEN Definition(n) ELSE None
      BY <2>1, <1>5, <1>6
    <3> QED BY <3>1, <3>2, <3>3, <1>3, <1>9
  <2>2. CASE q # r
    <3>1. rule'[q] = rule[q] /\ rule[q].version \in Version
      BY <2>2, <1>7, RowFacts DEF IInv, TypeOK
    <3>2. \A w \in Version : history'[q][w] = history[q][w]
      BY <2>2, <1>5
    <3>3. /\ \A w \in Version : history[q][w] # None <=> w <= rule[q].version
          /\ history[q][rule[q].version] = Definition(rule[q])
      BY <3>1 DEF IInv, CatalogInv, HistoryComplete
    <3> QED BY <3>1, <3>2, <3>3
  <2> QED BY <2>1, <2>2
<1>11. FirstStays'
  BY <1>3, <1>5, <1>9 DEF IInv, CatalogInv, FirstStays
<1> QED BY <1>5, <1>8, <1>10, <1>11, RuleWrittenInv DEF InsertRule, CatalogInv

\* A rule is edited only as it was read.
LEMMA EditFindsBase ==
  ASSUME IInv, NEW t \in Thread, Writing(t, Edits), MayEdit(t)
  PROVE  /\ key[t] \in Rule /\ rule[key[t]] \in RuleRow /\ rule[key[t]] = base[t]
         /\ new[t] \in RuleRow /\ new[t].version = base[t].version + 1
<1>1. PICK r \in Rule : r = key[t]
  BY DEF Writing, IInv, RequestsFit, ThreadFits, Fits
<1>2. PICK b \in RuleRow : b = base[t] /\ history[r][b.version] = Definition(b)
  BY <1>1 DEF Writing, IInv, RequestsFit, ThreadFits, Fits
<1>3. PICK n \in RuleRow : n = new[t] /\ n.version = b.version + 1
  BY <1>2 DEF Writing, IInv, RequestsFit, ThreadFits, Fits
<1>4. PICK row \in RuleRow : row = rule[r]
  BY <1>1 DEF MayEdit, IInv, TypeOK
<1>5. /\ row.version \in Version /\ b.version \in Version /\ n.version \in Version
      /\ Definition(b) # None
  BY RowFacts
<1>6. /\ \A v \in Version : history[r][v] # None <=> v <= row.version
      /\ history[r][row.version] = Definition(row)
  BY <1>4, RowFacts DEF IInv, CatalogInv, HistoryComplete
<1>7. b.version <= row.version
  BY <1>2, <1>5, <1>6
<1>8. ~(n.version <= row.version)
  BY <1>1, <1>3, <1>5, <1>6 DEF MayEdit, MaySave
<1>9. b.version = row.version
  BY <1>3, <1>5, <1>7, <1>8 DEF Version
<1>10. row = b
  BY <1>2, <1>6, <1>9, RowsEqual
<1> QED BY <1>1, <1>2, <1>3, <1>4, <1>10

LEMMA StoreEditInv == ASSUME IInv, NEW t \in Thread, StoreEdit(t) PROVE IInv' /\ HistoryGrows
<1>0. PICK r \in Rule : r = key[t]
  BY EditFindsBase DEF StoreEdit
<1>1. PICK b \in RuleRow : b = rule[r] /\ b = base[t]
  BY <1>0, EditFindsBase DEF StoreEdit
<1>2. PICK n \in RuleRow : n = new[t] /\ n.version = b.version + 1
  BY <1>1, EditFindsBase DEF StoreEdit
<1>3. PICK row \in RuleRow : row = Edited(t) /\ row.version = n.version
  <2>1. CASE op[t] = "toggle_rule"
    <3>1. Edited(t) = [b EXCEPT !.version = n.version, !.enabled = n.enabled]
      BY <2>1, <1>0, <1>1, <1>2 DEF Edited
    <3> QED BY <3>1 DEF RuleRow
  <2>2. CASE op[t] # "toggle_rule"
    BY <2>2, <1>2 DEF Edited
  <2> QED BY <2>1, <2>2
<1>4. PICK v \in Version : v = n.version
  BY RowFacts
<1>5. /\ MaySave(r, v) /\ SaveVersion(r, v, row) /\ rule' = [rule EXCEPT ![r] = row]
  BY <1>0, <1>2, <1>3, <1>4 DEF StoreEdit, MayEdit
<1>6. /\ history' \in [Rule -> [Version -> Snapshot \cup {None}]]
      /\ \A q \in Rule, w \in Version :
           history'[q][w] = IF q = r /\ w = v THEN Definition(row) ELSE history[q][w]
      /\ HistoryGrows
  BY <1>5, SaveVersionType DEF IInv
<1>7. rule' \in [Rule -> RuleRow \cup {None}] /\ rule'[r] = row
      /\ \A q \in Rule : q # r => rule'[q] = rule[q]
  BY <1>5 DEF IInv, TypeOK
<1>8. CatalogType'
  BY <1>6, <1>7 DEF StoreEdit, IInv, TypeOK, CatalogType
<1>9. Definition(row) # None /\ b.version \in Version /\ b # None
  BY RowFacts
<1>10. HistoryComplete'
  <2> SUFFICES ASSUME NEW q \in Rule, rule'[q] # None
               PROVE  /\ \A w \in Version : history'[q][w] # None <=> w <= rule'[q].version
                      /\ history'[q][rule'[q].version] = Definition(rule'[q])
    BY DEF HistoryComplete
  <2>1. CASE q = r
    <3>1. \A w \in Version : history[r][w] # None <=> w <= b.version
      BY <1>1, <1>9 DEF IInv, CatalogInv, HistoryComplete
    <3>2. \A w \in Version : w <= v <=> (w = v \/ w <= b.version)
      BY <1>2, <1>4, <1>9 DEF Version
    <3>3. rule'[q] = row /\ row.version = v
      BY <2>1, <1>3, <1>4, <1>7
    <3> QED BY <2>1, <3>1, <3>2, <3>3, <1>6, <1>9
  <2>2. CASE q # r
    <3>1. rule'[q] = rule[q] /\ rule[q].version \in Version
      BY <2>2, <1>7, RowFacts DEF IInv, TypeOK
    <3>2. \A w \in Version : history'[q][w] = history[q][w]
      BY <2>2, <1>6
    <3>3. /\ \A w \in Version : history[q][w] # None <=> w <= rule[q].version
          /\ history[q][rule[q].version] = Definition(rule[q])
      BY <3>1 DEF IInv, CatalogInv, HistoryComplete
    <3> QED BY <3>1, <3>2, <3>3
  <2> QED BY <2>1, <2>2
<1>11. FirstStays'
  <2>1. 1 \in Version /\ 1 <= b.version
    BY <1>9 DEF Version
  <2>2. history[r][1] # None
    BY <2>1, <1>1, <1>9 DEF IInv, CatalogInv, HistoryComplete
  <2> QED BY <2>1, <2>2, <1>6, <1>9 DEF IInv, CatalogInv, FirstStays
<1> QED BY <1>6, <1>8, <1>10, <1>11, RuleWrittenInv DEF StoreEdit, CatalogInv

LEMMA RemoveRuleInv == ASSUME IInv, NEW t \in Thread, RemoveRule(t) PROVE IInv'
<1>1. key[t] \in Rule
  BY DEF RemoveRule, Writing, IInv, RequestsFit, ThreadFits, Fits
<1>2. /\ rule' \in [Rule -> RuleRow \cup {None}]
      /\ \A q \in Rule : rule'[q] # None => rule'[q] = rule[q]
  BY <1>1 DEF RemoveRule, IInv, TypeOK
<1>3. CatalogType'
  BY <1>2 DEF RemoveRule, IInv, TypeOK, CatalogType
<1>4. CatalogInv' /\ HistoryGrows
  BY <1>2 DEF RemoveRule, IInv, CatalogInv, HistoryComplete, FirstStays, HistoryGrows
<1> QED BY <1>3, <1>4, RuleWrittenInv DEF RemoveRule

\* The request that wrote a policy goes on to its reload; what other threads
\* know still fits if every link to a rule they delete was noted.
LEMMA PolicyWrittenInv ==
  ASSUME IInv, NEW t \in Thread, Written(t), worker = "idle",
         policy' \in [Policy -> PolicyRow \cup {None}],
         late' \in [Thread -> SUBSET Policy],
         \A u \in Thread : u # t => late[u] \subseteq late'[u],
         \A u \in Thread : u # t /\ Writing(u, {"delete_rule"}) =>
           LinkedTo(key[u])' \subseteq LinkedTo(key[u]) \cup late'[u]
  PROVE  IInv'
<1>1. CatalogInv' /\ HistoryGrows
  BY CatalogFrame DEF IInv, Written
<1>2. TypeOK'
  <2>1. CatalogType' /\ DetectionType'
    BY DEF Written, IInv, TypeOK, CatalogType, DetectionType, detector
  <2>2. RequestType'
    BY DEF Written, IInv, TypeOK, RequestType
  <2> QED BY <2>1, <2>2, TypePartsNext
<1>3. RequestsFit'
  <2> SUFFICES ASSUME NEW u \in Thread, at'[u] = "write" PROVE ThreadFits(u)'
    BY DEF RequestsFit
  <2>1. u # t /\ SameRequest(u)
    BY DEF Written, SameRequest, IInv, TypeOK
  <2>2. ThreadFits(u)
    BY <2>1 DEF IInv, RequestsFit, SameRequest
  <2>3. op[u] = "delete_rule" /\ LinkedTo(key[u]) \subseteq late[u] =>
          LinkedTo(key[u])' \subseteq late'[u]
    BY <2>1 DEF Writing, SameRequest
  <2> QED BY <2>1, <2>2, <2>3, <1>1, FitsStays
<1>4. FoundStands' /\ DetectionFits'
  BY <1>1, StandsFrame, DetectionFrame DEF IInv, Written, detector
<1> QED BY <1>1, <1>2, <1>3, <1>4 DEF IInv

\* A policy row is stored, and its link is noted.
LEMMA LinkStoredInv ==
  ASSUME IInv, NEW t \in Thread, NEW p \in Policy, NEW n \in PolicyRow,
         Written(t), worker = "idle",
         policy' = [policy EXCEPT ![p] = n], LinkedMeanwhile(p, n.link)
  PROVE  IInv'
<1>1. policy' \in [Policy -> PolicyRow \cup {None}] /\ n # None
      /\ policy'[p] = n /\ \A q \in Policy : q # p => policy'[q] = policy[q]
  BY RowFacts DEF IInv, TypeOK
<1>2. late' \in [Thread -> SUBSET Policy]
  BY DEF LinkedMeanwhile, IInv, TypeOK
<1>3. \A u \in Thread : late[u] \subseteq late'[u]
  BY DEF LinkedMeanwhile
<1>4. ASSUME NEW u \in Thread, u # t, Writing(u, {"delete_rule"})
      PROVE  LinkedTo(key[u])' \subseteq LinkedTo(key[u]) \cup late'[u]
  <2> SUFFICES ASSUME NEW q \in Policy, policy'[q] # None, policy'[q].link = key'[u]
               PROVE  q \in LinkedTo(key[u]) \cup late'[u]
    BY DEF LinkedTo
  <2>1. key'[u] = key[u]
    BY DEF Written
  <2>2. CASE q = p
    BY <2>1, <2>2, <1>1, <1>4 DEF LinkedMeanwhile
  <2>3. CASE q # p
    BY <2>1, <2>3, <1>1 DEF LinkedTo
  <2> QED BY <2>2, <2>3
<1> QED BY <1>1, <1>2, <1>3, <1>4, PolicyWrittenInv

\* A policy keeps its link or is removed.
LEMMA LinkKeptInv ==
  ASSUME IInv, NEW t \in Thread, Written(t), worker = "idle",
         policy' \in [Policy -> PolicyRow \cup {None}],
         \A q \in Policy : policy'[q] # None => policy[q] # None /\ policy'[q].link = policy[q].link,
         UNCHANGED late
  PROVE  IInv'
<1>1. late' \in [Thread -> SUBSET Policy]
  BY DEF IInv, TypeOK
<1>2. \A u \in Thread : LinkedTo(key[u])' \subseteq LinkedTo(key[u])
  BY DEF LinkedTo, Written
<1> QED BY <1>1, <1>2, PolicyWrittenInv

LEMMA InsertPolicyInv == ASSUME IInv, NEW t \in Thread, InsertPolicy(t) PROVE IInv'
<1>1. PICK p \in Policy : p = key[t]
  BY DEF InsertPolicy, Writing, IInv, RequestsFit, ThreadFits, Fits
<1>2. PICK n \in PolicyRow : n = new[t]
  BY DEF InsertPolicy, Writing, IInv, RequestsFit, ThreadFits, Fits
<1> QED BY <1>1, <1>2, LinkStoredInv DEF InsertPolicy

LEMMA StorePolicyInv == ASSUME IInv, NEW t \in Thread, StorePolicy(t) PROVE IInv'
<1>1. PICK p \in Policy : p = key[t]
  BY DEF StorePolicy, Writing, IInv, RequestsFit, ThreadFits, Fits
<1>2. PICK n \in PolicyRow : n = new[t]
  BY DEF StorePolicy, Writing, IInv, RequestsFit, ThreadFits, Fits
<1>3. CASE policy[p] = None
  <2>1. policy' \in [Policy -> PolicyRow \cup {None}] /\ UNCHANGED <<policy, late>>
    BY <1>1, <1>3 DEF StorePolicy, IInv, TypeOK
  <2> QED BY <2>1, LinkKeptInv DEF StorePolicy
<1>4. CASE policy[p] # None
  BY <1>1, <1>2, <1>4, LinkStoredInv DEF StorePolicy
<1> QED BY <1>3, <1>4

LEMMA StorePolicyFlagInv == ASSUME IInv, NEW t \in Thread, StorePolicyFlag(t) PROVE IInv'
<1>1. PICK p \in Policy : p = key[t]
  BY DEF StorePolicyFlag, Writing, IInv, RequestsFit, ThreadFits, Fits
<1>2. PICK n \in PolicyRow : n = new[t]
  BY DEF StorePolicyFlag, Writing, IInv, RequestsFit, ThreadFits, Fits
<1>3. CASE policy[p] = None
  <2>1. policy' \in [Policy -> PolicyRow \cup {None}] /\ UNCHANGED <<policy, late>>
    BY <1>1, <1>3 DEF StorePolicyFlag, IInv, TypeOK
  <2> QED BY <2>1, LinkKeptInv DEF StorePolicyFlag
<1>4. CASE policy[p] # None
  <2>1. PICK old \in PolicyRow : old = policy[p]
    BY <1>4 DEF IInv, TypeOK
  <2>2. PICK row : row = [old EXCEPT !.enabled = n.enabled]
    OBVIOUS
  <2>3. row \in PolicyRow /\ row.link = old.link
    BY <2>2, RowFacts DEF PolicyRow
  <2>4. policy' = [policy EXCEPT ![p] = row]
    BY <1>1, <1>2, <1>4, <2>1, <2>2 DEF StorePolicyFlag
  <2>5. /\ policy' \in [Policy -> PolicyRow \cup {None}]
        /\ \A q \in Policy : policy'[q] # None => policy[q] # None /\ policy'[q].link = policy[q].link
    BY <1>4, <2>1, <2>3, <2>4 DEF IInv, TypeOK
  <2> QED BY <2>5, LinkKeptInv DEF StorePolicyFlag
<1> QED BY <1>3, <1>4

LEMMA RemovePolicyInv == ASSUME IInv, NEW t \in Thread, RemovePolicy(t) PROVE IInv'
<1>1. key[t] \in Policy
  BY DEF RemovePolicy, Writing, IInv, RequestsFit, ThreadFits, Fits
<1>2. /\ policy' \in [Policy -> PolicyRow \cup {None}]
      /\ \A q \in Policy : policy'[q] # None => policy'[q] = policy[q]
  BY <1>1 DEF RemovePolicy, IInv, TypeOK
<1> QED BY <1>2, LinkKeptInv DEF RemovePolicy

\* The steps of a reload, which write nothing.
LEMMA ReloadInv ==
  ASSUME IInv, NEW t \in Thread, at[t] # "write", at'[t] # "write",
         \A u \in Thread : u # t => SameRequest(u) /\ late'[u] = late[u],
         RequestType', engine' \in [Policy -> PolicyRow \cup {None}],
         UNCHANGED <<database, detector>>,
         \/ UNCHANGED <<engine, disturbed>>
         \/ Disturb
  PROVE  IInv'
<1>1. CatalogInv' /\ HistoryGrows
  BY CatalogFrame DEF IInv, database
<1>2. TypeOK'
  <2>1. CatalogType' /\ DetectionType'
    BY DEF IInv, TypeOK, CatalogType, DetectionType, database, detector, Disturb
  <2> QED BY <2>1, TypePartsNext
<1>3. RequestsFit'
  <2> SUFFICES ASSUME NEW u \in Thread, at'[u] = "write" PROVE ThreadFits(u)'
    BY DEF RequestsFit
  <2>1. SameRequest(u) /\ late'[u] = late[u]
    OBVIOUS
  <2>2. ThreadFits(u) /\ LinkedTo(key[u])' = LinkedTo(key[u])
    BY <2>1 DEF IInv, RequestsFit, SameRequest, LinkedTo, database
  <2> QED BY <2>1, <2>2, <1>1, FitsStays
<1>4. FoundStands'
  BY <1>1, StandsFrame DEF IInv, database, detector
<1>5. DetectionFits'
  BY DEF IInv, TypeOK, DetectionFits, Disturb, database, detector
<1> QED BY <1>1, <1>2, <1>3, <1>4, <1>5 DEF IInv

LEMMA ReadPoliciesInv == ASSUME IInv, NEW t \in Thread, ReadPolicies(t) PROVE IInv'
<1>1. RequestType'
  BY DEF ReadPolicies, IInv, TypeOK, RequestType, database
<1>2. at[t] # "write" /\ at'[t] # "write"
  BY DEF ReadPolicies, IInv, TypeOK
<1>3. \A u \in Thread : u # t => SameRequest(u) /\ late'[u] = late[u]
  BY DEF ReadPolicies, SameRequest, IInv, TypeOK
<1>4. engine' \in [Policy -> PolicyRow \cup {None}] /\ UNCHANGED <<engine, disturbed>>
  BY DEF ReadPolicies, IInv, TypeOK
<1> QED BY <1>1, <1>2, <1>3, <1>4, ReloadInv DEF ReadPolicies

LEMMA ClearPoliciesInv == ASSUME IInv, NEW t \in Thread, ClearPolicies(t) PROVE IInv'
<1>1. RequestType'
  BY DEF ClearPolicies, IInv, TypeOK, RequestType
<1>2. at[t] # "write" /\ at'[t] # "write"
  BY DEF ClearPolicies, IInv, TypeOK
<1>3. \A u \in Thread : u # t => SameRequest(u) /\ late'[u] = late[u]
  BY DEF ClearPolicies, SameRequest, IInv, TypeOK
<1>4. engine' \in [Policy -> PolicyRow \cup {None}]
  BY DEF ClearPolicies, NoPolicies
<1> QED BY <1>1, <1>2, <1>3, <1>4, ReloadInv DEF ClearPolicies

LEMMA InstallPoliciesInv == ASSUME IInv, NEW t \in Thread, InstallPolicies(t) PROVE IInv'
<1>1. RequestType'
  BY FinishType, TypeParts DEF InstallPolicies, IInv
<1>2. at[t] # "write" /\ at'[t] # "write"
  BY DEF InstallPolicies, Finish, IInv, TypeOK
<1>3. \A u \in Thread : u # t => SameRequest(u) /\ late'[u] = late[u]
  BY DEF InstallPolicies, Finish, SameRequest, IInv, TypeOK
<1>4. engine' \in [Policy -> PolicyRow \cup {None}]
  BY DEF InstallPolicies, IInv, TypeOK
<1> QED BY <1>1, <1>2, <1>3, <1>4, ReloadInv DEF InstallPolicies

---------------------------------------------------------------------------
(* The detection *)

\* A step of the detection leaves rules, policies and requests alone.
LEMMA DetectInv == ASSUME IInv, Detect PROVE IInv'
<1>1. UNCHANGED <<rule, history, policy, request, late, requests>>
  BY DEF Detect, BeginDetection, WorkerClears, WorkerInstalls, MatchRule, CommitDetection,
     RollBackDetection, EndDetection, database
<1>2. CatalogInv' /\ HistoryGrows
  BY <1>1, CatalogFrame DEF IInv
<1>3. CatalogType' /\ RequestType'
  BY <1>1 DEF IInv, TypeOK, CatalogType, RequestType, request
<1>4. RequestsFit'
  <2> SUFFICES ASSUME NEW u \in Thread, at'[u] = "write" PROVE ThreadFits(u)'
    BY DEF RequestsFit
  <2>1. SameRequest(u) /\ late'[u] = late[u]
    BY <1>1 DEF request, SameRequest
  <2>2. ThreadFits(u) /\ LinkedTo(key[u])' = LinkedTo(key[u])
    BY <2>1, <1>1 DEF IInv, RequestsFit, SameRequest, LinkedTo
  <2> QED BY <2>1, <2>2, <1>2, FitsStays
<1>5. DetectionType' /\ FoundStands' /\ DetectionFits'
  <2>1. CASE BeginDetection
    <3>1. DetectionType' /\ DetectionFits'
      BY <2>1 DEF BeginDetection, IInv, TypeOK, DetectionType, DetectionFits, database
    <3>2. FoundStands'
      BY <2>1, <1>2, StandsFrame DEF IInv, BeginDetection, database
    <3> QED BY <3>1, <3>2
  <2>2. CASE WorkerClears
    <3>1. DetectionType' /\ DetectionFits'
      BY <2>2 DEF WorkerClears, NoPolicies, IInv, TypeOK, DetectionType, DetectionFits, database
    <3>2. FoundStands'
      BY <2>2, <1>2, StandsFrame DEF IInv, WorkerClears, database
    <3> QED BY <3>1, <3>2
  <2>3. CASE WorkerInstalls
    <3>1. DetectionType' /\ DetectionFits'
      BY <2>3 DEF WorkerInstalls, IInv, TypeOK, DetectionType, DetectionFits, database
    <3>2. FoundStands'
      BY <2>3, <1>2, StandsFrame DEF IInv, WorkerInstalls, database
    <3> QED BY <3>1, <3>2
  <2>4. ASSUME NEW r \in Rule, MatchRule(r)
        PROVE  DetectionType' /\ FoundStands' /\ DetectionFits'
    <3>1. PICK row \in RuleRow : row = rule[r]
      BY <2>4 DEF MatchRule, IInv, TypeOK
    <3> DEFINE m == [rule |-> r, version |-> row.version, body |-> row.body]
    <3>2. row.version \in Version /\ row.body \in Body /\ Definition(row) # None
          /\ Definition(row).body = row.body
      BY RowFacts
    <3>3. m \in Evidence
      BY <3>2 DEF Evidence
    <3>4. found' = found \cup {m} /\ UNCHANGED evidence
      BY <2>4, <3>1 DEF MatchRule, database
    <3>5. DetectionType'
      BY <2>4, <3>3, <3>4 DEF MatchRule, IInv, TypeOK, DetectionType, database
    <3>6. history[r][row.version] = Definition(row)
      BY <3>1, <3>2 DEF IInv, CatalogInv, HistoryComplete
    <3>7. FoundStands'
      BY <3>2, <3>4, <3>6, <1>1 DEF IInv, FoundStands
    <3>8. DetectionFits'
      BY <2>4 DEF MatchRule, IInv, DetectionFits, database
    <3> QED BY <3>5, <3>7, <3>8
  <2>5. CASE CommitDetection
    <3>1. DetectionType' /\ DetectionFits'
      BY <2>5 DEF CommitDetection, EndDetection, IInv, TypeOK, DetectionType, DetectionFits
    <3>2. FoundStands'
      BY <2>5, <1>2, StandsFrame DEF IInv, CommitDetection, EndDetection
    <3> QED BY <3>1, <3>2
  <2>6. CASE RollBackDetection
    <3>1. DetectionType' /\ DetectionFits'
      BY <2>6 DEF RollBackDetection, EndDetection, IInv, TypeOK, DetectionType, DetectionFits
    <3>2. FoundStands'
      BY <2>6, <1>2, StandsFrame DEF IInv, RollBackDetection, EndDetection
    <3> QED BY <3>1, <3>2
  <2> QED BY <2>1, <2>2, <2>3, <2>4, <2>5, <2>6 DEF Detect
<1>6. TypeOK'
  BY <1>3, <1>5, TypePartsNext
<1> QED BY <1>2, <1>4, <1>5, <1>6 DEF IInv

LEMMA RestartInv == ASSUME IInv, Restart PROVE IInv'
<1>1. UNCHANGED <<rule, history, policy, evidence>>
  BY BaselineLaid DEF Restart, IInv, CatalogInv
<1>2. CatalogInv' /\ HistoryGrows
  BY <1>1, CatalogFrame DEF IInv
<1>3. CatalogType'
  BY <1>1 DEF IInv, TypeOK, CatalogType
<1>4. RequestType'
  BY DEF Restart, NoPolicies, IInv, TypeOK, RequestType
<1>5. DetectionType'
  BY DEF Restart, IInv, TypeOK, DetectionType
<1>6. TypeOK'
  BY <1>3, <1>4, <1>5, TypePartsNext
<1>7. RequestsFit' /\ DetectionFits'
  BY DEF Restart, RequestsFit, DetectionFits
<1>8. FoundStands'
  BY <1>1, <1>2, StandsFrame DEF IInv, Restart
<1> QED BY <1>2, <1>6, <1>7, <1>8 DEF IInv

---------------------------------------------------------------------------
(* Theorems *)

LEMMA RequestStepInv == ASSUME IInv, NEW t \in Thread, RequestStep(t) PROVE IInv'
<1>1. CASE Post(t) \/ Put(t) \/ Patch(t) \/ Delete(t)
  BY <1>1, BeginsInv
<1>2. CASE InsertRule(t) \/ StoreEdit(t) \/ RemoveRule(t)
  BY <1>2, InsertRuleInv, StoreEditInv, RemoveRuleInv
<1>3. CASE InsertPolicy(t) \/ StorePolicy(t) \/ StorePolicyFlag(t) \/ RemovePolicy(t)
  BY <1>3, InsertPolicyInv, StorePolicyInv, StorePolicyFlagInv, RemovePolicyInv
<1>4. CASE Refuse(t) \/ EndWithoutReload(t)
  BY <1>4, EndInv DEF Refuse, EndWithoutReload
<1>5. CASE ReadPolicies(t) \/ ClearPolicies(t) \/ InstallPolicies(t)
  BY <1>5, ReadPoliciesInv, ClearPoliciesInv, InstallPoliciesInv
<1> QED BY <1>1, <1>2, <1>3, <1>4, <1>5 DEF RequestStep

LEMMA StutterInv == ASSUME IInv, UNCHANGED vars PROVE IInv'
<1>1. CatalogInv' /\ HistoryGrows
  BY CatalogFrame DEF IInv, vars, database
<1>2. TypeOK'
  BY DEF IInv, TypeOK, vars, database, request, detector
<1>3. RequestsFit'
  BY DEF IInv, RequestsFit, ThreadFits, Fits, LinkedTo, vars, database, request
<1>4. FoundStands' /\ DetectionFits'
  BY <1>1, StandsFrame, DetectionFrame DEF IInv, vars, database, detector
<1> QED BY <1>1, <1>2, <1>3, <1>4 DEF IInv

\* The inductive invariant: histories are complete, what a request read is
\* still stored under the version it read, a deletion knows of every link made
\* since, matches name stored versions, and an undisturbed detection has the
\* stored policies.
THEOREM Invariant == Spec => []IInv
<1>1. IInv /\ [Next]_vars => IInv'
  BY RequestStepInv, DetectInv, RestartInv, StutterInv DEF Next
<1> QED BY <1>1, InitInv, PTL DEF Spec

\* Every variable keeps its type, for every set of rules, policies and threads.
THEOREM TypeCorrect == Spec => []TypeOK
<1>1. IInv => TypeOK
  BY DEF IInv
<1> QED BY <1>1, Invariant, PTL

\* The version history of every rule is complete and ends with the rule as it
\* is, whatever edits, rollbacks, deletions and recreations race.
THEOREM HistoriesComplete == Spec => []HistoryComplete
<1>1. IInv => HistoryComplete
  BY DEF IInv, CatalogInv
<1> QED BY <1>1, Invariant, PTL

\* A match can be traced to the definition that was evaluated, for ever.
THEOREM EvidenceTraceable == Spec => []EvidenceStands
<1>1. IInv => EvidenceStands
  BY DEF IInv, FoundStands, EvidenceStands
<1> QED BY <1>1, Invariant, PTL

\* A detection that no reload disturbs decides with the stored policies.
THEOREM DecisionsWithStored == Spec => []DecidedWithStored
<1>1. IInv => DecidedWithStored
  BY DEF IInv, DetectionFits, DecidedWithStored
<1> QED BY <1>1, Invariant, PTL

LEMMA GrowsNext == ASSUME IInv, [Next]_vars PROVE HistoryGrows
<1>1. ASSUME NEW t \in Thread, RequestStep(t) PROVE HistoryGrows
  <2>1. CASE InsertRule(t) \/ StoreEdit(t)
    BY <2>1, InsertRuleInv, StoreEditInv
  <2>2. CASE ~(InsertRule(t) \/ StoreEdit(t))
    <3>1. UNCHANGED history
      BY <1>1, <2>2 DEF RequestStep, Post, Put, Patch, Delete, CreateRule, UpdateRule,
         ToggleRule, RollbackRule, DeleteRule, CreatePolicy, UpdatePolicy, TogglePolicy,
         DeletePolicy, Begin, RemoveRule, InsertPolicy, StorePolicy, StorePolicyFlag,
         RemovePolicy, Written, Refuse, EndWithoutReload, ReadPolicies, ClearPolicies,
         InstallPolicies, database
    <3> QED BY <3>1 DEF HistoryGrows
  <2> QED BY <2>1, <2>2
<1>2. CASE Detect
  BY <1>2 DEF Detect, BeginDetection, WorkerClears, WorkerInstalls, MatchRule,
     CommitDetection, RollBackDetection, EndDetection, database, HistoryGrows
<1>3. CASE Restart
  BY <1>3, BaselineLaid DEF Restart, IInv, CatalogInv, HistoryGrows
<1>4. CASE UNCHANGED vars
  BY <1>4 DEF vars, database, HistoryGrows
<1> QED BY <1>1, <1>2, <1>3, <1>4 DEF Next

\* No step changes or removes a stored snapshot.
THEOREM SnapshotsNeverChange == Spec => HistoryAppendOnly
<1>1. IInv /\ [Next]_vars =>
        \A r \in Rule, v \in Version : history[r][v] # None => history'[r][v] = history[r][v]
  BY GrowsNext DEF HistoryGrows
<1> QED BY <1>1, Invariant, PTL DEF Spec, HistoryAppendOnly

\* A write request that ends in a step that changes a rule is thread t's own
\* edit or removal.
LEMMA WhoWritesRules ==
  ASSUME IInv, [Next]_vars, NEW t \in Thread, at[t] = "write", at'[t] = "idle",
         rule' # rule
  PROVE  InsertRule(t) \/ StoreEdit(t) \/ RemoveRule(t)
<1>1. ASSUME NEW u \in Thread, RequestStep(u)
      PROVE  InsertRule(t) \/ StoreEdit(t) \/ RemoveRule(t)
  <2>1. InsertRule(u) \/ StoreEdit(u) \/ RemoveRule(u)
    BY <1>1 DEF RequestStep, Post, Put, Patch, Delete, CreateRule, UpdateRule,
       ToggleRule, RollbackRule, DeleteRule, CreatePolicy, UpdatePolicy, TogglePolicy,
       DeletePolicy, Begin, InsertPolicy, StorePolicy, StorePolicyFlag,
       RemovePolicy, Written, Refuse, EndWithoutReload, ReadPolicies, ClearPolicies,
       InstallPolicies, database
  <2>2. u = t
    BY <2>1 DEF InsertRule, StoreEdit, RemoveRule, Finish, IInv, TypeOK
  <2> QED BY <2>1, <2>2
<1>2. ~Detect
  BY DEF Detect, BeginDetection, WorkerClears, WorkerInstalls, MatchRule,
     CommitDetection, RollBackDetection, EndDetection, database
<1>3. ~Restart /\ ~UNCHANGED vars
  BY DEF Restart, vars, database
<1> QED BY <1>1, <1>2, <1>3 DEF Next

\* An edit replaces the very row it was computed from.
THEOREM EditsAreNotLost == Spec => NoLostEdit
<1>1. IInv /\ [Next]_vars =>
        \A t \in Thread : Writing(t, Edits) /\ rule'[key[t]] # rule[key[t]]
                          /\ at'[t] = "idle" => rule[key[t]] = base[t]
  <2> SUFFICES ASSUME IInv, [Next]_vars, NEW t \in Thread, Writing(t, Edits),
                      rule'[key[t]] # rule[key[t]], at'[t] = "idle"
               PROVE  rule[key[t]] = base[t]
    OBVIOUS
  <2>1. StoreEdit(t)
    BY WhoWritesRules DEF Writing, InsertRule, RemoveRule, Edits
  <2> QED BY <2>1, EditFindsBase DEF StoreEdit
<1> QED BY <1>1, Invariant, PTL DEF Spec, NoLostEdit

\* A deletion misses only links that were made after it counted them.
THEOREM DeletionSeesLinks == Spec => DeleteSeesEarlierLinks
<1>1. IInv /\ [Next]_vars =>
        \A t \in Thread : Writing(t, {"delete_rule"}) /\ at'[t] = "idle"
                          /\ rule[key[t]] # None /\ rule'[key[t]] = None
                          => LinkedTo(key[t]) \subseteq late[t]
  <2> SUFFICES ASSUME IInv, NEW t \in Thread, Writing(t, {"delete_rule"})
               PROVE  LinkedTo(key[t]) \subseteq late[t]
    OBVIOUS
  <2> QED BY DEF Writing, IInv, RequestsFit, ThreadFits, Fits
<1> QED BY <1>1, Invariant, PTL DEF Spec, DeleteSeesEarlierLinks

---------------------------------------------------------------------------
(* The refinement of RuleHistory *)

\* A rollback stores a definition that the rule has had.
RollbackFits ==
  \A t \in Thread : Writing(t, {"rollback_rule"}) =>
    \E v \in Version : history[key[t]][v] = Definition(new[t])

LEMMA BeginRollbackFits ==
  ASSUME IInv, RollbackFits, NEW t \in Thread, Post(t) \/ Put(t) \/ Patch(t) \/ Delete(t)
  PROVE  RollbackFits'
<1>1. ASSUME NEW o, NEW k, NEW b, NEW n, Begin(t, o, k, b, n),
             o = "rollback_rule" => \E v \in Version : history[k][v] = Definition(n)
      PROVE  RollbackFits'
  <2> SUFFICES ASSUME NEW u \in Thread, Writing(u, {"rollback_rule"})'
               PROVE  \E v \in Version : history'[key'[u]][v] = Definition(new'[u])
    BY DEF RollbackFits
  <2>1. UNCHANGED history
    BY <1>1 DEF Begin, database
  <2>2. CASE u = t
    <3>1. op'[t] = o /\ key'[t] = k /\ new'[t] = n
      BY <1>1 DEF Begin, IInv, TypeOK
    <3> QED BY <1>1, <2>1, <2>2, <3>1 DEF Writing
  <2>3. CASE u # t
    <3>1. Writing(u, {"rollback_rule"}) /\ key'[u] = key[u] /\ new'[u] = new[u]
      BY <1>1, <2>3 DEF Begin, Writing, IInv, TypeOK
    <3> QED BY <2>1, <3>1 DEF RollbackFits
  <2> QED BY <2>2, <2>3
<1>2. ASSUME NEW r \in Rule, NEW v \in Version, RollbackRule(t, r, v) PROVE RollbackFits'
  <2>1. history[r][v] \in Snapshot
    BY <1>2 DEF RollbackRule, IInv, TypeOK
  <2> DEFINE n == Successor(rule[r], history[r][v].body, history[r][v].enabled)
  <2>2. Definition(n) = history[r][v]
    BY <2>1 DEF Definition, Successor, Snapshot
  <2>3. Begin(t, "rollback_rule", r, rule[r], n)
    BY <1>2 DEF RollbackRule
  <2> HIDE DEF n
  <2> QED BY <1>1, <2>2, <2>3
<1>3. ASSUME NEW o \in Operations \ {"rollback_rule"}, NEW k, NEW b, NEW n, Begin(t, o, k, b, n)
      PROVE  RollbackFits'
  BY <1>1, <1>3
<1>4. CASE Post(t)
  BY <1>2, <1>3, <1>4 DEF Post, CreateRule, ToggleRule, CreatePolicy, TogglePolicy, Operations, Edits
<1>5. CASE Put(t)
  BY <1>3, <1>5 DEF Put, UpdateRule, UpdatePolicy, Operations, Edits
<1>6. CASE Patch(t)
  BY <1>3, <1>6 DEF Patch, ToggleRule, TogglePolicy, Operations, Edits
<1>7. CASE Delete(t)
  BY <1>3, <1>7 DEF Delete, DeleteRule, DeletePolicy, Operations, Edits
<1> QED BY <1>4, <1>5, <1>6, <1>7

\* A request that is not the rollback of another thread leaves it alone.
LEMMA RollbackFrame ==
  ASSUME IInv, RollbackFits, HistoryGrows,
         \A u \in Thread : at'[u] = "write" => SameRequest(u)
  PROVE  RollbackFits'
<1> SUFFICES ASSUME NEW u \in Thread, Writing(u, {"rollback_rule"})'
             PROVE  \E v \in Version : history'[key'[u]][v] = Definition(new'[u])
  BY DEF RollbackFits
<1>1. Writing(u, {"rollback_rule"}) /\ key'[u] = key[u] /\ new'[u] = new[u]
  BY DEF Writing, SameRequest
<1>2. PICK v \in Version : history[key[u]][v] = Definition(new[u])
  BY <1>1 DEF RollbackFits
<1>3. key[u] \in Rule /\ Definition(new[u]) # None
  BY <1>1, RowFacts DEF Writing, IInv, RequestsFit, ThreadFits, Fits, Edits
<1> QED BY <1>1, <1>2, <1>3 DEF HistoryGrows

\* Between the two halves of a request, only its own thread moves it.
LEMMA SecondHalf ==
  ASSUME IInv, NEW t \in Thread, RequestStep(t), ~(Post(t) \/ Put(t) \/ Patch(t) \/ Delete(t))
  PROVE  /\ \A u \in Thread : u # t => SameRequest(u)
         /\ at'[t] # "write"
<1>1. CASE InsertRule(t) \/ StoreEdit(t) \/ RemoveRule(t) \/ Refuse(t) \/ EndWithoutReload(t)
           \/ InstallPolicies(t)
  BY <1>1 DEF InsertRule, StoreEdit, RemoveRule, Refuse, EndWithoutReload, InstallPolicies, Finish,
     SameRequest, IInv, TypeOK
<1>2. CASE InsertPolicy(t) \/ StorePolicy(t) \/ StorePolicyFlag(t) \/ RemovePolicy(t)
  BY <1>2 DEF InsertPolicy, StorePolicy, StorePolicyFlag, RemovePolicy, Written, SameRequest,
     IInv, TypeOK
<1>3. CASE ReadPolicies(t) \/ ClearPolicies(t)
  BY <1>3 DEF ReadPolicies, ClearPolicies, SameRequest, IInv, TypeOK
<1> QED BY <1>1, <1>2, <1>3 DEF RequestStep

LEMMA RollbackNext ==
  ASSUME IInv, RollbackFits, [Next]_vars
  PROVE  RollbackFits'
<1>0. HistoryGrows
  BY GrowsNext
<1>1. ASSUME NEW t \in Thread, RequestStep(t) PROVE RollbackFits'
  <2>1. CASE Post(t) \/ Put(t) \/ Patch(t) \/ Delete(t)
    BY <2>1, BeginRollbackFits
  <2>2. CASE ~(Post(t) \/ Put(t) \/ Patch(t) \/ Delete(t))
    <3>1. \A u \in Thread : at'[u] = "write" => SameRequest(u)
      BY <1>1, <2>2, SecondHalf
    <3> QED BY <1>0, <3>1, RollbackFrame
  <2> QED BY <2>1, <2>2
<1>2. CASE Detect \/ UNCHANGED vars
  <2>1. UNCHANGED request
    BY <1>2 DEF Detect, BeginDetection, WorkerClears, WorkerInstalls, MatchRule,
       CommitDetection, RollBackDetection, EndDetection, vars
  <2> QED BY <1>0, <2>1, RollbackFrame DEF request, SameRequest
<1>3. CASE Restart
  BY <1>3 DEF Restart, RollbackFits, Writing
<1> QED BY <1>1, <1>2, <1>3 DEF Next

\* The snapshots up to version n, in order.
LEMMA InOrderIs ==
  ASSUME NEW h \in [Version -> Snapshot \cup {None}], NEW n \in Nat, n <= MaxVersion,
         \A v \in Version : h[v] # None <=> v <= n
  PROVE  /\ InOrder(h) \in Seq(Snapshot)
         /\ Len(InOrder(h)) = n
         /\ \A v \in 1..n : InOrder(h)[v] = h[v]
<1>1. {w \in Version : h[w] # None} = 1..n
  BY DEF Version
<1>2. \A v \in 1..n : h[v] \in Snapshot
  BY <1>1 DEF Version
<1>3. InOrder(h) = [v \in 1..n |-> h[v]]
  BY <1>1 DEF InOrder
<1>4. InOrder(h) \in [1..n -> Snapshot]
  BY <1>2, <1>3
<1>5. InOrder(h) \in Seq(Snapshot)
  BY <1>4, SeqDef
<1>6. Len(InOrder(h)) = n
  BY <1>4, <1>5, LenProperties
<1> QED BY <1>3, <1>5, <1>6

\* A rule that never had a version.
LEMMA InOrderEmpty ==
  ASSUME NEW h \in [Version -> Snapshot \cup {None}], \A v \in Version : h[v] = None
  PROVE  InOrder(h) = <<>>
<1>1. 0 \in Nat /\ 0 <= MaxVersion
  BY CatalogAssumption DEF CatalogAssumption
<1>2. \A v \in Version : h[v] # None <=> v <= 0
  BY DEF Version
<1>3. InOrder(h) \in Seq(Snapshot) /\ Len(InOrder(h)) = 0
  BY <1>1, <1>2, InOrderIs
<1>4. \A s \in Seq(Snapshot) : s # <<>> => Len(s) # 0
  BY EmptySeq
<1> QED BY <1>3, <1>4

\* The next version comes at the end.
LEMMA InOrderAppends ==
  ASSUME NEW h \in [Version -> Snapshot \cup {None}], NEW n \in Nat, n < MaxVersion,
         \A v \in Version : h[v] # None <=> v <= n,
         NEW g \in [Version -> Snapshot \cup {None}], NEW d \in Snapshot,
         \A v \in Version : g[v] = IF v = n + 1 THEN d ELSE h[v]
  PROVE  InOrder(g) = Append(InOrder(h), d)
<1>1. /\ InOrder(h) \in Seq(Snapshot) /\ Len(InOrder(h)) = n
      /\ \A v \in 1..n : InOrder(h)[v] = h[v]
  BY InOrderIs
<1>2. \A v \in Version : g[v] # None <=> v <= n + 1
  BY RowFacts DEF Version
<1>3. /\ InOrder(g) \in Seq(Snapshot) /\ Len(InOrder(g)) = n + 1
      /\ \A v \in 1..(n + 1) : InOrder(g)[v] = g[v]
  BY <1>2, InOrderIs
<1>4. /\ Append(InOrder(h), d) \in Seq(Snapshot)
      /\ Len(Append(InOrder(h), d)) = n + 1
      /\ \A v \in 1..(n + 1) : Append(InOrder(h), d)[v] = IF v = n + 1 THEN d ELSE InOrder(h)[v]
  BY <1>1, AppendProperties
<1>5. \A v \in 1..(n + 1) : g[v] = IF v = n + 1 THEN d ELSE InOrder(h)[v]
  BY <1>1 DEF Version
<1> QED BY <1>3, <1>4, <1>5, SeqEqual

\* The list of a rule in the catalog has as many definitions as its version.
LEMMA ListedRule ==
  ASSUME IInv, NEW r \in Listed
  PROVE  /\ rule[r] \in RuleRow /\ rule[r].version \in Version
         /\ \A v \in Version : history[r][v] # None <=> v <= rule[r].version
         /\ InOrder(history[r]) \in Seq(Snapshot)
         /\ Len(InOrder(history[r])) = rule[r].version
         /\ \A v \in 1..rule[r].version : InOrder(history[r])[v] = history[r][v]
<1>1. rule[r] \in RuleRow /\ history[r] \in [Version -> Snapshot \cup {None}]
  BY DEF Listed, IInv, TypeOK
<1>2. rule[r].version \in Version
  BY <1>1, RowFacts
<1>3. \A v \in Version : history[r][v] # None <=> v <= rule[r].version
  BY DEF Listed, IInv, CatalogInv, HistoryComplete
<1>4. rule[r].version \in Nat /\ rule[r].version <= MaxVersion
  BY <1>2 DEF Version
<1> QED BY <1>1, <1>2, <1>3, <1>4, InOrderIs

\* The requests that have not been answered, as threads come and go.
LEMMA UnansweredStays ==
  ASSUME \A u \in Thread : Writing(u, RuleRequests)' <=> Writing(u, RuleRequests),
         \A u \in Thread : Writing(u, RuleRequests) => SameRequest(u)
  PROVE  Unanswered' = Unanswered
<1>1. \A u \in Thread : Writing(u, RuleRequests) => Asked(u)' = Asked(u)
  BY DEF Asked, SameRequest
<1> QED BY <1>1 DEF Unanswered

LEMMA UnansweredEnds ==
  ASSUME NEW t \in Thread, Writing(t, RuleRequests), at'[t] # "write",
         \A u \in Thread : u # t => SameRequest(u)
  PROVE  Asked(t) \in Unanswered /\ Unanswered' = Unanswered \ {Asked(t)}
<1>1. \A u \in Thread : u # t => /\ Writing(u, RuleRequests)' <=> Writing(u, RuleRequests)
                                 /\ Asked(u)' = Asked(u)
  BY DEF Asked, SameRequest, Writing
<1>2. ~Writing(t, RuleRequests)'
  BY DEF Writing
<1>3. \A u \in Thread : u # t => Asked(u) # Asked(t)
  BY DEF Asked
<1> QED BY <1>1, <1>2, <1>3 DEF Unanswered

LEMMA UnansweredBegins ==
  ASSUME IInv, NEW t \in Thread, NEW o \in RuleRequests, NEW k, NEW b, NEW n, Begin(t, o, k, b, n)
  PROVE  /\ Unanswered' = Unanswered \cup {Asked(t)'}
         /\ Asked(t)' = [thread |-> t, kind |-> o, rule |-> k,
                         seen |-> IF o = "create_rule" THEN 0 ELSE b.version]
         /\ \A q \in Unanswered : q.thread # t
<1>1. \A u \in Thread : u # t => SameRequest(u)
  BY DEF Begin, SameRequest, IInv, TypeOK
<1>2. \A u \in Thread : u # t => /\ Writing(u, RuleRequests)' <=> Writing(u, RuleRequests)
                                 /\ Asked(u)' = Asked(u)
  BY <1>1 DEF Asked, SameRequest, Writing
<1>3. at'[t] = "write" /\ op'[t] = o /\ key'[t] = k /\ base'[t] = b /\ at[t] = "idle"
  BY DEF Begin, IInv, TypeOK
<1>4. Writing(t, RuleRequests)' /\ ~Writing(t, RuleRequests)
  BY <1>3 DEF Writing, RuleRequests
<1>5. Unanswered' = Unanswered \cup {Asked(t)'}
  BY <1>2, <1>4 DEF Unanswered
<1>6. \A q \in Unanswered : q.thread # t
  BY <1>4 DEF Unanswered, Asked
<1> QED BY <1>3, <1>5, <1>6 DEF Asked

LEMMA HistoryStutters ==
  ASSUME UNCHANGED <<rule, history, Unanswered>>
  PROVE  UNCHANGED History!vars
BY DEF History!vars, Listed

---------------------------------------------------------------------------
(* Each step of the catalog as a step of RuleHistory *)

LEMMA BeginAsks ==
  ASSUME IInv, NEW t \in Thread, NEW o \in RuleRequests, NEW k \in Rule, NEW b, NEW n,
         Begin(t, o, k, b, n), k \in Listed <=> o # "create_rule",
         o # "create_rule" => b = rule[k]
  PROVE  History!Next
<1> DEFINE p == [thread |-> t, kind |-> o, rule |-> k,
                 seen |-> IF o = "create_rule" THEN 0 ELSE b.version]
<1>1. /\ Unanswered' = Unanswered \cup {p}
      /\ \A q \in Unanswered : q.thread # t
  BY UnansweredBegins
<1>2. p \in Unanswered' \ Unanswered
  BY <1>1
<1>3. o # "create_rule" => /\ b.version = Len(InOrder(history[k]))
                           /\ b.version \in Nat
  BY ListedRule DEF Version
<1>4. p \in History!Request
  BY <1>3 DEF History!Request, History!Kind, History!EditKind, RuleRequests, Edits
<1>5. UNCHANGED <<Listed, history>>
  BY DEF Begin, database, Listed
<1>6. History!Ask(p)
  BY <1>1, <1>3, <1>4, <1>5 DEF History!Ask
<1> HIDE DEF p
<1> QED BY <1>2, <1>6 DEF History!Next

LEMMA PolicyBegins ==
  ASSUME IInv, NEW t \in Thread, NEW o, o \notin RuleRequests, NEW k, NEW b, NEW n,
         Begin(t, o, k, b, n)
  PROVE  UNCHANGED History!vars
<1>1. \A u \in Thread : u # t => SameRequest(u)
  BY DEF Begin, SameRequest, IInv, TypeOK
<1>2. ~Writing(t, RuleRequests)' /\ ~Writing(t, RuleRequests)
  BY DEF Begin, Writing, IInv, TypeOK
<1>3. \A u \in Thread : u # t => (Writing(u, RuleRequests)' <=> Writing(u, RuleRequests))
  BY <1>1 DEF SameRequest, Writing
<1>4. Unanswered' = Unanswered
  BY <1>1, <1>2, <1>3, UnansweredStays
<1> QED BY <1>4, HistoryStutters DEF Begin, database

LEMMA FirstHalfMaps ==
  ASSUME IInv, NEW t \in Thread, Post(t) \/ Put(t) \/ Patch(t) \/ Delete(t)
  PROVE  History!Next \/ UNCHANGED History!vars
<1>1. ASSUME NEW r \in Rule, NEW o \in RuleRequests, NEW b, NEW n, Begin(t, o, r, b, n),
             IF o = "create_rule" THEN rule[r] = None ELSE rule[r] # None /\ b = rule[r]
      PROVE  History!Next
  BY <1>1, BeginAsks DEF Listed
<1>2. ASSUME NEW r \in Rule, NEW b \in Body, CreateRule(t, r, b) PROVE History!Next
  BY <1>1, <1>2 DEF CreateRule, RuleRequests
<1>3. ASSUME NEW r \in Rule, NEW b \in Body, NEW f \in Flag, UpdateRule(t, r, b, f)
      PROVE  History!Next
  BY <1>1, <1>3 DEF UpdateRule, RuleRequests, Edits
<1>4. ASSUME NEW r \in Rule, NEW asked \in Flag \cup {None}, ToggleRule(t, r, asked)
      PROVE  History!Next
  BY <1>1, <1>4 DEF ToggleRule, RuleRequests, Edits
<1>5. ASSUME NEW r \in Rule, NEW v \in Version, RollbackRule(t, r, v) PROVE History!Next
  BY <1>1, <1>5 DEF RollbackRule, RuleRequests, Edits
<1>6. ASSUME NEW r \in Rule, DeleteRule(t, r) PROVE History!Next
  BY <1>1, <1>6 DEF DeleteRule, RuleRequests
<1>7. ASSUME NEW p \in Policy,
             \/ \E l \in Rule \cup {NoRule} : CreatePolicy(t, p, l)
             \/ \E l \in Rule \cup {NoRule}, f \in Flag : UpdatePolicy(t, p, l, f)
             \/ \E f \in Flag \cup {None} : TogglePolicy(t, p, f)
             \/ DeletePolicy(t, p)
      PROVE  UNCHANGED History!vars
  BY <1>7, PolicyBegins DEF CreatePolicy, UpdatePolicy, TogglePolicy, DeletePolicy, RuleRequests,
     Edits
<1> QED BY <1>2, <1>3, <1>4, <1>5, <1>6, <1>7 DEF Post, Put, Patch, Delete

\* A request of thread t that writes is answered.
LEMMA WriteAnswers ==
  ASSUME IInv, NEW t \in Thread, Writing(t, RuleRequests), Finish(t)
  PROVE  Asked(t) \in Unanswered /\ Unanswered' = Unanswered \ {Asked(t)}
<1>1. at'[t] # "write" /\ \A u \in Thread : u # t => SameRequest(u)
  BY DEF Finish, SameRequest, IInv, TypeOK
<1> QED BY <1>1, UnansweredEnds

\* The lists of all rules, after the snapshots of one were written.
LEMMA ListsAfter ==
  ASSUME NEW r \in Rule, NEW s, InOrder(history'[r]) = s,
         \A q \in Rule : q # r => history'[q] = history[q]
  PROVE  [q \in Rule |-> InOrder(history[q])]' =
           [[q \in Rule |-> InOrder(history[q])] EXCEPT ![r] = s]
OBVIOUS

\* A snapshot is stored under the version after the last one of its rule.
LEMMA SavedNext ==
  ASSUME IInv, NEW r \in Rule, NEW row \in RuleRow, NEW n \in Nat, row.version = n + 1,
         \A v \in Version : history[r][v] # None <=> v <= n,
         MaySave(r, row.version), SaveVersion(r, row.version, row)
  PROVE  /\ Definition(row) \in History!Definition
         /\ [q \in Rule |-> InOrder(history[q])]' =
              [[q \in Rule |-> InOrder(history[q])]
                 EXCEPT ![r] = Append(InOrder(history[r]), Definition(row))]
<1>1. row.version \in Version /\ Definition(row) \in Snapshot
  BY RowFacts
<1>2. /\ history' \in [Rule -> [Version -> Snapshot \cup {None}]]
      /\ \A q \in Rule, w \in Version :
           history'[q][w] = IF q = r /\ w = row.version THEN Definition(row) ELSE history[q][w]
  BY <1>1, SaveVersionType DEF IInv
<1>3. history \in [Rule -> [Version -> Snapshot \cup {None}]]
  BY DEF IInv, TypeOK
<1>4. \A q \in Rule : q # r => history'[q] = history[q]
  BY <1>2, <1>3
<1>5. n < MaxVersion
  BY <1>1 DEF Version
<1>6. PICK g \in [Version -> Snapshot \cup {None}] : g = history'[r]
  BY <1>2
<1>7. PICK h \in [Version -> Snapshot \cup {None}] : h = history[r]
  BY <1>3
<1>8. \A v \in Version : g[v] = IF v = n + 1 THEN Definition(row) ELSE h[v]
  BY <1>2, <1>6, <1>7
<1>9. InOrder(g) = Append(InOrder(h), Definition(row))
  BY <1>1, <1>5, <1>7, <1>8, InOrderAppends
<1>10. Definition(row) \in History!Definition
  BY <1>1 DEF Snapshot, Flag, History!Definition
<1> QED BY <1>4, <1>6, <1>7, <1>9, <1>10, ListsAfter

LEMMA InsertCreates ==
  ASSUME IInv, NEW t \in Thread, InsertRule(t)
  PROVE  History!Next
<1>1. PICK r \in Rule : r = key[t]
  BY DEF InsertRule, Writing, IInv, RequestsFit, ThreadFits, Fits
<1>2. PICK n \in RuleRow : n = new[t] /\ n.version = 1
  BY DEF InsertRule, Writing, IInv, RequestsFit, ThreadFits, Fits
<1>3. /\ rule[r] = None /\ MaySave(r, 1) /\ SaveVersion(r, 1, n)
      /\ rule' = [rule EXCEPT ![r] = n]
  BY <1>1, <1>2 DEF InsertRule, MayCreate
<1>4. \A v \in Version : history[r][v] = None
  BY <1>3 DEF MaySave, IInv, CatalogInv, FirstStays
<1>5. InOrder(history[r]) = <<>>
  BY <1>4, InOrderEmpty DEF IInv, TypeOK
<1>6. /\ Definition(n) \in History!Definition
      /\ [q \in Rule |-> InOrder(history[q])]' =
           [[q \in Rule |-> InOrder(history[q])]
              EXCEPT ![r] = Append(InOrder(history[r]), Definition(n))]
  <2>1. \A v \in Version : history[r][v] # None <=> v <= 0
    BY <1>4 DEF Version
  <2>2. n.version = 0 + 1 /\ MaySave(r, n.version) /\ SaveVersion(r, n.version, n)
    BY <1>2, <1>3
  <2> QED BY <2>1, <2>2, SavedNext
<1>7. Append(InOrder(history[r]), Definition(n)) = <<Definition(n)>>
  BY <1>5
<1>8. Listed' = Listed \cup {r}
  BY <1>3, RowFacts DEF Listed, IInv, TypeOK
<1>9. Writing(t, RuleRequests) /\ Finish(t) /\ op[t] = "create_rule"
  BY DEF InsertRule, Writing, RuleRequests
<1>10. Asked(t) \in Unanswered /\ Unanswered' = Unanswered \ {Asked(t)}
  BY <1>9, WriteAnswers
<1>11. Asked(t).kind = "create_rule" /\ Asked(t).rule = r
  BY <1>1, <1>9 DEF Asked
<1>12. History!Create(Asked(t))
  BY <1>5, <1>6, <1>7, <1>8, <1>11 DEF History!Create
<1>13. History!Answer(Asked(t))
  BY <1>10, <1>12 DEF History!Answer
<1> QED BY <1>10, <1>13 DEF History!Next

LEMMA StoreEdits ==
  ASSUME IInv, RollbackFits, NEW t \in Thread, StoreEdit(t)
  PROVE  History!Next
<1>1. PICK r \in Rule : r = key[t]
  BY EditFindsBase DEF StoreEdit
<1>2. PICK b \in RuleRow : b = rule[r] /\ b = base[t]
  BY <1>1, EditFindsBase DEF StoreEdit
<1>3. PICK n \in RuleRow : n = new[t] /\ n.version = b.version + 1
  BY <1>2, EditFindsBase DEF StoreEdit
<1>4. PICK row \in RuleRow : /\ row = Edited(t) /\ row.version = n.version
                             /\ op[t] = "toggle_rule" => row.body = b.body
                             /\ op[t] # "toggle_rule" => row = n
  <2>1. CASE op[t] = "toggle_rule"
    <3>1. Edited(t) = [b EXCEPT !.version = n.version, !.enabled = n.enabled]
      BY <2>1, <1>1, <1>2, <1>3 DEF Edited
    <3> QED BY <2>1, <3>1 DEF RuleRow
  <2>2. CASE op[t] # "toggle_rule"
    BY <2>2, <1>3 DEF Edited
  <2> QED BY <2>1, <2>2
<1>5. b # None /\ b.version \in Version
  BY RowFacts
<1>6. r \in Listed
  BY <1>2, <1>5 DEF Listed
<1>7. /\ \A v \in Version : history[r][v] # None <=> v <= b.version
      /\ Len(InOrder(history[r])) = b.version
      /\ \A v \in 1..b.version : InOrder(history[r])[v] = history[r][v]
  BY <1>2, <1>6, ListedRule
<1>8. /\ MaySave(r, row.version) /\ SaveVersion(r, row.version, row)
      /\ rule' = [rule EXCEPT ![r] = row]
  BY <1>1, <1>3, <1>4 DEF StoreEdit, MayEdit
<1>9. /\ Definition(row) \in History!Definition
      /\ [q \in Rule |-> InOrder(history[q])]' =
           [[q \in Rule |-> InOrder(history[q])]
              EXCEPT ![r] = Append(InOrder(history[r]), Definition(row))]
  <2>1. b.version \in Nat
    BY <1>5 DEF Version
  <2> QED BY <2>1, <1>3, <1>4, <1>7, <1>8, SavedNext
<1>10. Listed' = Listed
  BY <1>6, <1>8, RowFacts DEF Listed, IInv, TypeOK
<1>11. History!EditOf(op[t], InOrder(history[r]), Definition(row))
  <2>1. ASSUME op[t] = "toggle_rule"
        PROVE  Definition(row).body = InOrder(history[r])[Len(InOrder(history[r]))].body
    <3>1. history[r][b.version] = Definition(b)
      BY <1>2, <1>5 DEF IInv, CatalogInv, HistoryComplete
    <3>2. b.version \in 1..b.version
      BY <1>5 DEF Version
    <3>3. InOrder(history[r])[Len(InOrder(history[r]))] = Definition(b)
      BY <1>7, <3>1, <3>2
    <3> QED BY <2>1, <1>4, <3>3, RowFacts
  <2>2. ASSUME op[t] = "rollback_rule"
        PROVE  \E v \in 1..Len(InOrder(history[r])) : Definition(row) = InOrder(history[r])[v]
    <3>1. PICK v \in Version : history[r][v] = Definition(n)
      BY <2>2, <1>1, <1>3 DEF RollbackFits, StoreEdit, Writing
    <3>2. v \in 1..b.version
      BY <3>1, <1>7, RowFacts, <1>5 DEF Version
    <3> QED BY <2>2, <3>1, <3>2, <1>4, <1>7
  <2> QED BY <2>1, <2>2 DEF History!EditOf
<1>12. Writing(t, RuleRequests) /\ Finish(t) /\ op[t] \in Edits
  BY DEF StoreEdit, Writing, RuleRequests
<1>13. Asked(t) \in Unanswered /\ Unanswered' = Unanswered \ {Asked(t)}
  BY <1>12, WriteAnswers
<1>14. Asked(t).kind = op[t] /\ Asked(t).rule = r /\ Asked(t).seen = b.version
  BY <1>1, <1>2, <1>12 DEF Asked, Edits
<1>15. History!Edit(Asked(t))
  BY <1>6, <1>7, <1>9, <1>10, <1>11, <1>12, <1>14 DEF History!Edit, History!EditKind, Edits
<1>16. History!Answer(Asked(t))
  BY <1>13, <1>15 DEF History!Answer
<1> QED BY <1>13, <1>16 DEF History!Next

LEMMA RemoveDeletes ==
  ASSUME IInv, NEW t \in Thread, RemoveRule(t)
  PROVE  History!Next
<1>1. PICK r \in Rule : r = key[t]
  BY DEF RemoveRule, Writing, IInv, RequestsFit, ThreadFits, Fits
<1>2. Listed' = Listed \ {r} /\ UNCHANGED history
  BY <1>1 DEF RemoveRule, Listed, IInv, TypeOK
<1>3. Writing(t, RuleRequests) /\ Finish(t) /\ op[t] = "delete_rule"
  BY DEF RemoveRule, Writing, RuleRequests
<1>4. Asked(t) \in Unanswered /\ Unanswered' = Unanswered \ {Asked(t)}
  BY <1>3, WriteAnswers
<1>5. Asked(t).kind = "delete_rule" /\ Asked(t).rule = r
  BY <1>1, <1>3 DEF Asked
<1>6. History!Answer(Asked(t))
  BY <1>2, <1>4, <1>5 DEF History!Answer, History!Delete
<1> QED BY <1>4, <1>6 DEF History!Next

\* A request that ends without writing a rule, or is about policies.
LEMMA OthersMap ==
  ASSUME IInv, NEW t \in Thread, UNCHANGED <<rule, history>>, at'[t] # "write",
         \A u \in Thread : u # t => SameRequest(u)
  PROVE  History!Next \/ UNCHANGED History!vars
<1>1. CASE Writing(t, RuleRequests)
  <2>1. Asked(t) \in Unanswered /\ Unanswered' = Unanswered \ {Asked(t)}
    BY <1>1, UnansweredEnds
  <2>2. UNCHANGED Listed
    BY DEF Listed
  <2>3. History!Answer(Asked(t))
    BY <2>1, <2>2 DEF History!Answer, History!Refuse
  <2> QED BY <2>1, <2>3 DEF History!Next
<1>2. CASE ~Writing(t, RuleRequests)
  <2>1. \A u \in Thread : Writing(u, RuleRequests)' <=> Writing(u, RuleRequests)
    BY <1>2 DEF Writing, SameRequest
  <2>2. Unanswered' = Unanswered
    BY <1>2, <2>1, UnansweredStays
  <2> QED BY <2>2, HistoryStutters
<1> QED BY <1>1, <1>2

LEMMA HistoryNext ==
  ASSUME IInv, RollbackFits, [Next]_vars
  PROVE  History!Next \/ UNCHANGED History!vars
<1>1. ASSUME NEW t \in Thread, RequestStep(t)
      PROVE  History!Next \/ UNCHANGED History!vars
  <2>1. CASE Post(t) \/ Put(t) \/ Patch(t) \/ Delete(t)
    BY <2>1, FirstHalfMaps
  <2>2. CASE InsertRule(t) \/ StoreEdit(t) \/ RemoveRule(t)
    BY <2>2, InsertCreates, StoreEdits, RemoveDeletes
  <2>3. CASE ~( Post(t) \/ Put(t) \/ Patch(t) \/ Delete(t)
                \/ InsertRule(t) \/ StoreEdit(t) \/ RemoveRule(t) )
    <3>1. UNCHANGED <<rule, history>>
      BY <1>1, <2>3 DEF RequestStep, InsertPolicy, StorePolicy, StorePolicyFlag, RemovePolicy,
         Written, Refuse, EndWithoutReload, ReadPolicies, ClearPolicies, InstallPolicies, database
    <3>2. at'[t] # "write" /\ \A u \in Thread : u # t => SameRequest(u)
      BY <1>1, <2>3, SecondHalf
    <3> QED BY <3>1, <3>2, OthersMap
  <2> QED BY <2>1, <2>2, <2>3
<1>2. CASE Detect \/ UNCHANGED vars
  <2>1. UNCHANGED <<rule, history, request>>
    BY <1>2 DEF Detect, BeginDetection, WorkerClears, WorkerInstalls, MatchRule,
       CommitDetection, RollBackDetection, EndDetection, vars, database
  <2>2. Unanswered' = Unanswered
    BY <2>1, UnansweredStays DEF request, SameRequest, Writing
  <2> QED BY <2>1, <2>2, HistoryStutters
<1>3. CASE Restart
  <2>1. UNCHANGED <<rule, history>>
    BY <1>3, BaselineLaid DEF Restart, IInv, CatalogInv
  <2>2. Unanswered' = {}
    BY <1>3 DEF Restart, Unanswered, Writing
  <2> QED BY <2>1, <2>2 DEF History!Next, History!Restart, Listed
<1> QED BY <1>1, <1>2, <1>3 DEF Next

LEMMA HistoryInit == Init => History!Init /\ RollbackFits
<1> SUFFICES ASSUME Init PROVE History!Init /\ RollbackFits
  OBVIOUS
<1>1. IInv
  BY InitInv
<1>2. Unanswered = {} /\ RollbackFits
  BY DEF Init, Unanswered, Writing, RollbackFits
<1>3. \A r \in Rule : rule[r] # None => rule[r].version = 1
  BY DEF Init
<1>4. ASSUME NEW r \in Listed PROVE \E d \in History!Definition : InOrder(history[r]) = <<d>>
  <2>1. /\ rule[r].version = 1 /\ r \in Rule
        /\ InOrder(history[r]) \in Seq(Snapshot) /\ Len(InOrder(history[r])) = 1
    BY <1>1, <1>3, <1>4, ListedRule DEF Listed
  <2>2. InOrder(history[r])[1] \in Snapshot
    BY <2>1, ElementOfSeq
  <2>3. InOrder(history[r]) = <<InOrder(history[r])[1]>>
    BY <2>1
  <2> QED BY <2>2, <2>3 DEF Snapshot, Flag, History!Definition
<1>5. ASSUME NEW r \in Rule \ Listed PROVE InOrder(history[r]) = <<>>
  <2>1. rule[r] = None
    BY DEF Listed
  <2>2. \A v \in Version : history[r][v] = None
    BY <2>1 DEF Init, Baseline
  <2> QED BY <1>1, <2>2, InOrderEmpty DEF IInv, TypeOK
<1> QED BY <1>2, <1>4, <1>5 DEF History!Init, Listed

\* A read in one transaction and a write in another are together one edit: the
\* catalog implements lists of definitions that are edited in one step.
THEOREM Refinement == Spec => ImplementsHistory
<1>1. IInv /\ RollbackFits /\ [Next]_vars => (IInv /\ RollbackFits)'
  BY RollbackNext, RequestStepInv, DetectInv, RestartInv, StutterInv DEF Next
<1>2. IInv /\ RollbackFits /\ [Next]_vars => [History!Next]_(History!vars)
  BY HistoryNext
<1> QED BY <1>1, <1>2, InitInv, HistoryInit, PTL DEF Spec, ImplementsHistory, History!Spec
=============================================================================
