---------------------------- MODULE RuleCatalog ----------------------------
(***************************************************************************)
(* The manager's rules, their version history and the response policies    *)
(* (storage/database.py), edited by the request threads of the HTTP server *)
(* (api/server.py) while the detection worker evaluates them               *)
(* (engine/pipeline.py).                                                   *)
(*                                                                         *)
(* Every operator request reads the row it is about, computes the row it   *)
(* is going to write, and writes it in a later transaction of its own;     *)
(* nothing but the primary key of rule_versions relates the two.  The      *)
(* policies are used from a list in memory that every request thread and   *)
(* the worker refill in two assignments.                                   *)
(*                                                                         *)
(* Abstractions.                                                           *)
(*  - A rule's definition is its body (condition, severity, delta...),     *)
(*    which an operator replaces as a whole, and the enabled flag; of a    *)
(*    policy's only the linked rule and the flag are kept.  Only valid     *)
(*    definitions reach the model; a refused one changes nothing.          *)
(*  - rule_id and code are the same value, as create_rule makes them when  *)
(*    no rule_id is given.                                                 *)
(*  - Audit entries and broadcasts do not touch this state; a fault in     *)
(*    one of them ends the request before its reload.  _rules_cache is     *)
(*    never read and left out.                                             *)
(***************************************************************************)
EXTENDS Integers, FiniteSets

CONSTANTS
  Rule,        \* rule_id values
  Policy,      \* policy_id values
  Thread,      \* request threads
  Body,        \* what a definition says, besides its enabled flag
  MaxVersion,  \* bound on the versions of a rule
  MaxRequests, \* bound on the requests that reach the database
  NoRule,      \* the link of a policy for any rule
  None

Version   == 1..MaxVersion
Flag      == {0, 1}
RuleRow   == [version : Version, body : Body, enabled : Flag]
Snapshot  == [body : Body, enabled : Flag]
PolicyRow == [link : Rule \cup {NoRule}, enabled : Flag]
Evidence  == [rule : Rule, version : Version, body : Body]

ASSUME CatalogAssumption ==
  /\ MaxVersion \in Nat \ {0} /\ MaxRequests \in Nat
  /\ NoRule \notin Rule
  /\ None \notin Rule \cup Policy \cup RuleRow \cup PolicyRow \cup Snapshot

VARIABLES
  \* the database
  rule,       \* rules: the current row of each rule, or None
  history,    \* rule_versions: the snapshot stored for each version, or None
  policy,     \* policies: the row of each policy, or None
  evidence,   \* the committed matches: the rule version each one names and
              \* the body that was evaluated
  \* the request threads
  at, op, key,
  base,       \* the row the request read
  new,        \* the row it is going to write
  list,       \* the policies its reload read
  \* the engine
  engine,     \* policy_engine.policies, shared by every thread
  worker,     \* where the detection transaction is; it holds the write lock
              \* of the database except when "idle"
  found,      \* the matches of the detection in progress
  decided,    \* the policies its last match was decided with, or None
  \* history and bounds
  late,       \* policies linked to the rule a thread deletes since it counted
  disturbed,  \* a request thread changed the list since the worker filled it
  requests

database == <<rule, history, policy, evidence>>
request  == <<at, op, key, base, new, list>>
detector == <<worker, found, decided>>
vars     == <<database, request, engine, detector, late, disturbed, requests>>

Definition(row) == [body |-> row.body, enabled |-> row.enabled]

NoPolicies == [p \in Policy |-> None]

\* Policies that name rule r.
LinkedTo(r) == {p \in Policy : policy[p] # None /\ policy[p].link = r}

\* ZTADatabase.__init__: every rule without a version 1 gets its current
\* definition as the baseline.
Baseline(rules, snapshots) ==
  [r \in Rule |-> IF rules[r] # None /\ snapshots[r][1] = None
                  THEN [snapshots[r] EXCEPT ![1] = Definition(rules[r])]
                  ELSE snapshots[r]]

\* The tables as they were seeded: rules whose versions have no baseline yet,
\* and policies, for one rule or for any.
Init ==
  /\ \E seeded \in SUBSET Rule, b \in Body :
       rule = [r \in Rule |-> IF r \in seeded
                              THEN [version |-> 1, body |-> b, enabled |-> 1]
                              ELSE None]
  /\ history = Baseline(rule, [r \in Rule |-> [v \in Version |-> None]])
  /\ \E seeded \in SUBSET Policy, l \in Rule \cup {NoRule} :
       policy = [p \in Policy |-> IF p \in seeded
                                  THEN [link |-> l, enabled |-> 1] ELSE None]
  /\ evidence = {}
  /\ at = [t \in Thread |-> "idle"]
  /\ op = [t \in Thread |-> "none"]
  /\ key = [t \in Thread |-> None]
  /\ base = [t \in Thread |-> None]
  /\ new = [t \in Thread |-> None]
  /\ list = [t \in Thread |-> NoPolicies]
  /\ engine = policy
  /\ worker = "idle" /\ found = {} /\ decided = None
  /\ late = [t \in Thread |-> {}]
  /\ disturbed = FALSE
  /\ requests = 0

---------------------------------------------------------------------------
(* The first half of a request: read the row, compute the row to write *)

\* Thread t has read row b of k and is going to write n with operation o.
Begin(t, o, k, b, n) ==
  /\ at[t] = "idle" /\ requests < MaxRequests
  /\ requests' = requests + 1
  /\ at' = [at EXCEPT ![t] = "write"]
  /\ op' = [op EXCEPT ![t] = o]
  /\ key' = [key EXCEPT ![t] = k]
  /\ base' = [base EXCEPT ![t] = b]
  /\ new' = [new EXCEPT ![t] = n]
  /\ late' = [late EXCEPT ![t] = {}]
  /\ UNCHANGED <<database, list, engine, detector, disturbed>>

\* The row that follows b: toggling, updating and restoring a rule store a
\* definition under the version after the one that was read.
Successor(b, body, enabled) ==
  [version |-> b.version + 1, body |-> body, enabled |-> enabled]

\* Mutant: the first version is 0.
MutCreateRule(t, r, b) ==
  /\ rule[r] = None
  /\ Begin(t, "create_rule", r, None, [version |-> 0, body |-> b, enabled |-> 1])

CreateRule(t, r, b) ==
  /\ rule[r] = None
  /\ Begin(t, "create_rule", r, None, [version |-> 1, body |-> b, enabled |-> 1])

UpdateRule(t, r, b, f) ==
  /\ rule[r] # None /\ rule[r].version < MaxVersion
  /\ Begin(t, "update_rule", r, rule[r], Successor(rule[r], b, f))

\* The flag a toggle stores: the one asked for, or the opposite of the one read.
Toggled(row, asked) == IF asked = None THEN 1 - row.enabled ELSE asked

ToggleRule(t, r, asked) ==
  /\ rule[r] # None /\ rule[r].version < MaxVersion
  /\ Begin(t, "toggle_rule", r, rule[r],
           Successor(rule[r], rule[r].body, Toggled(rule[r], asked)))

RollbackRule(t, r, v) ==
  /\ rule[r] # None /\ rule[r].version < MaxVersion
  /\ history[r][v] # None
  /\ Begin(t, "rollback_rule", r, rule[r],
           Successor(rule[r], history[r][v].body, history[r][v].enabled))

\* Mutant: the links are not counted.
MutDeleteRule(t, r) ==
  /\ rule[r] # None
  /\ Begin(t, "delete_rule", r, rule[r], None)

\* The linked policies are counted outside the transaction that deletes.
DeleteRule(t, r) ==
  /\ rule[r] # None
  /\ LinkedTo(r) = {}
  /\ Begin(t, "delete_rule", r, rule[r], None)

\* Nothing checks that the linked rule exists.
CreatePolicy(t, p, l) ==
  /\ policy[p] = None
  /\ Begin(t, "create_policy", p, None, [link |-> l, enabled |-> 1])

\* An update writes every column, those it was not asked about as it read them.
UpdatePolicy(t, p, l, f) ==
  /\ policy[p] # None
  /\ Begin(t, "update_policy", p, policy[p], [link |-> l, enabled |-> f])

TogglePolicy(t, p, asked) ==
  /\ policy[p] # None
  /\ Begin(t, "toggle_policy", p, policy[p],
           [policy[p] EXCEPT !.enabled = Toggled(policy[p], asked)])

DeletePolicy(t, p) ==
  /\ policy[p] # None
  /\ Begin(t, "delete_policy", p, policy[p], None)

\* The routes of the HTTP server.
Post(t) ==
  \/ \E r \in Rule : \/ \E b \in Body : CreateRule(t, r, b)
                     \/ \E f \in Flag \cup {None} : ToggleRule(t, r, f)
                     \/ \E v \in Version : RollbackRule(t, r, v)
  \/ \E p \in Policy :
       \/ \E l \in Rule \cup {NoRule} : CreatePolicy(t, p, l)
       \/ \E f \in Flag \cup {None} : TogglePolicy(t, p, f)

Put(t) ==
  \/ \E r \in Rule, b \in Body, f \in Flag : UpdateRule(t, r, b, f)
  \/ \E p \in Policy, l \in Rule \cup {NoRule}, f \in Flag : UpdatePolicy(t, p, l, f)

Patch(t) ==
  \/ \E r \in Rule, f \in Flag \cup {None} : ToggleRule(t, r, f)
  \/ \E p \in Policy, f \in Flag \cup {None} : TogglePolicy(t, p, f)

Delete(t) ==
  \/ \E r \in Rule : DeleteRule(t, r)
  \/ \E p \in Policy : DeletePolicy(t, p)

---------------------------------------------------------------------------
(* The second half of a request: the transaction that writes *)

\* Thread t gives its answer and forgets its request.
Finish(t) ==
  /\ at' = [at EXCEPT ![t] = "idle"]
  /\ op' = [op EXCEPT ![t] = "none"]
  /\ key' = [key EXCEPT ![t] = None]
  /\ base' = [base EXCEPT ![t] = None]
  /\ new' = [new EXCEPT ![t] = None]
  /\ list' = [list EXCEPT ![t] = NoPolicies]
  /\ late' = [late EXCEPT ![t] = {}]

Writing(t, ops) == at[t] = "write" /\ op[t] \in ops

Edits == {"update_rule", "toggle_rule", "rollback_rule"}

\* _save_rule_version: the primary key admits one snapshot for each version.
MaySave(r, v) == history[r][v] = None

SaveVersion(r, v, row) ==
  history' = [history EXCEPT ![r] = [@ EXCEPT ![v] = Definition(row)]]

\* Mutant: INSERT OR REPLACE for the first version of a rule.
MutMayCreate(t) == rule[key[t]] = None

MayCreate(t) == rule[key[t]] = None /\ MaySave(key[t], 1)

InsertRule(t) ==
  /\ Writing(t, {"create_rule"}) /\ worker = "idle"
  /\ MayCreate(t)
  /\ rule' = [rule EXCEPT ![key[t]] = new[t]]
  /\ SaveVersion(key[t], 1, new[t])
  /\ Finish(t)
  /\ UNCHANGED <<policy, evidence, engine, detector, disturbed, requests>>

\* The row an edit leaves: a toggle sets two columns, the others all of them.
Edited(t) ==
  IF op[t] = "toggle_rule"
  THEN [rule[key[t]] EXCEPT !.version = new[t].version, !.enabled = new[t].enabled]
  ELSE new[t]

\* Mutant: the version is not a key.
MutMayEdit(t) == rule[key[t]] # None

\* The update finds the row, and no other edit has stored this version.
MayEdit(t) == rule[key[t]] # None /\ MaySave(key[t], new[t].version)

StoreEdit(t) ==
  /\ Writing(t, Edits) /\ worker = "idle"
  /\ MayEdit(t)
  /\ rule' = [rule EXCEPT ![key[t]] = Edited(t)]
  /\ SaveVersion(key[t], new[t].version, Edited(t))
  /\ Finish(t)
  /\ UNCHANGED <<policy, evidence, engine, detector, disturbed, requests>>

\* Mutant: ON DELETE CASCADE.
MutRemoveRule(t) ==
  /\ Writing(t, {"delete_rule"}) /\ worker = "idle"
  /\ rule' = [rule EXCEPT ![key[t]] = None]
  /\ history' = [history EXCEPT ![key[t]] = [v \in Version |-> None]]
  /\ Finish(t)
  /\ UNCHANGED <<policy, evidence, engine, detector, disturbed, requests>>

\* The versions of a deleted rule stay.
RemoveRule(t) ==
  /\ Writing(t, {"delete_rule"}) /\ worker = "idle"
  /\ rule' = [rule EXCEPT ![key[t]] = None]
  /\ Finish(t)
  /\ UNCHANGED <<history, policy, evidence, engine, detector, disturbed, requests>>

\* The deletions under way that a link of policy p to rule l is too late for.
LinkedMeanwhile(p, l) ==
  late' = [t \in Thread |-> IF Writing(t, {"delete_rule"}) /\ key[t] = l
                            THEN late[t] \cup {p} ELSE late[t]]

\* The policy was written, and its request goes on to the reload.
Written(t) ==
  /\ at' = [at EXCEPT ![t] = "reload"]
  /\ UNCHANGED <<rule, history, evidence, op, key, base, new, list, engine,
                 detector, disturbed, requests>>

InsertPolicy(t) ==
  /\ Writing(t, {"create_policy"}) /\ worker = "idle"
  /\ policy[key[t]] = None
  /\ policy' = [policy EXCEPT ![key[t]] = new[t]]
  /\ LinkedMeanwhile(key[t], new[t].link)
  /\ Written(t)

\* An update of a policy that is gone changes no row and is not an error.
StorePolicy(t) ==
  /\ Writing(t, {"update_policy"}) /\ worker = "idle"
  /\ IF policy[key[t]] = None THEN UNCHANGED <<policy, late>>
     ELSE /\ policy' = [policy EXCEPT ![key[t]] = new[t]]
          /\ LinkedMeanwhile(key[t], new[t].link)
  /\ Written(t)

StorePolicyFlag(t) ==
  /\ Writing(t, {"toggle_policy"}) /\ worker = "idle"
  /\ policy' = IF policy[key[t]] = None THEN policy
               ELSE [policy EXCEPT ![key[t]].enabled = new[t].enabled]
  /\ UNCHANGED late
  /\ Written(t)

RemovePolicy(t) ==
  /\ Writing(t, {"delete_policy"}) /\ worker = "idle"
  /\ policy' = [policy EXCEPT ![key[t]] = None]
  /\ UNCHANGED late
  /\ Written(t)

\* The transaction fails and is rolled back: the insert or the version is a
\* duplicate, the edited rule is gone, or the lock was not free in time.
Refuse(t) ==
  /\ at[t] = "write"
  /\ \/ worker # "idle"
     \/ op[t] = "create_rule" /\ ~MayCreate(t)
     \/ op[t] \in Edits /\ ~MayEdit(t)
     \/ op[t] = "create_policy" /\ policy[key[t]] # None
  /\ Finish(t)
  /\ UNCHANGED <<database, engine, detector, disturbed, requests>>

\* The request ends before its reload: the policy it updated is gone when it
\* is read for the answer, or the audit entry cannot be written.
EndWithoutReload(t) ==
  /\ at[t] = "reload"
  /\ Finish(t)
  /\ UNCHANGED <<database, engine, detector, disturbed, requests>>

---------------------------------------------------------------------------
(* ZTABackgroundEngine._reload_policies in a request thread *)

ReadPolicies(t) ==
  /\ at[t] = "reload"
  /\ ~(op[t] \in {"update_policy", "toggle_policy"} /\ policy[key[t]] = None)
  /\ at' = [at EXCEPT ![t] = "clear"]
  /\ list' = [list EXCEPT ![t] = policy]
  /\ UNCHANGED <<database, op, key, base, new, engine, detector, late, disturbed,
                 requests>>

\* The list of the detection in progress is replaced under it.
Disturb == disturbed' = (disturbed \/ worker = "match")

ClearPolicies(t) ==
  /\ at[t] = "clear"
  /\ engine' = NoPolicies
  /\ at' = [at EXCEPT ![t] = "install"]
  /\ Disturb
  /\ UNCHANGED <<database, op, key, base, new, list, detector, late, requests>>

InstallPolicies(t) ==
  /\ at[t] = "install"
  /\ engine' = list[t]
  /\ Disturb
  /\ Finish(t)
  /\ UNCHANGED <<database, detector, requests>>

RequestStep(t) ==
  \/ Post(t) \/ Put(t) \/ Patch(t) \/ Delete(t)
  \/ InsertRule(t) \/ StoreEdit(t) \/ RemoveRule(t)
  \/ InsertPolicy(t) \/ StorePolicy(t) \/ StorePolicyFlag(t) \/ RemovePolicy(t)
  \/ Refuse(t) \/ EndWithoutReload(t)
  \/ ReadPolicies(t) \/ ClearPolicies(t) \/ InstallPolicies(t)

---------------------------------------------------------------------------
(* The detection transaction of an event, as far as it uses the catalog *)

\* BEGIN IMMEDIATE; from here to the commit no request writes, and the
\* policies this reload reads are the stored ones.
BeginDetection ==
  /\ worker = "idle"
  /\ worker' = "clear"
  /\ UNCHANGED <<database, request, engine, found, decided, late, disturbed, requests>>

\* Mutant: the pipeline relies on the reloads of the request threads.
MutWorkerClears ==
  /\ worker = "clear"
  /\ worker' = "match"
  /\ UNCHANGED <<database, request, engine, found, decided, late, disturbed, requests>>

WorkerClears ==
  /\ worker = "clear"
  /\ engine' = NoPolicies
  /\ worker' = "install"
  /\ UNCHANGED <<database, request, found, decided, late, disturbed, requests>>

WorkerInstalls ==
  /\ worker = "install"
  /\ engine' = policy
  /\ worker' = "match"
  /\ disturbed' = FALSE
  /\ UNCHANGED <<database, request, found, decided, late, requests>>

\* An enabled rule matches: the match names the rule's version, and the
\* policies are taken from the list as it is now.
MatchRule(r) ==
  /\ worker = "match"
  /\ rule[r] # None /\ rule[r].enabled = 1
  /\ found' = found \cup {[rule |-> r, version |-> rule[r].version,
                           body |-> rule[r].body]}
  /\ decided' = engine
  /\ UNCHANGED <<database, request, engine, worker, late, disturbed, requests>>

EndDetection ==
  /\ worker' = "idle" /\ found' = {} /\ decided' = None
  /\ disturbed' = FALSE
  /\ UNCHANGED <<rule, history, policy, request, late, requests>>

CommitDetection ==
  /\ worker = "match"
  /\ evidence' = evidence \cup found
  /\ UNCHANGED engine
  /\ EndDetection

\* An exception rolls the database back, and leaves the list as it is.
RollBackDetection ==
  /\ worker # "idle"
  /\ UNCHANGED <<evidence, engine>>
  /\ EndDetection

Detect ==
  \/ BeginDetection \/ WorkerClears \/ WorkerInstalls
  \/ \E r \in Rule : MatchRule(r)
  \/ CommitDetection \/ RollBackDetection

\* The manager stops and starts again: the open transaction and the requests
\* are gone, the baseline is laid and the policies are loaded.
Restart ==
  /\ \/ worker # "idle"
     \/ \E t \in Thread : at[t] # "idle"
  /\ history' = Baseline(rule, history)
  /\ at' = [t \in Thread |-> "idle"]
  /\ op' = [t \in Thread |-> "none"]
  /\ key' = [t \in Thread |-> None]
  /\ base' = [t \in Thread |-> None]
  /\ new' = [t \in Thread |-> None]
  /\ list' = [t \in Thread |-> NoPolicies]
  /\ engine' = policy
  /\ worker' = "idle" /\ found' = {} /\ decided' = None
  /\ late' = [t \in Thread |-> {}]
  /\ disturbed' = FALSE
  /\ UNCHANGED <<rule, policy, evidence, requests>>

Next == (\E t \in Thread : RequestStep(t)) \/ Detect \/ Restart

Spec == Init /\ [][Next]_vars

---------------------------------------------------------------------------
(* Properties *)

\* Type invariant of every variable.
TypeOK ==
  /\ rule \in [Rule -> RuleRow \cup {None}]
  /\ history \in [Rule -> [Version -> Snapshot \cup {None}]]
  /\ policy \in [Policy -> PolicyRow \cup {None}]
  /\ evidence \subseteq Evidence /\ found \subseteq Evidence
  /\ at \in [Thread -> {"idle", "write", "reload", "clear", "install"}]
  /\ op \in [Thread -> {"none", "create_rule", "delete_rule", "create_policy",
                       "update_policy", "toggle_policy", "delete_policy"} \cup Edits]
  /\ key \in [Thread -> Rule \cup Policy \cup {None}]
  /\ base \in [Thread -> RuleRow \cup PolicyRow \cup {None}]
  /\ new \in [Thread -> RuleRow \cup PolicyRow \cup {None}]
  /\ list \in [Thread -> [Policy -> PolicyRow \cup {None}]]
  /\ engine \in [Policy -> PolicyRow \cup {None}]
  /\ worker \in {"idle", "clear", "install", "match"}
  /\ decided \in [Policy -> PolicyRow \cup {None}] \cup {None}
  /\ late \in [Thread -> SUBSET Policy]
  /\ disturbed \in BOOLEAN
  /\ requests \in 0..MaxRequests

\* The versions of a rule have no gap, its current version is the last one,
\* and the snapshot of that version is what the rules table says: whatever
\* edits, rollbacks, deletions and creations race.
HistoryComplete ==
  \A r \in Rule : rule[r] # None =>
    /\ \A v \in Version : history[r][v] # None <=> v <= rule[r].version
    /\ history[r][rule[r].version] = Definition(rule[r])

\* A stored snapshot is never changed or removed, not even when its rule is
\* deleted and its id asked for again.
HistoryAppendOnly ==
  [][\A r \in Rule, v \in Version :
       history[r][v] # None => history'[r][v] = history[r][v]]_vars

\* An edit replaces the very row it was computed from: of two operators who
\* edit the same rule at the same time one is refused, and neither change is
\* silently undone.
NoLostEdit ==
  [][\A t \in Thread : Writing(t, Edits) /\ rule'[key[t]] # rule[key[t]]
                       /\ at'[t] = "idle" => rule[key[t]] = base[t]]_vars

\* The deletion of a rule can miss only links that were made after it counted
\* them.
DeleteSeesEarlierLinks ==
  [][\A t \in Thread : Writing(t, {"delete_rule"}) /\ at'[t] = "idle"
                       /\ rule[key[t]] # None /\ rule'[key[t]] = None
                       => LinkedTo(key[t]) \subseteq late[t]]_vars

\* What a match says it saw can be looked up for ever: the version it names is
\* stored, with the body that was evaluated, though the rule was edited or
\* deleted since.
EvidenceStands ==
  \A m \in evidence : /\ history[m.rule][m.version] # None
                      /\ history[m.rule][m.version].body = m.body

\* Unless a request thread reloads the policies during the detection, a match
\* is decided with exactly the stored policies.
DecidedWithStored ==
  worker = "match" /\ ~disturbed /\ decided # None => decided = policy

\* Every enabled policy is evaluated, as it is stored, for every match.
EnabledPoliciesEvaluated ==
  decided # None =>
    \A p \in Policy : policy[p] # None /\ policy[p].enabled = 1
                     => decided[p] = policy[p]

---------------------------------------------------------------------------
(* The catalog keeps the promise of RuleHistory *)

RuleRequests == {"create_rule", "delete_rule"} \cup Edits

Listed == {r \in Rule : rule[r] # None}

\* The snapshots of a rule as a list.
InOrder(snapshots) == [v \in {w \in Version : snapshots[w] # None} |-> snapshots[v]]

\* The request of thread t, which has not written yet.
Asked(t) ==
  [thread |-> t, kind |-> op[t], rule |-> key[t],
   seen |-> IF op[t] = "create_rule" THEN 0 ELSE base[t].version]

Unanswered == {Asked(t) : t \in {u \in Thread : Writing(u, RuleRequests)}}

History == INSTANCE RuleHistory WITH
  live     <- Listed,
  versions <- [r \in Rule |-> InOrder(history[r])],
  pending  <- Unanswered

\* Reading a rule and writing it in another transaction looks as if it had
\* been done at once: an edit appends to the definition it was made from and
\* to no other, whatever was edited, deleted or asked for meanwhile.
ImplementsHistory == History!Spec
=============================================================================
