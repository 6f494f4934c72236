---------------------------- MODULE RuleHistory ----------------------------
(***************************************************************************)
(* What the rule editor promises the operators who use it at the same      *)
(* time, independently of rows, transactions and threads: a rule is the    *)
(* list of the definitions it has had, which is only ever appended to.  An *)
(* edit takes effect at one moment, on the definition it was made from, or *)
(* is refused; and the id of a deleted rule stands for that rule for ever. *)
(***************************************************************************)
EXTENDS Naturals, Sequences

CONSTANTS
  Rule,             \* rule identifiers
  Thread,           \* operators' requests are told apart by their threads
  Body              \* what a definition says, besides its enabled flag

Definition == [body : Body, enabled : {0, 1}]
EditKind   == {"update_rule", "toggle_rule", "rollback_rule"}
Kind       == {"create_rule", "delete_rule"} \cup EditKind
Request    == [thread : Thread, kind : Kind, rule : Rule, seen : Nat]

VARIABLES
  live,             \* the rules of the catalog
  versions,         \* the definitions of each rule, the oldest first
  pending           \* requests that have not taken effect: of an edit or a
                    \* deletion, how many versions it has seen

vars == <<live, versions, pending>>

Init ==
  /\ live \subseteq Rule
  /\ DOMAIN versions = Rule
  /\ \A r \in live : \E d \in Definition : versions[r] = <<d>>
  /\ \A r \in Rule \ live : versions[r] = <<>>
  /\ pending = {}

\* A thread has one request at a time.
Ask(p) ==
  /\ p \in Request
  /\ p.rule \in live <=> p.kind # "create_rule"
  /\ p.seen = IF p.kind = "create_rule" THEN 0 ELSE Len(versions[p.rule])
  /\ \A q \in pending : q.thread # p.thread
  /\ pending' = pending \cup {p}
  /\ UNCHANGED <<live, versions>>

Create(p) ==
  /\ p.kind = "create_rule" /\ versions[p.rule] = <<>>
  /\ live' = live \cup {p.rule}
  /\ \E d \in Definition : versions' = [versions EXCEPT ![p.rule] = <<d>>]

\* What an edit may make of the definitions of a rule.
EditOf(kind, definitions, d) ==
  /\ kind = "toggle_rule" => d.body = definitions[Len(definitions)].body
  /\ kind = "rollback_rule" => \E v \in 1..Len(definitions) : d = definitions[v]

Edit(p) ==
  /\ p.kind \in EditKind /\ p.rule \in live
  /\ p.seen = Len(versions[p.rule])
  /\ \E d \in Definition :
       /\ EditOf(p.kind, versions[p.rule], d)
       /\ versions' = [versions EXCEPT ![p.rule] = Append(@, d)]
  /\ UNCHANGED live

Delete(p) ==
  /\ p.kind = "delete_rule"
  /\ live' = live \ {p.rule}
  /\ UNCHANGED versions

Refuse == UNCHANGED <<live, versions>>

\* A request is answered: it takes effect now, or never.
Answer(p) ==
  /\ pending' = pending \ {p}
  /\ Create(p) \/ Edit(p) \/ Delete(p) \/ Refuse

\* The requests under way are gone.
Restart == pending' = {} /\ UNCHANGED <<live, versions>>

Next ==
  \/ \E p \in pending' \ pending : Ask(p)
  \/ \E p \in pending : Answer(p)
  \/ Restart

Spec == Init /\ [][Next]_vars
=============================================================================
