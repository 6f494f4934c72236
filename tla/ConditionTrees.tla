--------------------------- MODULE ConditionTrees ---------------------------
(***************************************************************************)
(* The condition trees of rules and policies and their evaluation          *)
(* (engine/events/conditions.py ConditionEvaluator).                       *)
(*                                                                         *)
(* A tree is a sequence of nodes with the root first and every child after *)
(* its parent.  What a comparison makes of the event's data is abstracted  *)
(* to what the evaluator tells apart:                                      *)
(*   "absent"    no such field, or null                                    *)
(*   "holds"     the comparison is true                                    *)
(*   "fails"     it is false                                               *)
(*   "mistyped"  comparing raises TypeError or AttributeError              *)
(*   "unbounded" the text is too long for a regex, or the regex times out  *)
(***************************************************************************)
EXTENDS Integers, Sequences

CONSTANTS
  Field,       \* the field paths conditions name
  MaxDepth,    \* MAX_DEPTH
  MaxNodes,    \* MAX_NODES
  MaxChildren  \* MAX_GROUP_CHILDREN

Value == {"absent", "holds", "fails", "mistyped", "unbounded"}
Data  == [Field -> Value]

Test(op, field) == [kind |-> "test", op |-> op, field |-> field]
Group(kind, children) == [kind |-> kind, children |-> children]

IsTest(node) == node.kind = "test"

---------------------------------------------------------------------------
(* _validate *)

WellFormed(node) ==
  \/ IsTest(node)
  \/ node.kind = "not" /\ Len(node.children) = 1
  \/ node.kind \in {"all", "any"} /\ Len(node.children) \in 1..MaxChildren

ChildrenOf(node) ==
  IF IsTest(node) THEN {} ELSE {node.children[j] : j \in DOMAIN node.children}

\* Children come after their parent, and every node but the root is a child.
IsTree(tree) ==
  /\ Len(tree) \in Nat /\ DOMAIN tree = 1..Len(tree)
  /\ \A i \in DOMAIN tree : ChildrenOf(tree[i]) \subseteq (i + 1)..Len(tree)
  /\ \A i \in DOMAIN tree \ {1} : \E p \in 1..(i-1) : i \in ChildrenOf(tree[p])

\* The depth of each node; the root has depth 1.
Depths(tree) ==
  LET depth[i \in DOMAIN tree] ==
        IF i = 1 THEN 1
        ELSE 1 + depth[CHOOSE p \in 1..(i-1) : i \in ChildrenOf(tree[p])]
  IN  depth

Valid(tree) ==
  /\ Len(tree) \in 1..MaxNodes
  /\ \A i \in DOMAIN tree : WellFormed(tree[i]) /\ Depths(tree)[i] <= MaxDepth

---------------------------------------------------------------------------
(* _evaluate *)

TestHolds(node, data) ==
  CASE node.op = "exists"     -> data[node.field] # "absent"
    [] node.op = "not_exists" -> data[node.field] = "absent"
    [] OTHER                  -> data[node.field] = "holds"

\* Only a regex reports that it could not be evaluated.
TestErrs(node, data) == node.op = "regex" /\ data[node.field] = "unbounded"

\* The result of a group from those of its children.
Combine(kind, results) ==
  CASE kind = "all" -> \A x \in results : x.result
    [] kind = "any" -> \E x \in results : x.result
    [] kind = "not" -> \A x \in results : ~x.result

\* Mutant: an error is not carried up.
MutGrouped(kind, results) ==
  [result |-> Combine(kind, results), error |-> FALSE]

\* All children are evaluated, and an error in one of them makes the group
\* false and is passed on.
Grouped(kind, results) ==
  LET error == \E x \in results : x.error
  IN  [result |-> ~error /\ Combine(kind, results), error |-> error]

Traces(tree, data) ==
  LET trace[i \in DOMAIN tree] ==
        IF IsTest(tree[i])
        THEN [result |-> TestHolds(tree[i], data), error |-> TestErrs(tree[i], data)]
        ELSE Grouped(tree[i].kind, {trace[c] : c \in ChildrenOf(tree[i])})
  IN  trace

\* What the pipeline records for a rule: explain raises on a tree that is not
\* valid, and a rule without a tree matches nothing.
Outcome(tree, data) ==
  IF tree = <<>> THEN "NO_MATCH"
  ELSE IF ~Valid(tree) \/ Traces(tree, data)[1].error THEN "EVALUATION_ERROR"
  ELSE IF Traces(tree, data)[1].result THEN "MATCH"
  ELSE "NO_MATCH"

---------------------------------------------------------------------------
(* Reference *)

\* The tests of the tree whose evaluation failed with an error.
Failed(tree, data) ==
  {i \in DOMAIN tree : IsTest(tree[i]) /\ TestErrs(tree[i], data)}
=============================================================================
