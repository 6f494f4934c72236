------------------------- MODULE TelemetryTransfer -------------------------
(***************************************************************************)
(* What the offline queue and the manager promise about a telemetry        *)
(* record, independently of batches, retries, receipts and crashes: from   *)
(* its collection on it is with the agent or stored by the manager, the    *)
(* manager stores it once and only while the agent still has it, and the   *)
(* agent gives it up only after that.                                      *)
(***************************************************************************)
CONSTANT
  Record            \* event and log identifiers

VARIABLES
  atAgent,          \* rows of the agent's offline_events
  atManager         \* records the manager has stored

vars == <<atAgent, atManager>>

Init == atAgent = {} /\ atManager = {}

\* A record may be collected again after the agent gave it up.
Collect(r) ==
  /\ r \notin atAgent
  /\ atAgent' = atAgent \cup {r}
  /\ UNCHANGED atManager

Store(S) ==
  /\ S \subseteq atAgent \ atManager
  /\ atManager' = atManager \cup S
  /\ UNCHANGED atAgent

GiveUp(S) ==
  /\ S \subseteq atAgent \cap atManager
  /\ atAgent' = atAgent \ S
  /\ UNCHANGED atManager

Next ==
  \/ \E r \in Record : Collect(r)
  \/ \E S \in SUBSET Record : Store(S) \/ GiveUp(S)

Spec == Init /\ [][Next]_vars
============================================================================
