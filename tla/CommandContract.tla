------------------------- MODULE CommandContract -------------------------
(***************************************************************************)
(* What the manager promises an operator about a response command,         *)
(* independently of queues, journals, retries and restarts: the command    *)
(* acts on the endpoint at most once, it ends with one outcome that never  *)
(* changes, the outcome tells the truth about the effect, and a command    *)
(* that nobody answers expires.                                            *)
(***************************************************************************)
EXTENDS Naturals

CONSTANTS
  Command,          \* command identifiers
  Outcome,          \* the terminal statuses a report can carry
  NoOutcome         \* no report recorded

VARIABLES
  phase,            \* what the manager shows for each command
  runs,             \* how often the endpoint performed it
  outcome           \* the recorded terminal status

vars == <<phase, runs, outcome>>

Init ==
  /\ phase = [c \in Command |-> "none"]
  /\ runs = [c \in Command |-> 0]
  /\ outcome = [c \in Command |-> NoOutcome]

Request(c) ==
  /\ phase[c] = "none"
  /\ phase' = [phase EXCEPT ![c] = "open"]
  /\ UNCHANGED <<runs, outcome>>

\* The effect happens at most once, and never after the outcome is known.
Perform(c) ==
  /\ phase[c] \in {"open", "expired"}
  /\ runs[c] = 0
  /\ runs' = [runs EXCEPT ![c] = 1]
  /\ UNCHANGED <<phase, outcome>>

\* SUCCESS is only claimed for an effect, REJECTED only without one.
Close(c, o) ==
  /\ phase[c] \in {"open", "expired"}
  /\ o = "SUCCESS" => runs[c] = 1
  /\ o = "REJECTED" => runs[c] = 0
  /\ phase' = [phase EXCEPT ![c] = "closed"]
  /\ outcome' = [outcome EXCEPT ![c] = o]
  /\ UNCHANGED runs

\* One pass of the manager may expire several commands at once.
Expire(S) ==
  /\ S \subseteq {c \in Command : phase[c] = "open"}
  /\ phase' = [c \in Command |-> IF c \in S THEN "expired" ELSE phase[c]]
  /\ UNCHANGED <<runs, outcome>>

Next ==
  \/ \E c \in Command : Request(c) \/ Perform(c) \/ \E o \in Outcome : Close(c, o)
  \/ \E S \in SUBSET Command : Expire(S)

Spec == Init /\ [][Next]_vars
==========================================================================
