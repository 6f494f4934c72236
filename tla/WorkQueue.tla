----------------------------- MODULE WorkQueue -----------------------------
(***************************************************************************)
(* What the detection queue promises about an event, independently of      *)
(* workers, batches, attempts, timers and restarts: its detection takes    *)
(* effect once per time the event was wanting it; the notice of an effect  *)
(* is left in the step of the effect and stays until it is sent; and the   *)
(* queue gives an event up only by saying so in the audit trail, from      *)
(* which an operator can take it up again.  A failure reported after the   *)
(* effect reopens the event, and that is counted.                          *)
(***************************************************************************)
EXTENDS Naturals

CONSTANT
  Item              \* events

VARIABLES
  status,           \* "absent", "waiting", "done" or "stopped"
  effects,          \* how often the detection of each event took effect
  reopened,         \* how often a done event was taken for failed
  audited,          \* events whose giving up is in the audit trail
  notices           \* effects still to be announced

vars == <<status, effects, reopened, audited, notices>>

Init ==
  /\ status = [i \in Item |-> "absent"]
  /\ effects = [i \in Item |-> 0]
  /\ reopened = [i \in Item |-> 0]
  /\ audited = {}
  /\ notices = {}

Receive(i) ==
  /\ status[i] = "absent"
  /\ status' = [status EXCEPT ![i] = "waiting"]
  /\ UNCHANGED <<effects, reopened, audited, notices>>

\* An event that was handled elsewhere arrives with its effect.
Import(i) ==
  /\ status[i] = "absent"
  /\ status' = [status EXCEPT ![i] = "done"]
  /\ effects' = [effects EXCEPT ![i] = 1]
  /\ UNCHANGED <<reopened, audited, notices>>

\* A worker that is late may also detect an event that was given up.
Perform(i) ==
  /\ status[i] \in {"waiting", "stopped"}
  /\ status' = [status EXCEPT ![i] = "done"]
  /\ effects' = [effects EXCEPT ![i] = @ + 1]
  /\ notices' = notices \cup {<<i, effects[i] + 1>>}
  /\ UNCHANGED <<reopened, audited>>

\* A failure is reported, whatever became of the event in the meantime.
Fail(i) ==
  /\ status[i] # "absent"
  /\ reopened' = [reopened EXCEPT ![i] = IF status[i] = "done" THEN @ + 1 ELSE @]
  /\ UNCHANGED <<effects, notices>>

TryAgain(i) ==
  /\ Fail(i)
  /\ status' = [status EXCEPT ![i] = "waiting"]
  /\ UNCHANGED audited

GiveUp(i) ==
  /\ Fail(i)
  /\ status' = [status EXCEPT ![i] = "stopped"]
  /\ audited' = audited \cup {i}

\* An operator takes an event up again.
Resume(i) ==
  /\ status[i] \in {"waiting", "stopped"}
  /\ status' = [status EXCEPT ![i] = "waiting"]
  /\ audited' = audited \ {i}
  /\ UNCHANGED <<effects, reopened, notices>>

Announce(S) ==
  /\ notices' = notices \ S
  /\ UNCHANGED <<status, effects, reopened, audited>>

Next ==
  \/ \E i \in Item : \/ Receive(i) \/ Import(i) \/ Perform(i)
                     \/ TryAgain(i) \/ GiveUp(i) \/ Resume(i)
  \/ \E S \in SUBSET notices : Announce(S)

Spec == Init /\ [][Next]_vars
============================================================================
