---------------------------- MODULE Correlation ----------------------------
(***************************************************************************)
(* The correlation of the events of one agent                              *)
(* (engine/correlation/engine.py ZTACorrelationEngine): failed logins      *)
(* followed by a success, and PowerShell followed by a connection, within  *)
(* a window.                                                               *)
(*                                                                         *)
(* An event is its timestamp; no two events have the same one.  A stream   *)
(* gives every event its shape.                                            *)
(***************************************************************************)
EXTENDS Integers, FiniteSets

CONSTANTS
  Event,          \* timestamps of the events
  User,           \* user names
  Window,         \* window_seconds
  FailuresNeeded, \* failures before a success that make a finding
  ReplayLimit     \* events the pipeline replays at most

ASSUME CorrelationAssumption ==
  /\ Event \subseteq Nat \ {0}
  /\ Window \in Nat /\ FailuresNeeded \in Nat \ {0} /\ ReplayLimit \in Nat

Finding == {"CORR-AUTH-001", "CORR-EXEC-002"}

InWindow(x, e) == x >= e - Window

---------------------------------------------------------------------------
(* process_event *)

\* _buffers and _failed_logins of a new engine.
Empty == [buffer |-> {}, failures |-> [u \in User |-> {}], findings |-> {}]

RecentFailures(engine, shape, e) ==
  {f \in engine.failures[shape.user] : InWindow(f, e)}

SuspiciousLogin(engine, shape, e) ==
  /\ shape.auth = "succeeded"
  /\ Cardinality(RecentFailures(engine, shape, e)) >= FailuresNeeded

\* Mutant: the failures of an alarm are kept.
MutFailuresAfter(engine, shape, e) ==
  IF shape.auth = "failed"
  THEN [engine.failures EXCEPT ![shape.user] = @ \cup {e}]
  ELSE engine.failures

\* Failures are remembered, and those of an alarm forgotten.
FailuresAfter(engine, shape, e) ==
  CASE shape.auth = "failed" ->
         [engine.failures EXCEPT ![shape.user] = @ \cup {e}]
    [] SuspiciousLogin(engine, shape, e) ->
         [engine.failures EXCEPT ![shape.user] = {}]
    [] OTHER -> engine.failures

Pruned(buffer, e) == {x \in buffer \cup {e} : InWindow(x, e)}

ProcessEvent(engine, stream, e) ==
  LET shape  == stream[e]
      buffer == Pruned(engine.buffer, e)
  IN  [buffer   |-> buffer,
       failures |-> FailuresAfter(engine, shape, e),
       findings |->
         {f \in Finding :
            \/ f = "CORR-AUTH-001" /\ SuspiciousLogin(engine, shape, e)
            \/ f = "CORR-EXEC-002" /\ shape.connects
                                   /\ \E x \in buffer : stream[x].shell}]

\* The events the pipeline replays: the latest ones among those before e.
Replayed(events, e) ==
  {x \in events : x < e /\ Cardinality({y \in events : x < y /\ y < e}) < ReplayLimit}

\* A new engine that has processed the given events, and then e, in the order
\* of their timestamps.
Correlate(events, stream, e) ==
  LET replay[time \in 0..e] ==
        IF time = 0 THEN Empty
        ELSE IF time \in Replayed(events, e) \cup {e}
             THEN ProcessEvent(replay[time - 1], stream, time)
             ELSE replay[time - 1]
  IN  replay[e].findings

---------------------------------------------------------------------------
(* Reference *)

\* A success is suspicious if enough failures of its user lie in the window
\* before it that no suspicious success has used before.
Suspicious(events, stream, e) ==
  LET suspicious[s \in 0..e] ==
        /\ s \in events /\ stream[s].auth = "succeeded"
        /\ Cardinality({f \in events :
             /\ f < s /\ f >= s - Window
             /\ stream[f].auth = "failed" /\ stream[f].user = stream[s].user
             /\ \A x \in events : f < x /\ x < s /\ stream[x].user = stream[s].user
                                  => ~suspicious[x]}) >= FailuresNeeded
  IN  suspicious[e]

Expected(events, stream, e) ==
  {f \in Finding :
     \/ f = "CORR-AUTH-001" /\ Suspicious(events \cup {e}, stream, e)
     \/ f = "CORR-EXEC-002" /\ stream[e].connects
          /\ \E x \in events \cup {e} : x <= e /\ x >= e - Window /\ stream[x].shell}
=============================================================================
