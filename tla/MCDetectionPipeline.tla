------------------------ MODULE MCDetectionPipeline ------------------------
EXTENDS DetectionPipeline, TLC

CONSTANTS u1, u2, text, name

Quiet == [auth |-> "none", user |-> u1, shell |-> FALSE, connects |-> FALSE,
          data |-> [f \in Field |-> "absent"], offline |-> FALSE]

Failure  == [Quiet EXCEPT !.auth = "failed"]
Success  == [Quiet EXCEPT !.auth = "succeeded"]
OtherFailure == [Failure EXCEPT !.user = u2]
Shell    == [Quiet EXCEPT !.shell = TRUE]
Connects == [Quiet EXCEPT !.connects = TRUE]

\* Logins of two users: two successes within the window of two failures, or one
\* and a failure that is too old.
Logins ==
  {s \in [Event -> {Failure, Success, OtherFailure, None}] :
     /\ s[1] = Failure /\ s[2] \in {Failure, OtherFailure}
     /\ \/ s[3] = Success /\ s[4] = Success /\ s[5] = None
        \/ s[3] = Failure /\ s[4] = None /\ s[5] = Success}

\* An event that tells rules and policies apart.
Reveal(t, n, offline) ==
  [Connects EXCEPT !.data = [f \in Field |-> IF f = text THEN t ELSE n],
                   !.offline = offline]

Revealing == {Reveal("unbounded", "holds", FALSE), Reveal("fails", "holds", FALSE),
              Reveal("fails", "holds", TRUE), Reveal("fails", "mistyped", FALSE)}

\* Shells, connections, and what rules look at.
Sequences ==
  {s \in [Event -> {Shell, Connects, None} \cup Revealing] :
     /\ s[1] = Shell /\ s[2] = Connects /\ s[3] = None
     /\ \/ s[4] \in Revealing /\ s[5] = None
        \/ s[4] = None /\ s[5] \in Revealing}

MCStreams == Logins \cup Sequences

MCRules ==
  <<[enabled |-> TRUE, allowOffline |-> TRUE, delta |-> 60, critical |-> FALSE,
     condition |-> <<Group("any", <<2, 3>>), Test("regex", text), Test("eq", name)>>],
    [enabled |-> TRUE, allowOffline |-> FALSE, delta |-> 20, critical |-> TRUE,
     condition |-> <<Group("all", <<2, 3>>), Group("not", <<4>>),
                     Test("exists", name), Test("regex", text)>>]>>

MCPolicies ==
  <<[enabled |-> TRUE, allowOffline |-> FALSE, link |-> 1, priority |-> 10,
     low |-> 50, high |-> 84, enforce |-> TRUE, action |-> "destroy"],
    [enabled |-> TRUE, allowOffline |-> TRUE, link |-> None, priority |-> 10,
     low |-> 60, high |-> 100, enforce |-> TRUE, action |-> "contain"],
    [enabled |-> TRUE, allowOffline |-> TRUE, link |-> None, priority |-> 5,
     low |-> 0, high |-> 40, enforce |-> FALSE, action |-> "contain"]>>

MCDelta == [f \in Finding |-> IF f = "CORR-AUTH-001" THEN 30 ELSE 35]

\* Workers are interchangeable, and only safety is checked.
Symmetric == Permutations(Worker)
============================================================================
