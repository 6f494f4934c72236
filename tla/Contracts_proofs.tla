------------------------- MODULE Contracts_proofs -------------------------
(***************************************************************************)
(* What the abstract specifications promise, proved for every set of       *)
(* commands, records, rules, threads and events.  Together with the        *)
(* theorems named Refinement, which show that the components implement     *)
(* them, these are promises of the code.  None needs an assumption about   *)
(* the constants.                                                          *)
(***************************************************************************)
EXTENDS Naturals, SequenceTheorems, TLAPS

CONSTANTS Command, Outcome, NoOutcome,    \* CommandContract
          Record,                         \* TelemetryTransfer
          Rule, Thread, Body,             \* RuleHistory
          Item                            \* WorkQueue

VARIABLES phase, runs, outcome,
          atAgent, atManager,
          live, versions, pending,
          status, effects, reopened, audited, notices

Contract == INSTANCE CommandContract
Transfer == INSTANCE TelemetryTransfer
History  == INSTANCE RuleHistory
Queue    == INSTANCE WorkQueue

---------------------------------------------------------------------------
(* CommandContract *)

\* A command acts at most once, and its outcome tells what it did.
ActsOnceAndSaysSo ==
  \A c \in Command :
    /\ runs[c] \in {0, 1}
    /\ phase[c] = "none" => runs[c] = 0
    /\ phase[c] = "closed" => /\ outcome[c] \in Outcome
                              /\ outcome[c] = "SUCCESS" => runs[c] = 1
                              /\ outcome[c] = "REJECTED" => runs[c] = 0

\* A closed command stays as it is.
ClosedIsFinal ==
  \A c \in Command :
    phase[c] = "closed" =>
      phase'[c] = "closed" /\ outcome'[c] = outcome[c] /\ runs'[c] = runs[c]

ContractInv ==
  /\ DOMAIN phase = Command /\ DOMAIN runs = Command /\ DOMAIN outcome = Command
  /\ ActsOnceAndSaysSo

LEMMA ContractNext == ContractInv /\ [Contract!Next]_(Contract!vars) => ContractInv' /\ ClosedIsFinal
<1> SUFFICES ASSUME ContractInv, [Contract!Next]_(Contract!vars)
             PROVE  ContractInv' /\ ClosedIsFinal
  OBVIOUS
<1> USE DEF ContractInv, ActsOnceAndSaysSo, ClosedIsFinal
<1>1. CASE UNCHANGED Contract!vars
  BY <1>1 DEF Contract!vars
<1>2. CASE \E c \in Command : Contract!Request(c)
  BY <1>2 DEF Contract!Request
<1>3. CASE \E c \in Command : Contract!Perform(c)
  BY <1>3 DEF Contract!Perform
<1>4. CASE \E c \in Command : \E o \in Outcome : Contract!Close(c, o)
  BY <1>4 DEF Contract!Close
<1>5. CASE \E S \in SUBSET Command : Contract!Expire(S)
  BY <1>5 DEF Contract!Expire
<1> QED BY <1>1, <1>2, <1>3, <1>4, <1>5 DEF Contract!Next

\* What an operator reads of a command is true: it acted at most once, SUCCESS
\* means that it acted, REJECTED that it did not.
THEOREM CommandActsOnce == Contract!Spec => []ActsOnceAndSaysSo
<1>1. Contract!Init => ContractInv
  BY DEF Contract!Init, ContractInv, ActsOnceAndSaysSo
<1>2. ContractInv => ActsOnceAndSaysSo
  BY DEF ContractInv
<1> QED BY <1>1, <1>2, ContractNext, PTL DEF Contract!Spec

\* Once an operator has read an outcome, no late report, retry or effect
\* changes it.
THEOREM OutcomeIsFinal == Contract!Spec => [][ClosedIsFinal]_(Contract!vars)
<1>1. Contract!Init => ContractInv
  BY DEF Contract!Init, ContractInv, ActsOnceAndSaysSo
<1> QED BY <1>1, ContractNext, PTL DEF Contract!Spec

---------------------------------------------------------------------------
(* TelemetryTransfer *)

\* A record that was collected is somewhere, and what is stored stays stored.
NothingLost == /\ atAgent \cup atManager \subseteq (atAgent \cup atManager)'
               /\ atManager \subseteq atManager'

\* No collected record is ever without a copy, and the manager never loses one.
THEOREM RecordsAreKept == Transfer!Spec => [][NothingLost]_(Transfer!vars)
<1>1. [Transfer!Next]_(Transfer!vars) => [NothingLost]_(Transfer!vars)
  BY DEF Transfer!Next, Transfer!vars, Transfer!Collect, Transfer!Store, Transfer!GiveUp, NothingLost
<1> QED BY <1>1, PTL DEF Transfer!Spec

---------------------------------------------------------------------------
(* RuleHistory *)

HistoryInv ==
  /\ live \subseteq Rule /\ DOMAIN versions = Rule
  /\ \A r \in Rule : versions[r] \in Seq(History!Definition)
  /\ \A r \in live : versions[r] # <<>>
  /\ pending \subseteq History!Request
  /\ \A p, q \in pending : p.thread = q.thread => p = q

\* The definitions of a rule are only added to, and a rule that was deleted
\* neither returns nor changes.
OnlyAppended ==
  \A r \in Rule :
    /\ \/ versions'[r] = versions[r]
       \/ \E d \in History!Definition : versions'[r] = Append(versions[r], d)
    /\ versions[r] # <<>> /\ r \notin live => r \notin live' /\ versions'[r] = versions[r]

\* Whatever definition is added to a rule that has one, is the edit of a
\* request that had seen all the earlier definitions, and answers that one.
SeenBeforeEdited ==
  \A r \in Rule :
    versions[r] # <<>> /\ versions'[r] # versions[r] =>
      \E p \in pending \ pending' :
        p.kind \in History!EditKind /\ p.rule = r /\ p.seen = Len(versions[r])

LEMMA HistoryAnswer ==
  ASSUME HistoryInv, NEW p \in pending, History!Answer(p)
  PROVE  HistoryInv' /\ OnlyAppended /\ SeenBeforeEdited
<1>1. /\ p \in History!Request /\ p.rule \in Rule
      /\ pending' = pending \ {p} /\ p \in pending \ pending'
  BY DEF HistoryInv, History!Answer, History!Request
<1>2. pending' \subseteq History!Request /\ \A a, b \in pending' : a.thread = b.thread => a = b
  BY <1>1 DEF HistoryInv
<1>3. CASE History!Create(p)
  <2>1. PICK d \in History!Definition : versions' = [versions EXCEPT ![p.rule] = <<d>>]
    BY <1>3 DEF History!Create
  <2>2. /\ <<d>> \in Seq(History!Definition) /\ <<d>> = Append(<<>>, d) /\ <<d>> # <<>>
        /\ versions[p.rule] = <<>> /\ live' = live \cup {p.rule}
    BY <1>3, <2>1 DEF History!Create
  <2>3. /\ versions'[p.rule] = <<d>> /\ DOMAIN versions' = Rule
        /\ \A r \in Rule \ {p.rule} : versions'[r] = versions[r]
    BY <1>1, <2>1 DEF HistoryInv
  <2>4. HistoryInv'
    BY <1>1, <1>2, <2>2, <2>3 DEF HistoryInv
  <2>5. OnlyAppended
    BY <1>1, <2>2, <2>3 DEF OnlyAppended
  <2>6. SeenBeforeEdited
    BY <2>2, <2>3 DEF SeenBeforeEdited
  <2> QED BY <2>4, <2>5, <2>6
<1>4. CASE History!Edit(p)
  <2>1. PICK d \in History!Definition :
          versions' = [versions EXCEPT ![p.rule] = Append(@, d)]
    BY <1>4 DEF History!Edit
  <2>2. /\ p.kind \in History!EditKind /\ p.rule \in live
        /\ p.seen = Len(versions[p.rule]) /\ live' = live
    BY <1>4 DEF History!Edit
  <2>3. /\ versions'[p.rule] = Append(versions[p.rule], d) /\ DOMAIN versions' = Rule
        /\ \A r \in Rule \ {p.rule} : versions'[r] = versions[r]
    BY <1>1, <2>1 DEF HistoryInv
  <2>4. versions'[p.rule] \in Seq(History!Definition) /\ versions'[p.rule] # <<>>
    <3>1. versions[p.rule] \in Seq(History!Definition)
      BY <1>1 DEF HistoryInv
    <3> QED BY <2>3, <3>1, AppendProperties
  <2>5. HistoryInv'
    BY <1>1, <1>2, <2>2, <2>3, <2>4 DEF HistoryInv
  <2>6. OnlyAppended
    BY <1>1, <2>2, <2>3 DEF OnlyAppended
  <2>7. SeenBeforeEdited
    BY <1>1, <2>2, <2>3 DEF SeenBeforeEdited
  <2> QED BY <2>5, <2>6, <2>7
<1>5. CASE History!Delete(p) \/ History!Refuse
  <2>1. live' \subseteq live /\ UNCHANGED versions
    BY <1>5 DEF History!Delete, History!Refuse
  <2> QED BY <1>2, <2>1 DEF HistoryInv, OnlyAppended, SeenBeforeEdited
<1> QED BY <1>3, <1>4, <1>5 DEF History!Answer

LEMMA HistoryNext ==
  HistoryInv /\ [History!Next]_(History!vars) => HistoryInv' /\ OnlyAppended /\ SeenBeforeEdited
<1> SUFFICES ASSUME HistoryInv, [History!Next]_(History!vars)
             PROVE  HistoryInv' /\ OnlyAppended /\ SeenBeforeEdited
  OBVIOUS
<1>1. CASE UNCHANGED History!vars
  BY <1>1 DEF History!vars, HistoryInv, OnlyAppended, SeenBeforeEdited
<1>2. CASE \E p \in pending' \ pending : History!Ask(p)
  <2>1. PICK p \in pending' \ pending : History!Ask(p)
    BY <1>2
  <2>2. /\ p \in History!Request /\ pending' = pending \cup {p}
        /\ \A q \in pending : q.thread # p.thread
        /\ UNCHANGED <<live, versions>>
    BY <2>1 DEF History!Ask
  <2> QED BY <2>2 DEF HistoryInv, OnlyAppended, SeenBeforeEdited
<1>3. CASE \E p \in pending : History!Answer(p)
  BY <1>3, HistoryAnswer
<1>4. CASE History!Restart
  BY <1>4 DEF History!Restart, HistoryInv, OnlyAppended, SeenBeforeEdited
<1> QED BY <1>1, <1>2, <1>3, <1>4 DEF History!Next

LEMMA HistoryInit == History!Init => HistoryInv
<1> SUFFICES ASSUME History!Init PROVE HistoryInv
  OBVIOUS
<1>1. ASSUME NEW r \in Rule
      PROVE  versions[r] \in Seq(History!Definition) /\ (r \in live => versions[r] # <<>>)
  <2>1. CASE r \in live
    <3>1. PICK d \in History!Definition : versions[r] = <<d>>
      BY <2>1 DEF History!Init
    <3> QED BY <3>1
  <2>2. CASE r \notin live
    <3>1. versions[r] = <<>>
      BY <2>2 DEF History!Init
    <3> QED BY <2>2, <3>1, EmptySeq
  <2> QED BY <2>1, <2>2
<1>2. /\ live \subseteq Rule /\ DOMAIN versions = Rule
      /\ pending \subseteq History!Request
      /\ \A p, q \in pending : p.thread = q.thread => p = q
  BY DEF History!Init
<1> QED BY <1>1, <1>2 DEF HistoryInv

\* The history of a rule is never rewritten, and its id is never used again.
THEOREM HistoryOnlyGrows == History!Spec => [][OnlyAppended]_(History!vars)
BY HistoryInit, HistoryNext, PTL DEF History!Spec

\* Of two operators who edit the same version of a rule, one is refused.
THEOREM EditsAreOptimistic == History!Spec => [][SeenBeforeEdited]_(History!vars)
BY HistoryInit, HistoryNext, PTL DEF History!Spec

---------------------------------------------------------------------------
(* WorkQueue *)

\* The effects of an event are those it was reopened after and the one that
\* stands, an event that is not tried again is in the audit trail, and what is
\* announced has happened.
CountedAndAudited ==
  /\ \A i \in Item : /\ effects[i] = reopened[i] + (IF status[i] = "done" THEN 1 ELSE 0)
                     /\ status[i] = "stopped" => i \in audited
  /\ \A n \in notices : n[1] \in Item /\ n[2] \in 1..effects[n[1]]

\* The notice of an effect is left by the step of the effect, unless the event
\* arrives with it.
NoticedAtOnce ==
  \A i \in Item : effects'[i] # effects[i] => status[i] = "absent" \/ <<i, effects'[i]>> \in notices'

QueueInv ==
  /\ DOMAIN status = Item /\ effects \in [Item -> Nat] /\ reopened \in [Item -> Nat]
  /\ \A i \in Item : status[i] = "absent" => effects[i] = 0 /\ reopened[i] = 0
  /\ CountedAndAudited

LEMMA QueueNext == QueueInv /\ [Queue!Next]_(Queue!vars) => QueueInv' /\ NoticedAtOnce
<1> SUFFICES ASSUME QueueInv, [Queue!Next]_(Queue!vars) PROVE QueueInv' /\ NoticedAtOnce
  OBVIOUS
<1> USE DEF QueueInv, CountedAndAudited, NoticedAtOnce
<1>1. CASE UNCHANGED Queue!vars
  BY <1>1 DEF Queue!vars
<1>2. CASE \E i \in Item : Queue!Receive(i)
  BY <1>2 DEF Queue!Receive
<1>3. CASE \E i \in Item : Queue!Import(i)
  BY <1>3 DEF Queue!Import
<1>4. CASE \E i \in Item : Queue!Perform(i)
  BY <1>4 DEF Queue!Perform
<1>5. CASE \E i \in Item : Queue!TryAgain(i)
  BY <1>5 DEF Queue!TryAgain, Queue!Fail
<1>6. CASE \E i \in Item : Queue!GiveUp(i)
  BY <1>6 DEF Queue!GiveUp, Queue!Fail
<1>7. CASE \E i \in Item : Queue!Resume(i)
  BY <1>7 DEF Queue!Resume
<1>8. CASE \E S \in SUBSET notices : Queue!Announce(S)
  BY <1>8 DEF Queue!Announce
<1> QED BY <1>1, <1>2, <1>3, <1>4, <1>5, <1>6, <1>7, <1>8 DEF Queue!Next

LEMMA QueueInit == Queue!Init => QueueInv
BY DEF Queue!Init, QueueInv, CountedAndAudited

\* No event is detected twice without having been reopened, none is given up
\* silently, and nothing is announced that did not happen.
THEOREM QueueIsHonest == Queue!Spec => []CountedAndAudited
<1>1. QueueInv => CountedAndAudited
  BY DEF QueueInv
<1> QED BY <1>1, QueueInit, QueueNext, PTL DEF Queue!Spec

\* No detection takes effect without leaving its notice.
THEOREM EffectsAreNoticed == Queue!Spec => [][NoticedAtOnce]_(Queue!vars)
BY QueueInit, QueueNext, PTL DEF Queue!Spec
===========================================================================
