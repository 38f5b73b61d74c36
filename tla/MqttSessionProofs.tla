-------------------------- MODULE MqttSessionProofs --------------------------
(***************************************************************************)
(* What MqttSession promises for every set of topics, any number of        *)
(* messages of either quality of service, any TLS material, and any number *)
(* of edits and faults.                                                     *)
(***************************************************************************)
EXTENDS MqttSession, FiniteSetTheorems, WellFoundedInduction, TLAPS

(* CHOOSE finds the least of a set of numbers. *)
LEMMA FirstFact ==
  ASSUME NEW S \in SUBSET Nat, S # {}
  PROVE  First(S) \in S /\ \A k \in S : First(S) <= k
<1> DEFINE Less == {pair \in Nat \X Nat : pair[1] < pair[2]}
<1>1. IsWellFoundedOn(Less, Nat)
  BY NatLessThanWellFounded DEF OpToRel
<1>2. \E n \in S : \A k \in S : ~(<<k, n>> \in Less)
  <2> HIDE DEF Less
  <2> QED
    BY <1>1, WFMin
<1>3. PICK n \in S : \A k \in S : ~(<<k, n>> \in Less)
  BY <1>2
<1>4. ASSUME NEW k \in S PROVE n <= k
  <2>1. k \in Nat /\ n \in Nat
    OBVIOUS
  <2>2. ~(k < n)
    BY <1>3, <2>1
  <2> QED
    BY <2>1, <2>2
<1> QED
  BY <1>4 DEF First

(***************************************************************************)
(* The inductive invariant, in parts.  What is on its way belongs to the   *)
(* messages published so far, and a message is being handled exactly in    *)
(* "handle".                                                                *)
(***************************************************************************)
Placed ==
  /\ unacked \subseteq 1..sent /\ passing \subseteq 1..sent
  /\ pc = "handle" => current # 0 /\ (current \in Durable => current \in delivered)
  /\ pc # "handle" => current = 0

(* The probe counts what this session has been granted. *)
Earned ==
  pc \in {"recv", "handle"} =>
    /\ probe.connected => link = "open"
    /\ probe.received_subscriptions = Cardinality(granted)
    /\ probe.subscriptions_ready => granted = Topic

(* What the session has got over with, and what the broker has let go of,   *)
(* is judged; so is everything before the message that is being handled.    *)
Behind ==
  /\ \A k \in delivered \ {current} : Judged(k)
  /\ \A k \in Durable : k <= sent /\ k \notin unacked => Judged(k)
  /\ current \in Durable => \A k \in Durable : k < current => Judged(k)

Sound == TypeOK /\ Placed

(* How the handling of a message can fail. *)
Failures == {"failed", "reply_lost"}

(* The ways a step can go. *)
LEMMA NextCases ==
  ASSUME [Next]_vars
  PROVE  \/ Publish
         \/ EditFiles
         \/ Stop
         \/ Crash
         \/ Start
         \/ Connect
         \/ ConnectLoadFails
         \/ Backoff
         \/ StopSeen
         \/ TlsCheck
         \/ ConnAck
         \/ \E t \in Topic, ok \in BOOLEAN : SubAck(t, ok)
         \/ ConnectionError
         \/ Receive
         \/ Settled
         \/ \E result \in Failures : FailedDropped(result) \/ FailedLeaves(result)
         \/ AckWritten
         \/ UNCHANGED vars
BY DEF Next, Thread, StartPanics, RecvTimeout, Ended, Failures

LEMMA UndeliveredFact ==
  ASSUME TypeOK, Placed, Undelivered # {}
  PROVE  /\ First(Undelivered) \in Undelivered
         /\ First(Undelivered) \in 1..sent
         /\ \A k \in Undelivered : First(Undelivered) <= k
<1>1. Undelivered \subseteq 1..sent
  BY DEF Placed, Undelivered
<1>2. Undelivered \in SUBSET Nat
  <2>1. sent \in Nat /\ 1..sent \subseteq Nat
    BY SessionAssumption DEF TypeOK
  <2> QED
    BY <1>1, <2>1
<1> QED
  BY <1>1, <1>2, FirstFact

LEMMA AcksFact ==
  ASSUME TypeOK, acks # {}
  PROVE  First(acks) \in acks
<1>1. acks \in SUBSET Nat
  BY SessionAssumption DEF TypeOK, Durable, Message
<1> QED
  BY <1>1, FirstFact

LEMMA FaultType ==
  ASSUME faults \in 0..MaxFaults, Fault
  PROVE  faults' \in 0..MaxFaults
  BY SessionAssumption DEF Fault

LEMMA TopicCount == Cardinality(Topic) \in Nat
  BY SessionAssumption, FS_CardinalityType

LEMMA ResetType ==
  ProbeReset \in [connected : BOOLEAN, subscriptions_ready : BOOLEAN,
                  received_subscriptions : 0..Cardinality(Topic)]
<1>1. 0 \in 0..Cardinality(Topic) /\ FALSE \in BOOLEAN
  BY TopicCount
<1> QED
  BY <1>1 DEF ProbeReset

(* What leaving a session clears. *)
LEMMA LeaveFact ==
  ASSUME NEW next \in {"connect", "backoff"}, Leave(next)
  PROVE  /\ pc' \in {"connect", "backoff", "ended"}
         /\ connected' \in BOOLEAN
         /\ link' = "none"
         /\ delivered' = {} /\ passing' = {} /\ acks' = {}
         /\ current' = 0
<1>1. connected' \in BOOLEAN
  BY Zenon DEF Leave
<1>2. pc' \in {"connect", "backoff", "ended"}
  BY DEF Leave, AfterSession
<1> QED
  BY <1>1, <1>2 DEF Leave

(* What a SUBACK does to the probe. *)
LEMMA SubAckProbe ==
  ASSUME Sound, Earned, NEW t \in Topic, NEW ok \in BOOLEAN, SubAck(t, ok)
  PROVE  /\ probe' \in [connected : BOOLEAN, subscriptions_ready : BOOLEAN,
                        received_subscriptions : 0..Cardinality(Topic)]
         /\ probe'.connected = probe.connected
         /\ probe'.received_subscriptions = Cardinality(granted')
         /\ probe'.subscriptions_ready => granted' = Topic
<1>1. IsFiniteSet(Topic) /\ granted \in SUBSET Topic /\ granted' \in SUBSET Topic
      /\ t \notin granted
  BY SessionAssumption DEF Sound, TypeOK, SubAck
<1>2. IsFiniteSet(granted) /\ Cardinality(granted) \in Nat
  BY <1>1, FS_Subset, FS_CardinalityType
<1>3. /\ probe.received_subscriptions = Cardinality(granted)
      /\ probe.subscriptions_ready => granted = Topic
  BY DEF Earned, SubAck
<1>4. CASE ok
  <2>1. granted' = granted \cup {t}
    BY <1>4 DEF SubAck
  <2>2. Cardinality(granted') = Cardinality(granted) + 1
    BY <1>1, <1>2, <2>1, FS_AddElement
  <2>3. /\ Cardinality(granted') <= Cardinality(Topic)
        /\ Cardinality(granted') = Cardinality(Topic) => granted' = Topic
    BY <1>1, FS_Subset
  <2> DEFINE received == probe.received_subscriptions + 1
             ready == probe.subscriptions_ready \/ received >= Cardinality(Topic)
  <2>4. probe' = [probe EXCEPT !.received_subscriptions = received,
                               !.subscriptions_ready = ready]
    BY <1>4 DEF SubAck, Counts
  <2>5. ready \in BOOLEAN /\ (ready => granted' = Topic)
    BY <1>1, <1>2, <1>3, <2>2, <2>3, TopicCount
  <2>6. received \in 0..Cardinality(Topic) /\ received = Cardinality(granted')
    BY <1>2, <1>3, <2>2, <2>3, TopicCount
  <2> HIDE DEF received, ready
  <2> QED
    BY <2>4, <2>5, <2>6 DEF Sound, TypeOK
<1>5. CASE ~ok
  BY <1>3, <1>5 DEF Sound, TypeOK, SubAck, Counts
<1> QED
  BY <1>4, <1>5

--------------------------------------------------------------------------------
(* Types, and where the thread is. *)
LEMMA TypeInit == Init => Sound /\ Earned /\ Behind
<1> SUFFICES ASSUME Init PROVE Sound /\ Earned /\ Behind
  OBVIOUS
<1>1. running \in BOOLEAN /\ connected \in BOOLEAN
  BY Zenon DEF Init
<1>2. 0 \in 0..MaxMessages /\ 0 \in 0..MaxEdits /\ 0 \in 0..MaxFaults
  BY SessionAssumption
<1>3. material \in Contents /\ NoMaterial \in Contents
  BY SessionAssumption DEF Init, Contents
<1>4. probe = ProbeReset
  BY DEF Init
<1>5. TypeOK
  BY <1>1, <1>2, <1>3, <1>4, ResetType DEF Init, TypeOK
<1>6. Placed /\ Earned
  BY DEF Init, Placed, Earned
<1>7. Behind
  <2>1. sent = 0 /\ delivered = {} /\ current = 0
    BY DEF Init
  <2> QED
    BY <2>1 DEF Behind, Durable, Message
<1> QED
  BY <1>5, <1>6, <1>7 DEF Sound

LEMMA SoundNext ==
  ASSUME Sound, Earned, [Next]_vars
  PROVE  Sound'
<1> USE DEF Sound
<1>1. CASE Publish
  <2>1. sent' = sent + 1 /\ sent' \in 0..MaxMessages /\ sent' \in Message /\ sent \in Nat
    BY <1>1, SessionAssumption DEF TypeOK, Publish, Message
  <2>2. 1..sent \subseteq 1..sent' /\ 0..sent \subseteq 0..sent' /\ sent' \in 1..sent'
    BY <2>1
  <2>3. unacked \subseteq unacked' /\ unacked' \subseteq unacked \cup ({sent'} \cap Durable)
    BY <1>1 DEF Publish
  <2>4. passing' \subseteq passing \cup ({sent'} \cap Fleeting)
    BY <1>1, <2>1 DEF Publish, Durable
  <2>5. unacked' \subseteq Durable /\ passing' \subseteq Fleeting /\ delivered' \subseteq unacked'
    BY <1>1, <2>3, <2>4 DEF TypeOK, Publish
  <2>6. unacked' \subseteq 1..sent' /\ passing' \subseteq 1..sent'
    BY <2>2, <2>3, <2>4 DEF Placed
  <2>7. UNCHANGED <<running, material, pc, connected, tlsVars, link, probe, subVars,
                    delivered, acks, current, outcome, boundVars>>
    BY <1>1 DEF Publish
  <2>8. TypeOK'
    BY <2>1, <2>2, <2>5, <2>7 DEF TypeOK, tlsVars, subVars, boundVars
  <2> QED
    BY <2>6, <2>7, <2>8 DEF Placed
<1>2. CASE EditFiles
  <2>1. edits' \in 0..MaxEdits /\ material' \in Contents
    BY <1>2, SessionAssumption DEF TypeOK, EditFiles, Contents
  <2> QED
    BY <1>2, <2>1 DEF TypeOK, Placed, EditFiles, tlsVars, subVars, brokerVars, inFlight
<1>3. CASE Stop
  <2>1. running' \in BOOLEAN
    BY <1>3, Zenon DEF Stop
  <2> QED
    BY <1>3, <2>1
    DEF TypeOK, Placed, Stop, tlsVars, subVars, brokerVars, inFlight, boundVars
<1>4. CASE Crash
  <2>1. running' \in BOOLEAN /\ connected' \in BOOLEAN
    BY <1>4, Zenon DEF Crash
  <2>2. faults' \in 0..MaxFaults
    BY <1>4, FaultType DEF TypeOK, Crash
  <2>3. probe' = ProbeReset /\ NoMaterial \in Contents /\ 0 \in 0..sent
    BY <1>4, SessionAssumption DEF TypeOK, Crash, Contents
  <2> QED
    BY <1>4, <2>1, <2>2, <2>3, ResetType DEF TypeOK, Placed, Crash, brokerVars
<1>5. CASE Start
  BY <1>5
  DEF TypeOK, Placed, Start, subVars, brokerVars, inFlight, boundVars
<1>6. CASE Connect \/ ConnectLoadFails
  <2>1. probe' = ProbeReset /\ NoMaterial \in Contents
    BY <1>6 DEF Connect, ConnectLoadFails, Reset, Contents
  <2> QED
    BY <1>6, <2>1, ResetType
    DEF TypeOK, Placed, Connect, ConnectLoadFails, tlsVars, subVars, brokerVars, inFlight,
        boundVars
<1>7. CASE Backoff
  BY <1>7
  DEF TypeOK, Placed, Backoff, tlsVars, subVars, brokerVars, inFlight, boundVars
<1>8. CASE StopSeen \/ TlsCheck \/ ConnectionError
  <2>1. /\ pc' \in {"connect", "backoff", "ended"}
        /\ connected' \in BOOLEAN
        /\ link' = "none"
        /\ delivered' = {} /\ passing' = {} /\ acks' = {}
        /\ current' = 0
    BY <1>8, LeaveFact DEF StopSeen, TlsCheck, ConnectionError
  <2>2. staged' \in Contents /\ faults' \in 0..MaxFaults
    BY <1>8, FaultType
    DEF TypeOK, StopSeen, TlsCheck, ConnectionError, tlsVars, boundVars
  <2>3. UNCHANGED <<running, material, active, attempt, probe, subVars, brokerVars,
                    outcome, edits>>
    BY <1>8 DEF StopSeen, TlsCheck, ConnectionError, tlsVars, boundVars
  <2>4. 0 \in 0..sent
    BY SessionAssumption DEF TypeOK
  <2> QED
    BY <2>1, <2>2, <2>3, <2>4 DEF TypeOK, Placed, subVars, brokerVars
<1>9. CASE ConnAck
  <2>1. connected' \in BOOLEAN
    BY <1>9, Zenon DEF ConnAck
  <2>2. probe' \in [connected : BOOLEAN, subscriptions_ready : BOOLEAN,
                    received_subscriptions : 0..Cardinality(Topic)]
    BY <1>9 DEF TypeOK, ConnAck
  <2>3. active' \in Contents
    BY <1>9 DEF TypeOK, ConnAck, NewActive
  <2> QED
    BY <1>9, <2>1, <2>2, <2>3
    DEF TypeOK, Placed, ConnAck, subVars, brokerVars, inFlight, boundVars
<1>10. ASSUME NEW t \in Topic, NEW ok \in BOOLEAN, SubAck(t, ok)
       PROVE  Sound'
  BY <1>10, SubAckProbe
  DEF TypeOK, Placed, SubAck, tlsVars, brokerVars, inFlight, boundVars
<1>11. CASE Receive
  <2> DEFINE m == First(Undelivered)
  <2>1. m \in Undelivered /\ m \in 1..sent /\ sent \in Nat
    BY <1>11, UndeliveredFact, SessionAssumption DEF TypeOK, Receive
  <2>2. m \in Durable => m \in unacked
    BY <2>1 DEF TypeOK, Undelivered, Durable
  <2>3. /\ current' = m /\ pc' = "handle"
        /\ passing' = passing \ {m}
        /\ delivered' = delivered \cup ({m} \cap Durable)
        /\ UNCHANGED <<running, material, connected, tlsVars, link, probe, subVars,
                       brokerVars, acks, outcome, boundVars>>
    BY <1>11 DEF Receive
  <2> HIDE DEF m
  <2>4. m \in 0..sent /\ m # 0 /\ delivered' \subseteq unacked /\ acks' \subseteq delivered'
    BY <2>1, <2>2, <2>3 DEF TypeOK
  <2> QED
    BY <2>1, <2>2, <2>3, <2>4
    DEF TypeOK, Placed, tlsVars, subVars, brokerVars, boundVars
<1>12. ASSUME NEW result \in Results, Result(result)
       PROVE  /\ outcome' \in [Message -> SUBSET Results]
              /\ faults' \in 0..MaxFaults
              /\ 0 \in 0..sent
              /\ current \in 1..sent
  <2>1. current \in 1..sent /\ 0 \in 0..sent
    BY <1>12, SessionAssumption DEF TypeOK, Placed, Result
  <2>2. faults' \in 0..MaxFaults
    BY <1>12, FaultType DEF TypeOK, Result
  <2> QED
    BY <1>12, <2>1, <2>2 DEF TypeOK, Result
<1>13. CASE Settled
  <2>1. /\ outcome' \in [Message -> SUBSET Results]
        /\ faults' \in 0..MaxFaults
        /\ 0 \in 0..sent
    BY <1>12, <1>13 DEF Settled, Results
  <2>2. current \in Durable => current \in delivered
    BY <1>13 DEF Placed, Settled, Result
  <2> QED
    BY <1>13, <2>1, <2>2
    DEF TypeOK, Placed, Settled, tlsVars, subVars, brokerVars
<1>14. ASSUME NEW result \in Failures, FailedDropped(result) \/ FailedLeaves(result)
       PROVE  Sound'
  <2>1. /\ outcome' \in [Message -> SUBSET Results]
        /\ faults' \in 0..MaxFaults
        /\ 0 \in 0..sent
    BY <1>12, <1>14 DEF FailedDropped, FailedLeaves, Results, Failures
  <2>2. CASE FailedDropped(result)
    BY <2>1, <2>2
    DEF TypeOK, Placed, FailedDropped, tlsVars, subVars, brokerVars, inFlight
  <2>3. CASE FailedLeaves(result)
    <3>1. /\ pc' \in {"connect", "backoff", "ended"}
          /\ connected' \in BOOLEAN
          /\ link' = "none"
          /\ delivered' = {} /\ passing' = {} /\ acks' = {}
          /\ current' = 0
      BY <2>3, LeaveFact DEF FailedLeaves
    <3> QED
      BY <2>1, <2>3, <3>1
      DEF TypeOK, Placed, FailedLeaves, KeptByBroker, tlsVars, subVars
  <2> QED
    BY <1>14, <2>2, <2>3
<1>15. CASE AckWritten
  BY <1>15, AcksFact
  DEF TypeOK, Placed, AckWritten, tlsVars, subVars, boundVars
<1>16. CASE UNCHANGED vars
  BY <1>16
  DEF TypeOK, Placed, vars, tlsVars, subVars, brokerVars, inFlight, boundVars
<1> QED
  BY <1>1, <1>2, <1>3, <1>4, <1>5, <1>6, <1>7, <1>8, <1>9, <1>10, <1>11, <1>13, <1>14,
     <1>15, <1>16, NextCases

--------------------------------------------------------------------------------
(* The probe and the session. *)
LEMMA EarnedNext ==
  ASSUME Sound, Earned, [Next]_vars
  PROVE  Earned'
<1>1. ASSUME NEW t \in Topic, NEW ok \in BOOLEAN, SubAck(t, ok)
      PROVE  Earned'
  BY <1>1, SubAckProbe DEF Earned, SubAck
<1>2. CASE Connect
  <2>1. probe' = ProbeReset /\ granted' = {}
    BY <1>2 DEF Connect, Reset
  <2>2. Cardinality(granted') = 0
    BY <2>1, FS_EmptySet
  <2> QED
    BY <2>1, <2>2 DEF Earned, ProbeReset
<1>3. CASE ConnAck
  BY <1>3 DEF Sound, TypeOK, Earned, ConnAck, subVars
<1>4. CASE pc' \notin {"recv", "handle"}
  BY <1>4 DEF Earned
<1>5. CASE pc \in {"recv", "handle"} /\ UNCHANGED <<probe, link, granted>>
  BY <1>5 DEF Earned
<1>6. CASE UNCHANGED <<pc, probe, link, granted>>
  BY <1>6 DEF Earned
<1>7. ASSUME StopSeen \/ TlsCheck \/ ConnectionError
              \/ \E result \in Failures : FailedLeaves(result)
      PROVE  pc' \notin {"recv", "handle"}
  BY <1>7, LeaveFact DEF StopSeen, TlsCheck, ConnectionError, FailedLeaves
<1>8. ASSUME Crash \/ Start \/ ConnectLoadFails \/ Backoff
      PROVE  pc' \notin {"recv", "handle"}
  BY <1>8 DEF Crash, Start, ConnectLoadFails, Backoff
<1>9. ASSUME Receive \/ Settled \/ \E result \in Failures : FailedDropped(result)
      PROVE  pc \in {"recv", "handle"} /\ UNCHANGED <<probe, link, granted>>
  BY <1>9 DEF Receive, Settled, FailedDropped, Result, subVars
<1>10. ASSUME Publish \/ EditFiles \/ Stop \/ AckWritten \/ UNCHANGED vars
       PROVE  UNCHANGED <<pc, probe, link, granted>>
  BY <1>10 DEF Publish, EditFiles, Stop, AckWritten, vars, subVars
<1> QED
  BY <1>1, <1>2, <1>3, <1>4, <1>5, <1>6, <1>7, <1>8, <1>9, <1>10, NextCases

(* For any topics, messages and files the variables keep their types: what  *)
(* is being acknowledged was delivered by this session, and what it          *)
(* delivered is still kept by the broker.                                    *)
THEOREM TypeCorrect == Spec => []TypeOK
<1>1. Init => Sound /\ Earned
  BY TypeInit
<1>2. Sound /\ Earned /\ [Next]_vars => (Sound /\ Earned)'
  BY SoundNext, EarnedNext
<1>3. Sound => TypeOK
  BY DEF Sound
<1> QED
  BY <1>1, <1>2, <1>3, PTL DEF Spec

(* While a session is being served, /ready is earned by that session: it    *)
(* was accepted, and each of its topics granted (mqtt.rs:297-299, 461-489).  *)
THEOREM ReadinessIsEarned == Spec => []ReadyIsEarned
<1>1. Init => Sound /\ Earned
  BY TypeInit
<1>2. Sound /\ Earned /\ [Next]_vars => (Sound /\ Earned)'
  BY SoundNext, EarnedNext
<1>3. Earned => ReadyIsEarned
  BY DEF Earned, ReadyIsEarned, Ready
<1> QED
  BY <1>1, <1>2, <1>3, PTL DEF Spec

--------------------------------------------------------------------------------
(* Order, and what the broker lets go of. *)
LEMMA JudgedStays ==
  ASSUME Sound, [Next]_vars, NEW k \in Message, Judged(k)
  PROVE  Judged(k)'
<1>1. ASSUME NEW result \in Results, Result(result)
      PROVE  Judged(k)'
  BY <1>1 DEF Sound, TypeOK, Result, Judged
<1>2. CASE UNCHANGED outcome
  BY <1>2 DEF Judged
<1> QED
  BY <1>1, <1>2, NextCases
  DEF Publish, EditFiles, Stop, Crash, Start, Connect, ConnectLoadFails, Backoff, StopSeen,
      TlsCheck, ConnAck, SubAck, ConnectionError, Receive, Settled, FailedDropped,
      FailedLeaves, AckWritten, vars, Failures, Results

(* A message that becomes judged is the one that is being handled. *)
LEMMA JudgedByHandling ==
  ASSUME Sound, [Next]_vars, NEW k \in Message, Judged(k)', ~Judged(k)
  PROVE  pc = "handle" /\ k = current
<1>1. ASSUME NEW result \in Results, Result(result)
      PROVE  pc = "handle" /\ k = current
  BY <1>1 DEF Sound, TypeOK, Result, Judged
<1>2. CASE UNCHANGED outcome
  BY <1>2 DEF Judged
<1> QED
  BY <1>1, <1>2, NextCases
  DEF Publish, EditFiles, Stop, Crash, Start, Connect, ConnectLoadFails, Backoff, StopSeen,
      TlsCheck, ConnAck, SubAck, ConnectionError, Receive, Settled, FailedDropped,
      FailedLeaves, AckWritten, vars, Failures, Results

LEMMA BehindNext ==
  ASSUME Sound, Behind, [Next]_vars
  PROVE  Behind'
<1>1. delivered \subseteq Durable /\ Durable \subseteq Message
  BY DEF Sound, TypeOK, Durable
<1>2. \A k \in Message : Judged(k) => Judged(k)'
  BY JudgedStays
<1>3. CASE Publish
  <2>1. sent' = sent + 1 /\ sent' \in Message /\ sent \in Nat
    BY <1>3, SessionAssumption DEF Sound, TypeOK, Publish, Message
  <2>2. \A k \in Durable : k <= sent' => k <= sent \/ k = sent'
    BY <2>1 DEF Durable, Message
  <2>3. unacked \subseteq unacked' /\ (sent' \in Durable => sent' \in unacked')
    BY <1>3 DEF Publish
  <2>4. delivered' = delivered /\ current' = current
    BY <1>3 DEF Publish
  <2> QED
    BY <1>1, <1>2, <2>2, <2>3, <2>4 DEF Behind
<1>4. CASE Receive
  <2> DEFINE m == First(Undelivered)
  <2>1. m \in 1..sent /\ \A k \in Undelivered : m <= k
    BY <1>4, UndeliveredFact DEF Sound, Receive
  <2>2. current = 0 /\ 0 \notin Message
    BY <1>4 DEF Sound, Placed, Receive, Message
  <2>3. \A k \in delivered : Judged(k)
    BY <1>1, <2>2 DEF Behind
  <2>4. ASSUME NEW k \in Durable, k < m
        PROVE  Judged(k)
    <3>1. sent \in Nat /\ k \in Nat
      BY SessionAssumption DEF Sound, TypeOK, Durable, Message
    <3>2. k \notin Undelivered /\ k <= sent
      BY <2>1, <2>4, <3>1
    <3>3. k \in delivered \/ k \notin unacked
      BY <3>2 DEF Undelivered
    <3> QED
      BY <2>3, <3>2, <3>3 DEF Behind
  <2>5. /\ current' = m
        /\ delivered' = delivered \cup ({m} \cap Durable)
        /\ UNCHANGED <<sent, unacked>>
    BY <1>4 DEF Receive, brokerVars
  <2> HIDE DEF m
  <2> QED
    BY <1>1, <1>2, <2>3, <2>4, <2>5 DEF Behind
<1>5. CASE Settled
  <2>1. PICK m \in Message : m = current
    BY <1>5, SessionAssumption DEF Sound, TypeOK, Placed, Settled, Result, Message
  <2>2. Judged(m)'
    BY <1>5, <2>1 DEF Sound, TypeOK, Settled, Result, Judged
  <2>3. delivered' = delivered /\ current' = 0 /\ UNCHANGED <<sent, unacked>> /\ 0 \notin Durable
    BY <1>5 DEF Settled, brokerVars, Durable, Message
  <2> QED
    BY <1>1, <1>2, <2>1, <2>2, <2>3 DEF Behind
<1>6. ASSUME NEW result \in Failures, FailedDropped(result)
      PROVE  Behind'
  <2>1. /\ delivered' = delivered /\ current' = 0 /\ UNCHANGED <<sent, unacked>>
        /\ current \notin Durable /\ 0 \notin Durable
    BY <1>6 DEF FailedDropped, Redelivered, brokerVars, inFlight, Durable, Message
  <2> QED
    BY <1>1, <1>2, <2>1 DEF Behind
<1>7. CASE /\ delivered' = {} /\ current' = 0
           /\ UNCHANGED <<sent, unacked>>
  <2>1. 0 \notin Durable
    BY DEF Durable, Message
  <2> QED
    BY <1>1, <1>2, <1>7, <2>1 DEF Behind
<1>8. ASSUME StopSeen \/ TlsCheck \/ ConnectionError
              \/ \E result \in Failures : FailedLeaves(result)
      PROVE  delivered' = {} /\ current' = 0 /\ UNCHANGED <<sent, unacked>>
  BY <1>8 DEF StopSeen, TlsCheck, ConnectionError, FailedLeaves, KeptByBroker, Leave,
              brokerVars
<1>9. CASE AckWritten
  <2>1. PICK m \in delivered : m = First(acks)
    BY <1>9, AcksFact DEF Sound, TypeOK, AckWritten
  <2>2. Judged(m)
    <3>1. m \in Message /\ 0 \notin Message
      BY <1>1 DEF Message
    <3>2. current = 0
      BY <1>9 DEF Sound, Placed, AckWritten
    <3> QED
      BY <3>1, <3>2 DEF Behind
  <2>3. /\ delivered' = delivered \ {m} /\ unacked' = unacked \ {m}
        /\ UNCHANGED <<sent, current>>
    BY <1>9, <2>1 DEF AckWritten
  <2> QED
    BY <1>1, <1>2, <2>1, <2>2, <2>3 DEF Behind
<1>10. CASE UNCHANGED <<sent, unacked, delivered, current>>
  BY <1>1, <1>2, <1>10 DEF Behind
<1> QED
  BY <1>3, <1>4, <1>5, <1>6, <1>7, <1>8, <1>9, <1>10, NextCases
  DEF EditFiles, Stop, Crash, Start, Connect, ConnectLoadFails, Backoff, ConnAck, SubAck,
      vars, brokerVars, inFlight

LEMMA JudgedInOrderNext ==
  ASSUME Sound, Behind, JudgedInOrder, [Next]_vars
  PROVE  JudgedInOrder'
<1> SUFFICES ASSUME NEW m \in Durable, Judged(m)', NEW k \in Durable, k < m
             PROVE  Judged(k)'
  BY DEF JudgedInOrder
<1>1. m \in Message /\ k \in Message
  BY DEF Durable
<1>2. Judged(k)
  <2>1. CASE Judged(m)
    BY <2>1 DEF JudgedInOrder
  <2>2. CASE ~Judged(m)
    BY <1>1, <2>2, JudgedByHandling DEF Behind
  <2> QED
    BY <2>1, <2>2
<1> QED
  BY <1>1, <1>2, JudgedStays

(* Whatever fails in between, messages with QoS 1 are taken by ilert in     *)
(* their order for the first time: a message that failed leaves the session *)
(* before a later one is handled (mqtt.rs:516-532).                          *)
THEOREM OrderIsKept == Spec => []JudgedInOrder
<1> DEFINE IInv == Sound /\ Earned /\ Behind /\ JudgedInOrder
<1>1. Init => IInv
  <2> SUFFICES ASSUME Init PROVE JudgedInOrder
    BY TypeInit
  <2>1. \A m \in Durable : ~Judged(m)
    BY DEF Init, Judged, Durable
  <2> QED
    BY <2>1 DEF JudgedInOrder
<1>2. IInv /\ [Next]_vars => IInv'
  BY SoundNext, EarnedNext, BehindNext, JudgedInOrderNext
<1>3. IInv => JudgedInOrder
  OBVIOUS
<1> HIDE DEF IInv
<1> QED
  BY <1>1, <1>2, <1>3, PTL DEF Spec

--------------------------------------------------------------------------------
(* A step of the session is one of the relay, or invisible to it. *)
LEMMA RelayStep ==
  ASSUME Sound, Behind, [Next]_vars
  PROVE  [R!Next]_(R!relayVars)
<1> DEFINE judged(m) == IF Judged(m) THEN {"judged"} ELSE {}
<1>1. CASE Publish
  <2>1. sent' = sent + 1 /\ sent' \in Message /\ sent \in Nat /\ sent' \notin 1..sent
        /\ 1..sent' = 1..sent \cup {sent'}
    BY <1>1, SessionAssumption DEF Sound, TypeOK, Publish, Message
  <2>2. \A m \in Durable : judged(m)' = judged(m)
    BY <1>1 DEF Publish, Judged
  <2>3. CASE sent' \in Durable
    <3>1. PICK n \in Durable : n = sent'
      BY <2>3
    <3>2. unacked' = unacked \cup {n}
      BY <1>1, <2>3, <3>1 DEF Publish
    <3>3. R!Accept(n)
      BY <2>1, <2>2, <3>1, <3>2 DEF R!Accept
    <3> QED
      BY <3>3 DEF R!Next
  <2>4. CASE sent' \notin Durable
    <3>1. unacked' = unacked
      BY <1>1, <2>4 DEF Publish
    <3> QED
      BY <2>1, <2>2, <2>4, <3>1 DEF R!relayVars
  <2> QED
    BY <2>3, <2>4
<1>2. ASSUME NEW result \in Results, Result(result), UNCHANGED <<sent, unacked>>
      PROVE  [R!Next]_(R!relayVars)
  <2>1. PICK n \in Message : n = current
    BY <1>2, SessionAssumption DEF Sound, TypeOK, Placed, Result, Message
  <2>2. \A m \in Message \ {n} : judged(m)' = judged(m)
    BY <1>2, <2>1 DEF Sound, TypeOK, Result, Judged
  <2>3. CASE \A m \in Durable : judged(m)' = judged(m)
    BY <1>2, <2>3 DEF R!relayVars
  <2>4. CASE n \in Durable /\ judged(n)' # judged(n)
    <3>1. n \in unacked
      BY <1>2, <2>1, <2>4 DEF Sound, TypeOK, Placed, Result
    <3>2. judged(n)' = {"judged"} /\ judged(n) = {}
      BY <2>4, JudgedStays, <2>1
    <3> HIDE DEF judged
    <3>3. \A m \in Durable : judged(m)' = IF m = n THEN judged(n) \cup {"judged"} ELSE judged(m)
      BY <2>2, <3>2 DEF Durable
    <3>4. [m \in Durable |-> judged(m)]'
            = [[m \in Durable |-> judged(m)] EXCEPT ![n] = @ \cup {"judged"}]
      BY <2>4, <3>3
    <3> USE DEF judged
    <3>5. R!Judge(n, {"judged"})
      BY <1>2, <3>1, <3>4 DEF R!Judge
    <3> QED
      BY <2>4, <3>5 DEF R!Next
  <2> QED
    BY <2>2, <2>3, <2>4 DEF Durable
<1>3. CASE AckWritten
  <2>1. PICK n \in delivered : n = First(acks)
    BY <1>3, AcksFact DEF Sound, TypeOK, AckWritten
  <2>2. n \in Durable /\ n \in unacked /\ n \in Message /\ 0 \notin Message
    BY DEF Sound, TypeOK, Durable, Message
  <2>3. judged(n) # {}
    BY <1>3, <2>2 DEF Sound, Placed, Behind, AckWritten
  <2>4. unacked' = unacked \ {n} /\ sent' = sent /\ \A m \in Durable : judged(m)' = judged(m)
    BY <1>3, <2>1 DEF AckWritten, Judged
  <2>5. PICK M \in SUBSET Durable : M = {n}
    BY <2>2
  <2>6. R!Release(M)
    BY <2>2, <2>3, <2>4, <2>5 DEF R!Release
  <2> QED
    BY <2>6 DEF R!Next
<1>4. CASE UNCHANGED <<sent, unacked, outcome>>
  BY <1>4 DEF R!relayVars, Judged
<1>5. ASSUME Settled \/ \E result \in Failures : FailedDropped(result) \/ FailedLeaves(result)
      PROVE  UNCHANGED <<sent, unacked>> /\ \E result \in Results : Result(result)
  BY <1>5
  DEF Settled, FailedDropped, FailedLeaves, KeptByBroker, brokerVars, Failures, Results
<1> QED
  BY <1>1, <1>2, <1>3, <1>4, <1>5, NextCases
  DEF EditFiles, Stop, Crash, Start, Connect, ConnectLoadFails, Backoff, StopSeen, TlsCheck,
      ConnAck, SubAck, ConnectionError, Receive, vars, brokerVars

(* The session implements Relay: what is published with QoS 1 stays with    *)
(* the broker until ilert has given a verdict on it, whatever is lost,       *)
(* repeated or restarted in between.                                         *)
THEOREM SessionIsRelay == Spec => RefinesRelay
<1> DEFINE IInv == Sound /\ Earned /\ Behind
<1>1. Init => IInv
  BY TypeInit
<1>2. IInv /\ [Next]_vars => IInv'
  BY SoundNext, EarnedNext, BehindNext
<1>3. Init => R!Init
  <2> SUFFICES ASSUME Init PROVE R!Init
    OBVIOUS
  <2>1. sent = 0 /\ unacked = {} /\ \A m \in Durable : ~Judged(m)
    BY DEF Init, Judged, Durable
  <2> QED
    BY <2>1 DEF R!Init
<1>4. IInv /\ [Next]_vars => [R!Next]_(R!relayVars)
  BY RelayStep
<1> HIDE DEF IInv
<1> QED
  BY <1>1, <1>2, <1>3, <1>4, PTL DEF Spec, RefinesRelay, R!Spec

================================================================================
