----------------------------- MODULE MqttSession -----------------------------
(***************************************************************************)
(* The MQTT consumer thread (run_mqtt_job, mqtt.rs) without the buffer: it *)
(* connects, subscribes, handles each message with a call to ilert before  *)
(* it acknowledges it, leaves the session to have a failed message         *)
(* delivered again, reports to the probe behind /ready, picks up new TLS    *)
(* certificates and ends when the daemon stops.                            *)
(*                                                                         *)
(* Abstractions.  Time: a backoff is a state, its length is not modelled.  *)
(* The TLS files are one value, what their fingerprint tells apart.  The    *)
(* broker answers the subscriptions and keeps the session (clean_session    *)
(* is false) but not messages published with QoS 0.  QoS 2 is left out.     *)
(***************************************************************************)
EXTENDS Naturals, FiniteSets

CONSTANTS
  Topic,        \* the configured topics
  MaxMessages,  \* bound on the messages published
  Fleeting,     \* those published with QoS 0
  Material,     \* contents the TLS files may have
  Valid,        \* those a transport can be built from
  Trusted,      \* those the broker accepts
  NoMaterial,   \* stands for no files: no TLS or no CA certificate configured
  Configured,   \* what there may be at the first start
  MaxEdits,     \* bound on changes of the files
  MaxFaults     \* bound on lost connections, lost replies and crashes

Message == 1..MaxMessages
Durable == Message \ Fleeting
Results == {"settled", "failed", "reply_lost"}

ASSUME SessionAssumption ==
  /\ IsFiniteSet(Topic)
  /\ MaxMessages \in Nat
  /\ Fleeting \subseteq Message
  /\ Trusted \subseteq Valid
  /\ Valid \subseteq Material
  /\ NoMaterial \notin Material
  /\ Configured \subseteq Material \cup {NoMaterial}
  /\ MaxEdits \in Nat
  /\ MaxFaults \in Nat

VARIABLES
  running,    \* DaemonContext.running
  material,   \* what is in the TLS files, NoMaterial if there are none
  pc,         \* "down", "connect", "recv", "handle", "backoff" or "ended"
  connected,  \* the local variables of run_mqtt_job
  staged,     \*   staged_transport
  active,     \*   active_tls_fp
  attempt,    \*   attempt_tls_fp
  link,       \* "none", "opening" or "open"
  probe,      \* MqttProbeState
  answered,   \* topics whose SUBACK has been received in this session
  granted,    \* those among them that were granted
  sent,       \* messages 1..sent have been published
  unacked,    \* messages the broker keeps for the agent
  delivered,  \* those this session has handed to the thread
  passing,    \* messages of QoS 0 on the connection
  acks,       \* acknowledgements not yet written to the connection
  current,    \* message being handled, 0 if none
  outcome,    \* history: [Message -> SUBSET Results], how handling it ended
  edits,      \* changes of the files so far
  faults      \* faults so far

tlsVars == <<staged, active, attempt>>
subVars == <<answered, granted>>
brokerVars == <<sent, unacked>>
inFlight == <<delivered, passing, acks>>
boundVars == <<edits, faults>>
vars == <<running, material, pc, connected, tlsVars, link, probe, subVars,
          brokerVars, inFlight, current, outcome, boundVars>>

ProbeReset == [connected |-> FALSE, subscriptions_ready |-> FALSE,
               received_subscriptions |-> 0]

Contents == Material \cup {NoMaterial}

TypeOK ==
  /\ running \in BOOLEAN
  /\ material \in Contents
  /\ pc \in {"down", "connect", "recv", "handle", "backoff", "ended"}
  /\ connected \in BOOLEAN
  /\ staged \in Contents /\ active \in Contents /\ attempt \in Contents
  /\ link \in {"none", "opening", "open"}
  /\ probe \in [connected : BOOLEAN, subscriptions_ready : BOOLEAN,
                received_subscriptions : 0..Cardinality(Topic)]
  /\ answered \subseteq Topic /\ granted \subseteq answered
  /\ sent \in 0..MaxMessages
  /\ unacked \subseteq Durable
  /\ delivered \subseteq unacked /\ acks \subseteq delivered
  /\ passing \subseteq Fleeting
  /\ current \in 0..sent
  /\ outcome \in [Message -> SUBSET Results]
  /\ edits \in 0..MaxEdits /\ faults \in 0..MaxFaults

Init ==
  /\ running = TRUE
  /\ material \in Configured
  /\ pc = "down" /\ connected = FALSE
  /\ staged = NoMaterial /\ active = NoMaterial /\ attempt = NoMaterial
  /\ link = "none" /\ probe = ProbeReset
  /\ answered = {} /\ granted = {}
  /\ sent = 0 /\ unacked = {} /\ delivered = {} /\ passing = {} /\ acks = {}
  /\ current = 0
  /\ outcome = [m \in Message |-> {}]
  /\ edits = 0 /\ faults = 0

Fault ==
  /\ faults < MaxFaults
  /\ faults' = faults + 1

First(S) == CHOOSE n \in S : \A k \in S : n <= k

--------------------------------------------------------------------------------
(* Around the thread. *)

Publish ==
  /\ sent < MaxMessages
  /\ sent' = sent + 1
  /\ IF sent' \in Durable
     THEN unacked' = unacked \cup {sent'} /\ UNCHANGED passing
     ELSE /\ passing' = IF link = "open" THEN passing \cup {sent'} ELSE passing
          /\ UNCHANGED unacked
  /\ UNCHANGED <<running, material, pc, connected, tlsVars, link, probe, subVars,
                 delivered, acks, current, outcome, boundVars>>

EditFiles ==
  /\ material # NoMaterial
  /\ edits < MaxEdits
  /\ edits' = edits + 1
  /\ material' \in Material \ {material}
  /\ UNCHANGED <<running, pc, connected, tlsVars, link, probe, subVars,
                 brokerVars, inFlight, current, outcome, faults>>

(* Ctrl-C, or the HTTP server that ends. *)
Stop ==
  /\ running
  /\ pc # "down"
  /\ running' = FALSE
  /\ UNCHANGED <<material, pc, connected, tlsVars, link, probe, subVars,
                 brokerVars, inFlight, current, outcome, boundVars>>

Crash ==
  /\ pc \notin {"down", "ended"}
  /\ Fault
  /\ running' = TRUE
  /\ pc' = "down"
  /\ connected' = FALSE
  /\ staged' = NoMaterial /\ active' = NoMaterial /\ attempt' = NoMaterial
  /\ link' = "none"
  /\ probe' = ProbeReset
  /\ answered' = {} /\ granted' = {}
  /\ delivered' = {} /\ passing' = {} /\ acks' = {}
  /\ current' = 0
  /\ UNCHANGED <<material, brokerVars, outcome, edits>>

--------------------------------------------------------------------------------
(* Connecting. *)

(* Files that cannot be used end the process, which is started again. *)
Start ==
  /\ pc = "down"
  /\ material \in Valid \cup {NoMaterial}
  /\ staged' = material /\ active' = material
  /\ pc' = "connect"
  /\ UNCHANGED <<running, material, connected, attempt, link, probe, subVars,
                 brokerVars, inFlight, current, outcome, boundVars>>

StartPanics ==
  /\ pc = "down"
  /\ material \notin Valid \cup {NoMaterial}
  /\ UNCHANGED vars

(* Mutant: the count of the last session's subscriptions is kept. *)
KeepReceived == [probe EXCEPT !.connected = FALSE, !.subscriptions_ready = FALSE]

Reset == ProbeReset

(* The staged transport comes first, then the files as they are now. *)
Connect ==
  /\ pc = "connect"
  /\ probe' = Reset
  /\ staged' = NoMaterial
  /\ \/ staged # NoMaterial /\ attempt' = staged
     \/ staged = NoMaterial /\ active = NoMaterial /\ attempt' = NoMaterial
     \/ /\ staged = NoMaterial /\ active # NoMaterial /\ material \in Valid
        /\ attempt' = material
  /\ link' = "opening"
  /\ answered' = {} /\ granted' = {}
  /\ pc' = "recv"
  /\ UNCHANGED <<running, material, connected, active, brokerVars, inFlight,
                 current, outcome, boundVars>>

(* The files cannot be used: sleep, and round the loop again. *)
ConnectLoadFails ==
  /\ pc = "connect"
  /\ staged = NoMaterial /\ active # NoMaterial /\ material \notin Valid
  /\ probe' = Reset
  /\ UNCHANGED <<running, material, pc, connected, tlsVars, link, subVars,
                 brokerVars, inFlight, current, outcome, boundVars>>

(* Mutant: the running flag is only looked at inside the session. *)
AfterSessionOnly(next) == next

AfterSession(next) == IF running THEN next ELSE "ended"

(* The session is left: its connection goes, and whatever was on it. *)
Leave(next) ==
  /\ pc' = AfterSession(next)
  /\ connected' = FALSE
  /\ link' = "none"
  /\ delivered' = {} /\ passing' = {} /\ acks' = {}
  /\ current' = 0

Backoff ==
  /\ pc = "backoff"
  /\ pc' = "connect"
  /\ UNCHANGED <<running, material, connected, tlsVars, link, probe, subVars,
                 brokerVars, inFlight, current, outcome, boundVars>>

--------------------------------------------------------------------------------
(* In the session. *)

StopSeen ==
  /\ pc = "recv"
  /\ ~running
  /\ Leave("backoff")
  /\ UNCHANGED <<running, material, tlsVars, probe, subVars, brokerVars, outcome,
                 boundVars>>

(* Every 30 seconds; files that cannot be used leave the connection alone. *)
TlsCheck ==
  /\ pc = "recv"
  /\ active # NoMaterial
  /\ material # active /\ material \in Valid
  /\ staged' = material
  /\ Leave("connect")
  /\ UNCHANGED <<running, material, active, attempt, probe, subVars, brokerVars,
                 outcome, boundVars>>

RecvTimeout ==
  /\ pc = "recv"
  /\ UNCHANGED vars

Accepted == attempt = NoMaterial \/ attempt \in Trusted

(* Mutant: the fingerprint is only taken from the files at the start. *)
KeepActive == active

NewActive ==
  IF ~connected /\ attempt # NoMaterial THEN attempt ELSE active

ConnAck ==
  /\ pc = "recv"
  /\ link = "opening" /\ Accepted
  /\ link' = "open"
  /\ connected' = TRUE
  /\ active' = NewActive
  /\ probe' = [probe EXCEPT !.connected = TRUE]
  /\ UNCHANGED <<running, material, pc, staged, attempt, subVars, brokerVars,
                 inFlight, current, outcome, boundVars>>

(* Mutant: a rejected subscription counts as well. *)
CountAll(ok) == TRUE

Counts(ok) == ok

SubAck(t, ok) ==
  /\ pc = "recv"
  /\ link = "open"
  /\ t \notin answered
  /\ answered' = answered \cup {t}
  /\ granted' = IF ok THEN granted \cup {t} ELSE granted
  /\ probe' = IF Counts(ok)
              THEN LET received == probe.received_subscriptions + 1
                   IN [probe EXCEPT !.received_subscriptions = received,
                         !.subscriptions_ready = @ \/ received >= Cardinality(Topic)]
              ELSE probe
  /\ UNCHANGED <<running, material, pc, connected, tlsVars, link, brokerVars,
                 inFlight, current, outcome, boundVars>>

(* The connection fails, or the broker refuses it. *)
ConnectionError ==
  /\ pc = "recv"
  /\ \/ Fault
     \/ link = "opening" /\ ~Accepted /\ UNCHANGED faults
  /\ Leave("backoff")
  /\ UNCHANGED <<running, material, tlsVars, probe, subVars, brokerVars, outcome,
                 edits>>

Undelivered == (unacked \ delivered) \cup passing

Receive ==
  /\ pc = "recv"
  /\ link = "open"
  /\ Undelivered # {}
  /\ LET m == First(Undelivered)
     IN /\ current' = m
        /\ passing' = passing \ {m}
        /\ delivered' = delivered \cup ({m} \cap Durable)
  /\ pc' = "handle"
  /\ UNCHANGED <<running, material, connected, tlsVars, link, probe, subVars,
                 brokerVars, acks, outcome, boundVars>>

(* "settled": ilert has taken or refused the message, or it was not meant  *)
(* for it; "reply_lost": it has been taken but looks like a network error.  *)
Result(result) ==
  /\ pc = "handle"
  /\ outcome' = [outcome EXCEPT ![current] = @ \cup {result}]
  /\ IF result = "reply_lost" THEN Fault ELSE UNCHANGED faults

Settled ==
  /\ Result("settled")
  /\ acks' = acks \cup ({current} \cap Durable)
  /\ pc' = "recv"
  /\ current' = 0
  /\ UNCHANGED <<running, material, connected, tlsVars, link, probe, subVars,
                 brokerVars, delivered, passing, edits>>

(* Mutant: no session is left for a message that failed. *)
NeverRedelivered == FALSE

Redelivered == current \in Durable

FailedDropped(result) ==
  /\ Result(result)
  /\ ~Redelivered
  /\ pc' = "recv"
  /\ current' = 0
  /\ UNCHANGED <<running, material, connected, tlsVars, link, probe, subVars,
                 brokerVars, inFlight, edits>>

(* Mutant: the message is acknowledged before the session is left. *)
KeptWithout(m) == unacked \ {m}

KeptByBroker(m) == unacked

FailedLeaves(result) ==
  /\ Result(result)
  /\ Redelivered
  /\ unacked' = KeptByBroker(current)
  /\ Leave("backoff")
  /\ UNCHANGED <<running, material, tlsVars, probe, subVars, sent, edits>>

(* The connection, driven by recv, writes the oldest acknowledgement. *)
AckWritten ==
  /\ pc = "recv"
  /\ acks # {}
  /\ acks' = acks \ {First(acks)}
  /\ delivered' = delivered \ {First(acks)}
  /\ unacked' = unacked \ {First(acks)}
  /\ UNCHANGED <<running, material, pc, connected, tlsVars, link, probe, subVars,
                 sent, passing, current, outcome, boundVars>>

Ended ==
  /\ pc = "ended"
  /\ UNCHANGED vars

Thread ==
  \/ Start
  \/ Connect
  \/ ConnectLoadFails
  \/ Backoff
  \/ StopSeen
  \/ TlsCheck
  \/ ConnAck
  \/ \E t \in Topic : SubAck(t, TRUE)
  \/ link = "opening" /\ ~Accepted /\ ConnectionError
  \/ Receive
  \/ Settled
  \/ FailedDropped("failed")
  \/ FailedLeaves("failed")
  \/ AckWritten

Next ==
  \/ Thread
  \/ \E t \in Topic : SubAck(t, FALSE)
  \/ ConnectionError
  \/ FailedDropped("reply_lost")
  \/ FailedLeaves("reply_lost")
  \/ StartPanics \/ RecvTimeout \/ Ended
  \/ Publish \/ EditFiles \/ Stop \/ Crash

Spec == Init /\ [][Next]_vars

(* The thread is scheduled, its calls end, and the broker answers.  TlsCheck *)
(* is not a matter of course before the broker has answered: it runs after  *)
(* 30 seconds of a session, and a broker that is asked again and again is    *)
(* at some time faster.                                                      *)
FairSpec == Spec /\ WF_vars(Thread) /\ SF_vars(ConnAck)

--------------------------------------------------------------------------------
(* What /ready answers 204 to. *)
Ready == running /\ probe.connected /\ probe.subscriptions_ready

(* While a session is being served, ready means that this session was      *)
(* accepted and each of its topics granted, whatever the sessions before   *)
(* had been granted.                                                        *)
ReadyIsEarned ==
  Ready /\ pc \in {"recv", "handle"} => link = "open" /\ granted = Topic

(* CHANGELOG.md:14: /ready "returns 503 [...] until the consumer is fully  *)
(* operational"; tests/integration_http.rs:439 "ready_returns_503_after_    *)
(* mqtt_disconnect".  Ready only while there is a connection.               *)
ReadyMeansConnected == Ready => link = "open"

Judged(m) == outcome[m] \cap {"settled", "reply_lost"} # {}

(* Messages the broker keeps are taken by ilert in their order for the     *)
(* first time, through failures, lost sessions and crashes.                 *)
JudgedInOrder ==
  \A m \in Durable : Judged(m) => \A k \in Durable : k < m => Judged(k)

(* Once the files have changed for the last time, a certificate the broker *)
(* accepts comes into use, if the daemon is not stopped.                    *)
CertificateAdopted ==
  edits = MaxEdits /\ material \in Trusted ~> active = material \/ ~running

(* main.rs:613 "Shutting down threads...": after the daemon was stopped the *)
(* thread ends, or the process does; unless the certificates can never be   *)
(* used again, for then the thread does not look (ConnectLoadFails).        *)
ThreadEnds ==
  <>[](material \in Valid \cup {NoMaterial})
    => (~running ~> pc \in {"ended", "down"})

(* The session is a relay of the messages the broker keeps. *)
R == INSTANCE Relay WITH
       Message <- Durable,
       Verdict <- {"judged"},
       seen <- 1..sent \cap Durable,
       held <- unacked,
       verdicts <- [m \in Durable |-> IF Judged(m) THEN {"judged"} ELSE {}]

RefinesRelay == R!Spec
================================================================================
