-------------------------------- MODULE Topics --------------------------------
(***************************************************************************)
(* What a message is, by its topic (mqtt.rs, kafka.rs).  A topic is the    *)
(* sequence of its levels, a filter may also have the levels "+" and "#".  *)
(* Next to the program's own matching stands the one of the broker, which  *)
(* decides what is delivered.                                              *)
(***************************************************************************)
EXTENDS Naturals, Sequences

NoTopic == << >>  \* an option that is not given; a topic has a level

Wild == {"+", "#"}

Reserved == {"$SYS"}  \* first levels that begin with $

HasWildcard(filter) == \E i \in DOMAIN filter : filter[i] \in Wild

(* Filters a broker accepts: "#" comes last. *)
IsFilter(filter) == \A i \in DOMAIN filter : filter[i] = "#" => i = Len(filter)

(* The level i of a filter lets the topic pass. *)
LevelFits(filter, topic, i) ==
  i \in DOMAIN topic /\ filter[i] \in {"+", topic[i]}

(* Mutant: "#" is looked at only once the topic has a level for it, so that *)
(* a/# no longer takes a.                                                   *)
FilterMatchesBelow(filter, topic) ==
  \/ \E i \in DOMAIN filter \cap DOMAIN topic :
       filter[i] = "#" /\ \A j \in 1..i - 1 : LevelFits(filter, topic, j)
  \/ /\ Len(filter) = Len(topic)
     /\ \A i \in DOMAIN filter : LevelFits(filter, topic, i)

(* topic_filter_matches: the first "#" that is reached decides. *)
FilterMatches(filter, topic) ==
  \/ \E i \in DOMAIN filter :
       filter[i] = "#" /\ \A j \in 1..i - 1 : LevelFits(filter, topic, j)
  \/ /\ Len(filter) = Len(topic)
     /\ \A i \in DOMAIN filter : LevelFits(filter, topic, i)

(* Matching as MQTT defines it; a wildcard at the front leaves the topics   *)
(* of the broker alone.                                                     *)
BrokerMatches(filter, topic) ==
  /\ filter[1] \in Wild => topic[1] \notin Reserved
  /\ IF filter[Len(filter)] = "#"
     THEN /\ Len(filter) <= Len(topic) + 1
          /\ \A i \in 1..Len(filter) - 1 : LevelFits(filter, topic, i)
     ELSE /\ Len(filter) = Len(topic)
          /\ \A i \in 1..Len(filter) : LevelFits(filter, topic, i)

(* The configured topics, by what they are for. *)
Kinds == {"heartbeat", "policy", "event"}

Given(topics) == {k \in Kinds : topics[k] # NoTopic}

(* Mutant: an event topic with a wildcard is asked first. *)
KindEventFirst(topics, topic) ==
  CASE topic = topics["heartbeat"] -> "heartbeat"
    [] topic = topics["event"] \/ HasWildcard(topics["event"]) -> "event"
    [] topics["policy"] # NoTopic /\ FilterMatches(topics["policy"], topic) -> "policy"
    [] OTHER -> "ignored"

(* classify_configured_message.  An event topic with a wildcard takes       *)
(* whatever is left.                                                        *)
MqttKind(topics, topic) ==
  IF topic = topics["heartbeat"] THEN "heartbeat"
  ELSE IF topics["policy"] # NoTopic /\ FilterMatches(topics["policy"], topic)
  THEN "policy"
  ELSE IF topic = topics["event"] \/ HasWildcard(topics["event"])
  THEN "event"
  ELSE "ignored"

(* run_kafka_job compares names, and asks for the event topic first. *)
KafkaKind(topics, topic) ==
  IF topic = topics["event"] THEN "event"
  ELSE IF topic = topics["heartbeat"] THEN "heartbeat"
  ELSE IF topic = topics["policy"] THEN "policy"
  ELSE "ignored"

(* What the broker delivers for the topics that were subscribed. *)
MqttDelivers(topics, topic) == \E k \in Given(topics) : BrokerMatches(topics[k], topic)

KafkaDelivers(topics, topic) == \E k \in Given(topics) : topics[k] = topic
===============================================================================
