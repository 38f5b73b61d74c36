------------------------------- MODULE Handling -------------------------------
(***************************************************************************)
(* One message from the broker to the call it becomes: subscribed by the   *)
(* configured topics, classified by them, buffered or not, parsed by the   *)
(* options, and sent to ilert.  Composes Topics, PolicyShift and           *)
(* EventMapping; attempts, answers and rows are EventQueue and MqttQueue.  *)
(*                                                                         *)
(* Payload and options are chosen where they are first looked at.          *)
(***************************************************************************)
EXTENDS Topics, PolicyShift, EventMapping

CONSTANTS
  Sources,        \* paths a message may take, of {"mqtt", "buffer", "kafka"}
  Filter,         \* topics and filters that may be configured
  Topic,          \* topics a message may be published to
  EventPayload,   \* payloads published as events
  EventOptions,   \* options of the event mapping
  PolicyPayload,  \* payloads published as policy updates
  PolicyOptions,  \* options for them
  Raw,            \* shifts in those payloads
  Offset,         \* values of --shift_offset
  Rules           \* the timeouts of the escalation policy, level 0 first

ASSUME HandlingAssumption ==
  /\ Sources \subseteq {"mqtt", "buffer", "kafka"}
  /\ Filter \cup Topic \subseteq Seq(STRING) \ {NoTopic}
  /\ \A f \in Filter : IsFilter(f)
  /\ Raw \subseteq Long /\ Offset \subseteq Long
  /\ Rules \in Seq(Nat)
  /\ \A payload \in EventPayload : \A path \in DOMAIN payload : payload[path] # NotGiven

VARIABLES
  source,   \* the path of the message
  topics,   \* [Kinds -> Filter or NoTopic], as configured now
  topic,    \* where the message was published
  pc,       \* "broker", "queued", the kind that handles it, or "done"
  kept,     \* topics of another run classify the row
  input,    \* what was parsed, and with which options
  request   \* the call made to ilert

vars == <<source, topics, topic, pc, kept, input, request>>

Calls == {"event", "ping", "level"}

NoInput == [of |-> "none"]
NoRequest == [call |-> "none"]

Configs == {t \in [Kinds -> Filter \cup {NoTopic}] : Given(t) # {}}

TypeOK ==
  /\ source \in Sources
  /\ topics \in Configs
  /\ topic \in Topic
  /\ pc \in {"broker", "queued", "done"} \cup Kinds
  /\ kept \in BOOLEAN
  /\ input = NoInput \/ input.of \in {"event", "policy"}
  /\ request = NoRequest \/ request.call \in Calls
  /\ request.call = "level" => request.level \in Int32 /\ request.timeout \in Nat

Init ==
  /\ source \in Sources
  /\ topics \in Configs
  /\ topic \in Topic
  /\ pc = "broker"
  /\ kept = FALSE
  /\ input = NoInput
  /\ request = NoRequest

KindOf(t) == IF source = "kafka" THEN KafkaKind(topics, t) ELSE MqttKind(topics, t)

Delivered ==
  IF source = "kafka" THEN KafkaDelivers(topics, topic) ELSE MqttDelivers(topics, topic)

(* The consumer takes the message; what no kind claims is acknowledged, and *)
(* with the buffer events and policies become rows of mqtt_queue.           *)
Receive ==
  /\ pc = "broker"
  /\ Delivered
  /\ pc' = CASE KindOf(topic) = "ignored" -> "done"
             [] source = "buffer" /\ KindOf(topic) \in {"event", "policy"} -> "queued"
             [] OTHER -> KindOf(topic)
  /\ UNCHANGED <<source, topics, topic, kept, input, request>>

(* The agent is started again with other topics while the row waits. *)
Restart ==
  /\ pc = "queued"
  /\ topics' \in Configs \ {topics}
  /\ kept' = TRUE
  /\ UNCHANGED <<source, topic, pc, input, request>>

(* process_mqtt_queue: only events and policies are rows it expects. *)
RowIs(kind) == IF kind \in {"event", "policy"} THEN kind ELSE "done"

PollRow ==
  /\ pc = "queued"
  /\ pc' = RowIs(KindOf(topic))
  /\ UNCHANGED <<source, topics, topic, kept, input, request>>

(* Finished with what has been parsed and what it led to. *)
Finish(i, r) ==
  /\ pc' = "done"
  /\ input' = i
  /\ request' = r
  /\ UNCHANGED <<source, topics, topic, kept>>

(* send_queued_event drops a type that ilert does not know. *)
HandleEvent ==
  /\ pc = "event"
  /\ \E payload \in EventPayload, options \in EventOptions :
       LET event == EventOf(options, payload)
           i == [of |-> "event", payload |-> payload, options |-> options]
       IN IF /\ Parses(payload)
             /\ PassesFilter(options, payload)
             /\ event.eventType \in Types
          THEN Finish(i, [call |-> "event", event |-> event])
          ELSE Finish(i, NoRequest)

(* parse_policy_payload wants an email, extract_routing_key at least one of *)
(* the fields of --policy_routing_keys.                                     *)
ParsesPolicy(options, payload) ==
  /\ PassesFilter(options, payload)
  /\ Text(payload, options.map_key_email, "") # ""
  /\ \E key \in options.policy_routing_keys : Text(payload, key, "") # ""

HandlePolicy ==
  /\ pc = "policy"
  /\ \E payload \in PolicyPayload, options \in PolicyOptions, raw \in Raw, offset \in Offset :
       LET shift == Shift(raw, offset)
           i == [of |-> "policy", payload |-> payload, options |-> options,
                 raw |-> raw, offset |-> offset]
       IN IF ParsesPolicy(options, payload)
          THEN Finish(i, [call |-> "level", level |-> PutLevel(shift),
                          timeout |-> TimeoutAt(Rules, shift)])
          ELSE Finish(i, NoRequest)

(* A heartbeat whose payload has no key is dropped. *)
HandleHeartbeat ==
  /\ pc = "heartbeat"
  /\ \/ Finish(NoInput, [call |-> "ping"])
     \/ Finish(NoInput, NoRequest)

Next ==
  \/ Receive
  \/ Restart
  \/ PollRow
  \/ HandleEvent
  \/ HandlePolicy
  \/ HandleHeartbeat

Spec == Init /\ [][Next]_vars

--------------------------------------------------------------------------------
CallOf == [event |-> "event", heartbeat |-> "ping", policy |-> "level"]

(* A message becomes the call its topic was subscribed for, although an      *)
(* event topic with a wildcard takes whatever the other two do not: nothing  *)
(* else is delivered, unless the heartbeat topic, which is compared          *)
(* literally, has a wildcard itself, the row was queued under other topics,  *)
(* or the topic is one of the broker, which "+" and "#" match here.          *)
CallIsSubscribed ==
  \A k \in Kinds :
    /\ request.call = CallOf[k]
    /\ ~kept /\ ~HasWildcard(topics["heartbeat"]) /\ topic[1] \notin Reserved
    => topics[k] # NoTopic /\ BrokerMatches(topics[k], topic)

(* No message that was delivered is passed over, unless only a heartbeat     *)
(* topic with a wildcard asked for it.                                       *)
DeliveredIsHandled ==
  pc = "broker" /\ Delivered /\ KindOf(topic) = "ignored" =>
    /\ HasWildcard(topics["heartbeat"])
    /\ \A k \in {"event", "policy"} :
         topics[k] # NoTopic => ~BrokerMatches(topics[k], topic)

(* The level that is written gets back the timeout of that level and no      *)
(* other, as long as the sum of shift and offset stays within i32; what is   *)
(* below level 0 changes level 0.                                            *)
TimeoutIsOfLevel ==
  request.call = "level" /\ InReach(input.raw, input.offset) =>
    /\ request.level \in {0, input.raw + input.offset}
    /\ request.level >= input.raw + input.offset
    /\ request.level + 1 \in DOMAIN Rules => request.timeout = Rules[request.level + 1]

(* No alert goes out without a summary, whatever the payload calls its type, *)
(* unless the payload itself says that it is empty.                          *)
AlertHasSummary ==
  request.call = "event" /\ request.event.eventType = "ALERT" /\ request.event.summary = "" =>
    \E path \in {"summary", input.options.map_key_summary} \cap DOMAIN input.payload :
      input.payload[path] = ""

(* A value goes out as a type it is configured for by --map_val_etype_...,   *)
(* even where the values are names of other types, and one that is not       *)
(* configured goes out as it is or not at all.                               *)
ConfiguredTypeIsSent ==
  request.call = "event" /\ TypeValue(input.options, input.payload) # "" =>
    LET value == TypeValue(input.options, input.payload)
        named == {t \in Types : input.options.map_val[t] = value}
    IN request.event.eventType \in IF named # {} THEN named ELSE {value}
================================================================================
