---------------------------- MODULE HandlingProofs ----------------------------
(***************************************************************************)
(* What is proved about Handling, for all topics, payloads, options,       *)
(* rules and widths: the classification agrees with what the broker        *)
(* matches, so that a message becomes the call it was subscribed for and   *)
(* none is passed over, and the level that is written is the one whose     *)
(* timeout was read.                                                       *)
(***************************************************************************)
EXTENDS Handling, TLAPS

--------------------------------------------------------------------------------
(* Filters *)

(* What the program matches, the broker matches, for topics that are not    *)
(* the broker's own.                                                        *)
LEMMA MatchedIsSubscribed ==
  ASSUME NEW filter \in Seq(STRING) \ {NoTopic}, IsFilter(filter),
         NEW name \in Seq(STRING), name[1] \notin Reserved,
         FilterMatches(filter, name)
  PROVE  BrokerMatches(filter, name)
<1>1. filter # << >> /\ Len(filter) \in Nat \ {0} /\ DOMAIN filter = 1..Len(filter)
  BY DEF NoTopic
<1>2. DOMAIN name = 1..Len(name) /\ Len(name) \in Nat
  OBVIOUS
<1>3. CASE \E i \in DOMAIN filter :
             filter[i] = "#" /\ \A j \in 1..i - 1 : LevelFits(filter, name, j)
  <2>1. PICK i \in DOMAIN filter :
          filter[i] = "#" /\ \A j \in 1..i - 1 : LevelFits(filter, name, j)
    BY <1>3
  <2>2. i = Len(filter)
    BY <2>1 DEF IsFilter
  <2>3. Len(filter) <= Len(name) + 1
    <3>1. CASE Len(filter) = 1
      BY <3>1, <1>2
    <3>2. CASE Len(filter) # 1
      <4>1. LevelFits(filter, name, Len(filter) - 1)
        BY <2>1, <2>2, <3>2, <1>1
      <4> QED
        BY <4>1, <1>1, <1>2 DEF LevelFits
    <3> QED
      BY <3>1, <3>2
  <2> QED
    BY <2>1, <2>2, <2>3 DEF BrokerMatches
<1>4. CASE /\ Len(filter) = Len(name)
           /\ \A i \in DOMAIN filter : LevelFits(filter, name, i)
  BY <1>1, <1>2, <1>4 DEF BrokerMatches
<1> QED
  BY <1>3, <1>4 DEF FilterMatches

(* And the other way round.                                                 *)
LEMMA SubscribedIsMatched ==
  ASSUME NEW filter \in Seq(STRING) \ {NoTopic},
         NEW name \in Seq(STRING),
         BrokerMatches(filter, name)
  PROVE  FilterMatches(filter, name)
<1>1. filter # << >> /\ Len(filter) \in Nat \ {0} /\ DOMAIN filter = 1..Len(filter)
  BY DEF NoTopic
<1>2. CASE filter[Len(filter)] = "#"
  BY <1>1, <1>2 DEF BrokerMatches, FilterMatches
<1>3. CASE filter[Len(filter)] # "#"
  BY <1>1, <1>3 DEF BrokerMatches, FilterMatches
<1> QED
  BY <1>2, <1>3

(* A filter without wildcards takes the topic it names and no other.        *)
LEMMA LiteralMatch ==
  ASSUME NEW filter \in Seq(STRING) \ {NoTopic}, ~HasWildcard(filter),
         NEW name \in Seq(STRING),
         BrokerMatches(filter, name)
  PROVE  filter = name
<1>1. filter # << >> /\ Len(filter) \in Nat \ {0} /\ DOMAIN filter = 1..Len(filter)
  BY DEF NoTopic
<1>2. \A i \in 1..Len(filter) : filter[i] # "+" /\ filter[i] # "#"
  BY <1>1 DEF HasWildcard, Wild
<1>3. Len(filter) = Len(name) /\ \A i \in 1..Len(filter) : LevelFits(filter, name, i)
  BY <1>1, <1>2 DEF BrokerMatches
<1>4. \A i \in 1..Len(filter) : filter[i] = name[i]
  BY <1>2, <1>3 DEF LevelFits
<1> QED
  BY <1>3, <1>4

(* A topic that is subscribed by its name is delivered.                     *)
LEMMA OwnTopic ==
  ASSUME NEW name \in Seq(STRING) \ {NoTopic}, name[1] \notin Reserved
  PROVE  BrokerMatches(name, name)
<1>1. name # << >> /\ Len(name) \in Nat \ {0} /\ DOMAIN name = 1..Len(name)
  BY DEF NoTopic
<1> QED
  BY <1>1 DEF BrokerMatches, LevelFits

--------------------------------------------------------------------------------
(* The classification *)

(* A kind that claims a delivered message subscribed it, unless a heartbeat *)
(* topic with a wildcard did or the topic is one of the broker.             *)
LEMMA KindIsSubscribed ==
  ASSUME TypeOK, Delivered, NEW k \in Kinds, KindOf(topic) = k,
         ~HasWildcard(topics["heartbeat"]), topic[1] \notin Reserved
  PROVE  topics[k] # NoTopic /\ BrokerMatches(topics[k], topic)
<1>1. topic \in Seq(STRING) \ {NoTopic}
  BY HandlingAssumption DEF TypeOK
<1>2. \A j \in Kinds : topics[j] # NoTopic => topics[j] \in Seq(STRING) \ {NoTopic} /\ IsFilter(topics[j])
  BY HandlingAssumption DEF TypeOK, Configs
<1>3. \A j \in Kinds : topics[j] = topic => topics[j] # NoTopic /\ BrokerMatches(topics[j], topic)
  BY <1>1, OwnTopic
<1>4. CASE source = "kafka"
  BY <1>3, <1>4 DEF KindOf, KafkaKind, Kinds
<1>5. CASE source # "kafka" /\ k = "heartbeat"
  <2>1. topics["heartbeat"] = topic
    BY <1>5 DEF KindOf, MqttKind
  <2> QED
    BY <1>3, <1>5, <2>1
<1>6. CASE source # "kafka" /\ k = "policy"
  <2>1. topics["policy"] # NoTopic /\ FilterMatches(topics["policy"], topic)
    BY <1>6 DEF KindOf, MqttKind
  <2> QED
    BY <1>1, <1>2, <1>6, <2>1, MatchedIsSubscribed
<1>7. CASE source # "kafka" /\ k = "event"
  <2>1. /\ topic # topics["heartbeat"]
        /\ ~(topics["policy"] # NoTopic /\ FilterMatches(topics["policy"], topic))
        /\ topic = topics["event"] \/ HasWildcard(topics["event"])
    BY <1>7 DEF KindOf, MqttKind
  <2>2. PICK j \in Kinds : topics[j] # NoTopic /\ BrokerMatches(topics[j], topic)
    BY <1>7 DEF Delivered, MqttDelivers, Given
  <2>3. j # "heartbeat"
    BY <1>1, <1>2, <2>1, <2>2, LiteralMatch
  <2>4. j # "policy"
    BY <1>1, <1>2, <2>1, <2>2, SubscribedIsMatched
  <2> QED
    BY <1>7, <2>2, <2>3, <2>4 DEF Kinds
<1> QED
  BY <1>4, <1>5, <1>6, <1>7 DEF Kinds

(* A delivered message that no kind claims was asked for by a heartbeat     *)
(* topic with a wildcard alone.                                             *)
LEMMA IgnoredIsHeartbeat ==
  ASSUME TypeOK, Delivered, KindOf(topic) = "ignored"
  PROVE  /\ HasWildcard(topics["heartbeat"])
         /\ \A k \in {"event", "policy"} :
              topics[k] # NoTopic => ~BrokerMatches(topics[k], topic)
<1>1. topic \in Seq(STRING) \ {NoTopic}
  BY HandlingAssumption DEF TypeOK
<1>2. \A j \in Kinds : topics[j] # NoTopic => topics[j] \in Seq(STRING) \ {NoTopic}
  BY HandlingAssumption DEF TypeOK, Configs
<1>3. source # "kafka"
  BY DEF Delivered, KindOf, KafkaKind, KafkaDelivers, Given, Kinds
<1>4. /\ topic # topics["heartbeat"]
      /\ ~(topics["policy"] # NoTopic /\ FilterMatches(topics["policy"], topic))
      /\ topic # topics["event"] /\ ~HasWildcard(topics["event"])
  BY <1>3 DEF KindOf, MqttKind
<1>5. topics["event"] # NoTopic => ~BrokerMatches(topics["event"], topic)
  BY <1>1, <1>2, <1>4, LiteralMatch DEF Kinds
<1>6. topics["policy"] # NoTopic => ~BrokerMatches(topics["policy"], topic)
  BY <1>1, <1>2, <1>4, SubscribedIsMatched DEF Kinds
<1>7. topics["heartbeat"] # NoTopic /\ BrokerMatches(topics["heartbeat"], topic)
  BY <1>3, <1>5, <1>6 DEF Delivered, MqttDelivers, Given, Kinds
<1>8. HasWildcard(topics["heartbeat"])
  BY <1>1, <1>2, <1>4, <1>7, LiteralMatch DEF Kinds
<1> QED
  BY <1>5, <1>6, <1>8

--------------------------------------------------------------------------------
(* The level *)

(* A cast changes nothing that fits, and yields something that does.        *)
LEMMA WrapFits ==
  ASSUME NEW half \in Nat \ {0}, NEW x \in Int
  PROVE  /\ Wrap(x, half) \in -half..half - 1
         /\ x \in -half..half - 1 => Wrap(x, half) = x
<1>1. (x + half) % (2 * half) \in 0..2 * half - 1
  OBVIOUS
<1>2. x \in -half..half - 1 => (x + half) % (2 * half) = x + half
  OBVIOUS
<1> QED
  BY <1>1, <1>2 DEF Wrap

(* Shift and level are in the ranges of their types, whatever the sum.      *)
LEMMA LevelTyped ==
  ASSUME NEW raw \in Long, NEW offset \in Long
  PROVE  /\ Shift(raw, offset) \in Nat
         /\ PutLevel(Shift(raw, offset)) \in Int32
         /\ TimeoutAt(Rules, Shift(raw, offset)) \in Nat
<1>1. raw + offset \in Int /\ LongHalf \in Nat \ {0} /\ IntHalf \in Nat \ {0}
  BY WidthAssumption DEF Long
<1>2. Wrap(raw + offset, LongHalf) \in Int
  BY <1>1, WrapFits
<1>3. Shift(raw, offset) \in Nat
  BY <1>2 DEF Shift
<1>4. PutLevel(Shift(raw, offset)) \in Int32
  BY <1>1, <1>3, WrapFits DEF PutLevel, Int32
<1>5. TimeoutAt(Rules, Shift(raw, offset)) \in Nat
  BY <1>3, HandlingAssumption DEF TimeoutAt
<1> QED
  BY <1>3, <1>4, <1>5

(* A sum within reach is neither clamped from above nor wrapped.            *)
LEMMA LevelInReach ==
  ASSUME NEW raw \in Long, NEW offset \in Long, InReach(raw, offset)
  PROVE  /\ PutLevel(Shift(raw, offset)) = Shift(raw, offset)
         /\ Shift(raw, offset) = IF raw + offset < 0 THEN 0 ELSE raw + offset
<1>1. raw + offset \in Int /\ LongHalf \in Nat \ {0} /\ IntHalf \in Nat \ {0}
  BY WidthAssumption DEF Long
<1>2. raw + offset \in -LongHalf..LongHalf - 1
  BY <1>1, WidthAssumption DEF InReach
<1>3. Wrap(raw + offset, LongHalf) = raw + offset
  BY <1>1, <1>2, WrapFits
<1>4. Shift(raw, offset) = IF raw + offset < 0 THEN 0 ELSE raw + offset
  BY <1>3 DEF Shift
<1>5. Shift(raw, offset) \in -IntHalf..IntHalf - 1
  BY <1>1, <1>4 DEF InReach
<1>6. Wrap(Shift(raw, offset), IntHalf) = Shift(raw, offset)
  BY <1>1, <1>5, WrapFits
<1> QED
  BY <1>4, <1>6 DEF PutLevel

--------------------------------------------------------------------------------
(* The steps *)

LEMMA KindTyped == KindOf(topic) \in Kinds \cup {"ignored"}
BY DEF KindOf, KafkaKind, MqttKind, Kinds

LEMMA InitTyped == Init => TypeOK
<1> SUFFICES ASSUME Init PROVE TypeOK
  OBVIOUS
<1>1. request.call # "level"
  BY DEF Init, NoRequest
<1> QED
  BY <1>1 DEF Init, TypeOK

LEMMA NextTyped == TypeOK /\ [Next]_vars => TypeOK'
<1> SUFFICES ASSUME TypeOK, [Next]_vars PROVE TypeOK'
  OBVIOUS
<1> USE DEF TypeOK
<1>1. CASE Receive
  BY <1>1, KindTyped DEF Receive
<1>2. CASE Restart
  BY <1>2 DEF Restart
<1>3. CASE PollRow
  BY <1>3 DEF PollRow, RowIs, Kinds
<1>4. CASE HandleEvent
  BY <1>4 DEF HandleEvent, Finish, NoRequest, Calls
<1>5. CASE HandlePolicy
  <2>1. PICK payload \in PolicyPayload, options \in PolicyOptions, raw \in Raw, offset \in Offset :
          /\ pc' = "done" /\ UNCHANGED <<source, topics, topic, kept>>
          /\ input'.of = "policy"
          /\ \/ request' = [call |-> "level", level |-> PutLevel(Shift(raw, offset)),
                            timeout |-> TimeoutAt(Rules, Shift(raw, offset))]
             \/ request' = NoRequest
    BY <1>5 DEF HandlePolicy, Finish
  <2>2. raw \in Long /\ offset \in Long
    BY HandlingAssumption
  <2> QED
    BY <2>1, <2>2, LevelTyped DEF NoRequest, Calls
<1>6. CASE HandleHeartbeat
  BY <1>6 DEF HandleHeartbeat, Finish, NoInput, NoRequest, Calls
<1>7. CASE UNCHANGED vars
  BY <1>7 DEF vars
<1> QED
  BY <1>1, <1>2, <1>3, <1>4, <1>5, <1>6, <1>7 DEF Next

(* Source, topics, kind and call keep their types.                          *)
THEOREM TypeCorrect == Spec => []TypeOK
BY InitTyped, NextTyped, PTL DEF Spec

(* As long as the topics are those it arrived under, a message is handled   *)
(* as what they make of it, and the call is of that kind.                   *)
Rightful ==
  ~kept =>
    /\ pc \notin {"broker", "done"} => Delivered
    /\ pc \in Kinds => KindOf(topic) = pc
    /\ \A k \in Kinds : request.call = CallOf[k] => Delivered /\ KindOf(topic) = k

LEMMA InitRightful == Init => Rightful
BY DEF Init, Rightful, Kinds, NoRequest, CallOf

LEMMA NextRightful == TypeOK /\ Rightful /\ [Next]_vars => Rightful'
<1> SUFFICES ASSUME TypeOK, Rightful, [Next]_vars, ~kept' PROVE Rightful'
  BY DEF Rightful
<1> USE DEF Rightful
<1>1. CASE UNCHANGED <<source, topics, topic>>
  <2>1. Delivered' = Delivered /\ KindOf(topic)' = KindOf(topic)
    BY <1>1 DEF Delivered, KindOf
  <2>2. CASE Receive
    BY <2>1, <2>2, KindTyped DEF Receive, Kinds
  <2>3. CASE PollRow
    BY <2>1, <2>3, KindTyped DEF PollRow, RowIs, Kinds
  <2>4. CASE HandleEvent
    <3>1. pc = "event" /\ pc' = "done" /\ kept' = kept /\ request'.call \in {"event", "none"}
      BY <2>4 DEF HandleEvent, Finish, NoRequest
    <3> QED
      BY <2>1, <3>1 DEF CallOf, Kinds
  <2>5. CASE HandlePolicy
    <3>1. pc = "policy" /\ pc' = "done" /\ kept' = kept /\ request'.call \in {"level", "none"}
      BY <2>5 DEF HandlePolicy, Finish, NoRequest
    <3> QED
      BY <2>1, <3>1 DEF CallOf, Kinds
  <2>6. CASE HandleHeartbeat
    <3>1. pc = "heartbeat" /\ pc' = "done" /\ kept' = kept /\ request'.call \in {"ping", "none"}
      BY <2>6 DEF HandleHeartbeat, Finish, NoRequest
    <3> QED
      BY <2>1, <3>1 DEF CallOf, Kinds
  <2>7. CASE UNCHANGED vars
    BY <2>1, <2>7 DEF vars
  <2>8. ~Restart
    BY DEF Restart
  <2> QED
    BY <2>2, <2>3, <2>4, <2>5, <2>6, <2>7, <2>8 DEF Next
<1>2. CASE ~UNCHANGED <<source, topics, topic>>
  BY <1>2 DEF Next, vars, Receive, Restart, PollRow, HandleEvent, HandlePolicy, HandleHeartbeat, Finish
<1> QED
  BY <1>1, <1>2

(* A message becomes the call its topic was subscribed for, for all topics  *)
(* and filters: a wildcard in the event topic never takes what another      *)
(* topic asked for, and a policy filter nothing the broker does not match.  *)
THEOREM CallsAreSubscribed == Spec => []CallIsSubscribed
<1>1. TypeOK /\ Rightful => CallIsSubscribed
  <2> SUFFICES ASSUME TypeOK, Rightful, NEW k \in Kinds, request.call = CallOf[k],
                      ~kept, ~HasWildcard(topics["heartbeat"]), topic[1] \notin Reserved
               PROVE  topics[k] # NoTopic /\ BrokerMatches(topics[k], topic)
    BY DEF CallIsSubscribed
  <2>1. Delivered /\ KindOf(topic) = k
    BY DEF Rightful
  <2> QED
    BY <2>1, KindIsSubscribed
<1> QED
  BY <1>1, TypeCorrect, InitRightful, NextRightful, PTL DEF Spec

(* No delivered message is passed over, but for a heartbeat topic with a    *)
(* wildcard, for all topics and filters.                                    *)
THEOREM DeliveredAreHandled == Spec => []DeliveredIsHandled
<1>1. TypeOK => DeliveredIsHandled
  BY IgnoredIsHeartbeat DEF DeliveredIsHandled
<1> QED
  BY <1>1, TypeCorrect, PTL

(* A call carries what the algorithms make of the input.                    *)
Computed ==
  /\ request.call = "event" =>
       /\ input.of = "event" /\ input.payload \in EventPayload
       /\ request.event = EventOf(input.options, input.payload)
  /\ request.call = "level" =>
       /\ input.raw \in Long /\ input.offset \in Long
       /\ request.level = PutLevel(Shift(input.raw, input.offset))
       /\ request.timeout = TimeoutAt(Rules, Shift(input.raw, input.offset))

LEMMA InitComputed == Init => Computed
BY DEF Init, Computed, NoRequest

LEMMA NextComputed == Computed /\ [Next]_vars => Computed'
<1> SUFFICES ASSUME Computed, [Next]_vars PROVE Computed'
  OBVIOUS
<1> USE DEF Computed
<1>1. CASE UNCHANGED <<input, request>>
  BY <1>1
<1>2. CASE HandleEvent
  BY <1>2 DEF HandleEvent, Finish, NoRequest
<1>3. CASE HandlePolicy
  BY <1>3, HandlingAssumption DEF HandlePolicy, Finish, NoRequest
<1>4. CASE HandleHeartbeat
  BY <1>4 DEF HandleHeartbeat, Finish, NoRequest
<1> QED
  BY <1>1, <1>2, <1>3, <1>4 DEF Next, vars, Receive, Restart, PollRow

(* The level that is written gets its own timeout back, for all widths,     *)
(* rules, shifts and offsets whose sum stays within reach.                  *)
THEOREM TimeoutsAreOfLevel == Spec => []TimeoutIsOfLevel
<1>1. Computed => TimeoutIsOfLevel
  <2> SUFFICES ASSUME Computed, request.call = "level", InReach(input.raw, input.offset)
               PROVE  /\ request.level \in {0, input.raw + input.offset}
                      /\ request.level >= input.raw + input.offset
                      /\ request.level + 1 \in DOMAIN Rules
                           => request.timeout = Rules[request.level + 1]
    BY DEF TimeoutIsOfLevel
  <2> DEFINE shift == Shift(input.raw, input.offset)
  <2>1. /\ input.raw \in Int /\ input.offset \in Int
        /\ request.level = PutLevel(shift) /\ request.timeout = TimeoutAt(Rules, shift)
    BY WidthAssumption DEF Computed, Long
  <2>2. PutLevel(shift) = shift /\ shift = IF input.raw + input.offset < 0 THEN 0 ELSE input.raw + input.offset
    BY LevelInReach DEF Computed
  <2> QED
    BY <2>1, <2>2 DEF TimeoutAt
<1> QED
  BY <1>1, InitComputed, NextComputed, PTL DEF Spec

(* Type and summary of an event.                                            *)
LEMMA EventFields ==
  ASSUME NEW options, NEW payload
  PROVE  /\ EventOf(options, payload).summary = Summary(options, payload)
         /\ EventOf(options, payload).eventType =
              IF EventType(options, payload) = NotGiven
              THEN "ALERT" ELSE EventType(options, payload)
<1>1. EventOf(options, payload).summary = Summary(options, payload)
  BY DEF EventOf
<1>2. EventOf(options, payload).eventType =
        IF EventType(options, payload) = NotGiven
        THEN "ALERT" ELSE EventType(options, payload)
  BY DEF EventOf
<1> QED
  BY <1>1, <1>2

(* An alert has a summary, for all payloads and options, unless the payload *)
(* gives an empty one.                                                      *)
THEOREM AlertsHaveSummaries == Spec => []AlertHasSummary
<1>1. Computed => AlertHasSummary
  <2> SUFFICES ASSUME Computed, request.call = "event",
                      request.event.eventType = "ALERT", request.event.summary = ""
               PROVE  \E path \in {"summary", input.options.map_key_summary} \cap DOMAIN input.payload :
                        input.payload[path] = ""
    BY DEF AlertHasSummary
  <2> DEFINE given == Text(input.payload, input.options.map_key_summary,
                           Text(input.payload, "summary", NotGiven))
  <2>1. request.event = EventOf(input.options, input.payload)
    BY DEF Computed
  <2>2. EventOf(input.options, input.payload).summary = Summary(input.options, input.payload)
    BY EventFields
  <2>3. EventOf(input.options, input.payload).eventType =
          IF EventType(input.options, input.payload) = NotGiven
          THEN "ALERT" ELSE EventType(input.options, input.payload)
    BY EventFields
  <2>4. Summary(input.options, input.payload) = ""
    BY <2>1, <2>2
  <2>5. EventType(input.options, input.payload) \in {NotGiven, "ALERT"}
    BY <2>1, <2>3
  <2>6. given = "" /\ given # NotGiven
    BY <2>4, <2>5, MappingAssumption DEF Summary
  <2> QED
    BY <2>6 DEF Text, IsText
<1> QED
  BY <1>1, InitComputed, NextComputed, PTL DEF Spec

(* The type that a value becomes.                                           *)
LEMMA TypeOfValue ==
  ASSUME NEW options, NEW payload,
         \A path \in DOMAIN payload : payload[path] # NotGiven,
         TypeValue(options, payload) # ""
  PROVE  LET named == {t \in Types : options.map_val[t] = TypeValue(options, payload)}
         IN /\ EventType(options, payload)
                 \in IF named # {} THEN named ELSE {TypeValue(options, payload)}
            /\ EventType(options, payload) # NotGiven
<1> DEFINE value == TypeValue(options, payload)
           named == {t \in Types : options.map_val[t] = value}
<1>1. /\ options.map_key_etype \in DOMAIN payload
      /\ value = payload[options.map_key_etype]
      /\ Text(payload, options.map_key_etype, Text(payload, "eventType", NotGiven)) = value
  BY DEF TypeValue, Text, IsText
<1>2. value # NotGiven
  BY <1>1
<1>3. CASE named = {}
  <2>1. EventType(options, payload) = value
    BY <1>1, <1>3 DEF EventType, Types
  <2> QED
    BY <1>2, <1>3, <2>1
<1>4. CASE named # {}
  <2>1. EventType(options, payload) \in named
    BY <1>4 DEF EventType, Types
  <2> QED
    BY <1>4, <2>1, MappingAssumption
<1> QED
  BY <1>3, <1>4

(* A value goes out as a type it is configured for, for all payloads and    *)
(* options.                                                                 *)
THEOREM TypesAreAsConfigured == Spec => []ConfiguredTypeIsSent
<1>1. Computed => ConfiguredTypeIsSent
  <2> DEFINE value == TypeValue(input.options, input.payload)
             named == {t \in Types : input.options.map_val[t] = value}
  <2> SUFFICES ASSUME Computed, request.call = "event", value # ""
               PROVE  request.event.eventType \in IF named # {} THEN named ELSE {value}
    BY DEF ConfiguredTypeIsSent
  <2>1. /\ request.event = EventOf(input.options, input.payload)
        /\ \A path \in DOMAIN input.payload : input.payload[path] # NotGiven
    BY HandlingAssumption DEF Computed
  <2>2. EventOf(input.options, input.payload).eventType =
          IF EventType(input.options, input.payload) = NotGiven
          THEN "ALERT" ELSE EventType(input.options, input.payload)
    BY EventFields
  <2>3. /\ EventType(input.options, input.payload) \in IF named # {} THEN named ELSE {value}
        /\ EventType(input.options, input.payload) # NotGiven
    BY <2>1, TypeOfValue
  <2>4. request.event.eventType = EventType(input.options, input.payload)
    BY <2>1, <2>2, <2>3
  <2> QED
    BY <2>3, <2>4
<1> QED
  BY <1>1, InitComputed, NextComputed, PTL DEF Spec
================================================================================
