----------------------------- MODULE EventMapping -----------------------------
(***************************************************************************)
(* From the payload of a message to an event (event.rs, consumers/mod.rs). *)
(* A payload is a function from the paths it has to their values: a text,  *)
(* Null, or NotText for any other JSON.  Details, priority, images and     *)
(* links pass as they are and are left out.                                *)
(***************************************************************************)
CONSTANTS
  NotGiven,  \* an option or a field that is absent
  Null,      \* the JSON value null
  NotText    \* a JSON value that is neither null nor a string

Types == {"ALERT", "ACCEPT", "RESOLVE"}

ASSUME MappingAssumption == NotGiven \notin Types \cup {""}

(* The fields of EventQueueTransitionItemJson. *)
TextFields == {"integrationKey", "eventType", "summary", "alertKey"}

(* get_nested_value, when it finds a string. *)
IsText(payload, path) == path \in DOMAIN payload /\ payload[path] \notin {Null, NotText}

Text(payload, path, default) == IF IsText(payload, path) THEN payload[path] ELSE default

(* A field of another type fails the whole message. *)
Parses(payload) == \A f \in TextFields \cap DOMAIN payload : payload[f] # NotText

(* --filter_key and --filter_val, the same for events and policies. *)
PassesFilter(options, payload) ==
  options.filter_key # NotGiven =>
    /\ options.filter_key \in DOMAIN payload
    /\ options.filter_val \in {NotGiven, payload[options.filter_key]}

(* The value of the path that --map_key_etype names; "" while it finds none. *)
TypeValue(options, payload) == Text(payload, options.map_key_etype, "")

(* Mutant: each --map_val_etype_... is compared with what the one before    *)
(* made of the type.                                                        *)
EventTypeChained(options, payload) ==
  LET given == Text(payload, options.map_key_etype, Text(payload, "eventType", NotGiven))
      alert == IF options.map_val["ALERT"] = given THEN "ALERT" ELSE given
      accept == IF options.map_val["ACCEPT"] = alert THEN "ACCEPT" ELSE alert
  IN IF options.map_val["RESOLVE"] = accept THEN "RESOLVE" ELSE accept

(* parse_event_json: each --map_val_etype_... is compared with the value in *)
(* the payload; the last that agrees wins.                                  *)
EventType(options, payload) ==
  LET agrees(type) == options.map_val[type] = TypeValue(options, payload)
  IN IF agrees("RESOLVE") THEN "RESOLVE"
     ELSE IF agrees("ACCEPT") THEN "ACCEPT"
     ELSE IF agrees("ALERT") THEN "ALERT"
     ELSE Text(payload, options.map_key_etype, Text(payload, "eventType", NotGiven))

(* Mutant: the default is decided by the type before it is mapped. *)
SummaryEarly(options, payload) ==
  LET given == Text(payload, options.map_key_summary, Text(payload, "summary", NotGiven))
  IN IF given # NotGiven THEN given
     ELSE IF Text(payload, "eventType", NotGiven) \in {NotGiven, "ALERT"}
     THEN "New alert from topic" ELSE ""

(* An alert without a summary gets one; other types may have none. *)
Summary(options, payload) ==
  LET given == Text(payload, options.map_key_summary, Text(payload, "summary", NotGiven))
  IN IF given # NotGiven THEN given
     ELSE IF EventType(options, payload) \in {NotGiven, "ALERT"}
     THEN "New alert from topic" ELSE ""

IntegrationKey(options, payload) ==
  IF options.event_key # NotGiven THEN options.event_key
  ELSE Text(payload, "integrationKey", "")

(* prepare_consumer_event: details of its own are kept. *)
CustomDetails(options, payload) ==
  IF "customDetails" \in DOMAIN payload /\ payload["customDetails"] # Null THEN "own"
  ELSE IF options.forward_message_payload THEN "payload" ELSE "default"

(* The event of a payload that is not dropped; from_transition fills in the *)
(* rest.                                                                    *)
EventOf(options, payload) ==
  [integrationKey |-> IntegrationKey(options, payload),
   eventType |-> IF EventType(options, payload) = NotGiven
                 THEN "ALERT" ELSE EventType(options, payload),
   summary |-> Summary(options, payload),
   alertKey |-> Text(payload, options.map_key_alert_key, Text(payload, "alertKey", NotGiven)),
   customDetails |-> CustomDetails(options, payload)]
================================================================================
