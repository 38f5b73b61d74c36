------------------------------ MODULE MCHandling ------------------------------
(* A small instance of Handling for TLC: filters with either wildcard, a    *)
(* topic above and one below them, topics of the broker; payloads that have *)
(* or lack what the options name; i64 and i32 as 4 and 2 bits.              *)
EXTENDS Handling

CONSTANTS Absent

AnySource == {"mqtt", "buffer", "kafka"}
SmallFilters == {<<"a", "b">>, <<"a", "#">>, <<"+", "b">>, <<"#">>}
SmallTopics == {<<"a">>, <<"a", "b">>, <<"c", "b">>, <<"$SYS", "b">>}

(* The functions of the present paths among alternatives for each. *)
Payloads(alternatives) ==
  {[p \in {q \in DOMAIN alternatives : f[q] # Absent} |-> f[p]] :
     f \in {g \in [DOMAIN alternatives -> UNION {alternatives[q] : q \in DOMAIN alternatives}] :
              \A q \in DOMAIN alternatives : g[q] \in alternatives[q]}}

EventPayloadSet ==
  Payloads([eventType |-> {Absent, "RESOLVE", NotText},
            type |-> {Absent, "RESOLVE", "open", NotText},
            summary |-> {Absent, Null, "", "disk full"},
            site |-> {Absent, "b"}])

Mapped(alert, accept, resolve) == [ALERT |-> alert, ACCEPT |-> accept, RESOLVE |-> resolve]

Options(key, val, etype, mapped) ==
  [filter_key |-> key, filter_val |-> val, event_key |-> NotGiven,
   map_key_etype |-> etype, map_key_summary |-> NotGiven, map_key_alert_key |-> NotGiven,
   map_val |-> mapped, forward_message_payload |-> FALSE]

EventOptionSet ==
  {Options(NotGiven, NotGiven, etype, mapped) :
     etype \in {NotGiven, "type"}, mapped \in {Mapped("open", "open", NotGiven), Mapped("RESOLVE", NotGiven, "ALERT")}}
  \cup {Options("site", val, "type", Mapped("closed", "open", NotGiven)) : val \in {NotGiven, "a"}}

PolicyPayloads ==
  Payloads([email |-> {Absent, "", "u"}, team |-> {Absent, "t"}, site |-> {Absent, "b"}])

PolicyOptionSet ==
  {[filter_key |-> key, filter_val |-> val, map_key_email |-> "email",
    policy_routing_keys |-> {"team", "unit"}] : key \in {NotGiven, "site"}, val \in {"a"}}

SmallRaw == Long
SmallOffset == {-1, 1}
SmallRules == <<2, 3>>
===============================================================================
