----------------------------- MODULE MCMqttQueue -----------------------------
(* Small instances of MqttQueue for TLC. *)
EXTENDS MqttQueue

PolicyPolicy == <<"policy", "policy">>
EventPolicyEvent == <<"event", "policy", "event">>
IgnoredPolicyEvent == <<"ignored", "policy", "event">>
Policies3 == <<"policy", "policy", "policy">>
NothingFiltered == {}
SecondFiltered == {2}
ThirdFiltered == {3}
Hiding == {"200", "500", "network"}
==============================================================================
