---------------------------- MODULE MCMqttSession ----------------------------
(* Small instances of MqttSession for TLC. *)
EXTENDS MqttSession

CONSTANTS t1, t2, old, new, garbled

Topics == {t1, t2}
Nothing == {}
NoFiles == {NoMaterial}
OldOrNone == {old, NoMaterial}
Files == {old, new, garbled}
Usable == {old, new}
NewOnly == {new}
SecondFleeting == {2}
==============================================================================
