---------------------------- MODULE MCEventQueue ----------------------------
(* Small instances of EventQueue for TLC. *)
EXTENDS EventQueue

CONSTANTS e1, e2, e3

Events == {e1, e2, e3}
FirstOnly == {e1}
LastOnly == {e3}
Nobody == {}

Taken == {"202"}
==============================================================================
