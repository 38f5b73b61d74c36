------------------------------- MODULE MCKafka -------------------------------
(* A small instance of Kafka for TLC. *)
EXTENDS Kafka

CONSTANTS a1, a2

Agents == {a1, a2}
==============================================================================
