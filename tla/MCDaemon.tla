------------------------------- MODULE MCDaemon -------------------------------
(* A small instance of Daemon for TLC: with and without each job, options    *)
(* that are accepted and options that are not.                               *)
EXTENDS Daemon

AnyQueue == BOOLEAN

(* A heartbeat key where it decides how long the joins wait. *)
AnyArguments ==
  {a \in [port : BOOLEAN, heartbeat : BOOLEAN, mqtt : BOOLEAN, mqtt_buffer : BOOLEAN,
          mqtt_qos : {0, 1}, kafka : BOOLEAN, topics : {{}, {"event"}}] :
     /\ a.heartbeat => a.kafka /\ ~a.mqtt
     /\ ~a.mqtt => ~a.mqtt_buffer /\ a.mqtt_qos = 0
     /\ a.mqtt_buffer => a.mqtt_qos = 0
     /\ a.mqtt \/ a.kafka => a.topics # {} \/ a.port
     /\ ~(a.mqtt \/ a.kafka) => a.topics = {}}
===============================================================================
