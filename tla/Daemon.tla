-------------------------------- MODULE Daemon --------------------------------
(***************************************************************************)
(* The life of the process (main.rs): the options of a start, the          *)
(* migrations (module Migration), the jobs that are spawned for them, who  *)
(* notices that one has ended, the signals, the order of the joins, and    *)
(* the next start.  With it the HTTP requests that share the lock of the   *)
(* web context, and the part of /ready that is about Kafka.                *)
(*                                                                         *)
(* What the jobs do is in the other modules; here they are up or have      *)
(* ended.  A panic of any of them ends the process (Crash).                *)
(***************************************************************************)
EXTENDS Migration

CONSTANTS
  Arguments,  \* command lines the daemon may be started with
  NotGiven,   \* not a command line
  Posts,      \* clients that post events
  Beats       \* clients that ask for a heartbeat to be passed on

Request == Posts \cup Beats

Topics == {"event", "heartbeat", "policy"}

ASSUME DaemonAssumption ==
  /\ \A a \in Arguments :
       /\ {a.port, a.heartbeat, a.mqtt, a.mqtt_buffer, a.kafka} \subseteq BOOLEAN
       /\ a.mqtt_qos \in 0..2
       /\ a.topics \subseteq Topics
  /\ Posts \cap Beats = {}

(* build_daemon_config: what belongs to a consumer is read only for one.    *)
HasConsumer(a) == a.mqtt \/ a.kafka

ConfigOf(a) ==
  [start_http |-> a.port,
   heartbeat_key |-> a.heartbeat,
   mqtt_host |-> a.mqtt,
   mqtt_buffer |-> a.mqtt /\ a.mqtt_buffer,
   mqtt_qos |-> IF a.mqtt THEN a.mqtt_qos ELSE 0,
   kafka_brokers |-> a.kafka,
   topics |-> IF HasConsumer(a) THEN a.topics ELSE {}]

(* validate_mqtt_config and the check of the Kafka topics. *)
Accepted(c) ==
  /\ c.mqtt_host \/ c.kafka_brokers => c.topics # {}
  /\ c.mqtt_host /\ ~c.mqtt_buffer => c.mqtt_qos # 0

VARIABLES
  args,      \* the options of this start, NotGiven until they are looked at
  running,   \* the flag every job looks at
  main,      \* "start", "supervise" or the job that is joined
  job,       \* [Job -> "none", "up" or "ended"]
  stopping,  \* the HTTP server has been told to stop
  probe,     \* KafkaProbeState
  lock       \* requests on the lock of the web context, its holder first

jobVars == <<args, running, main, job, stopping, probe, lock>>
daemonVars == <<vars, jobVars>>

config == ConfigOf(args)

(* Jobs that only wait for running to become FALSE, and all jobs. *)
Loops == {"poll", "hbt", "mqtt_poll", "mqtt"}
Job == Loops \cup {"http", "kafka"}

JoinOrder == <<"poll", "hbt", "mqtt_poll", "mqtt", "kafka">>

NoJobs == [j \in Job |-> "none"]
NewProbe == [consumer_started |-> FALSE, subscribed |-> FALSE, worker_exited |-> FALSE]

DaemonTypeOK ==
  /\ TypeOK
  /\ args \in Arguments \cup {NotGiven}
  /\ running \in BOOLEAN
  /\ main \in {"start", "supervise"} \cup Range(JoinOrder)
  /\ job \in [Job -> {"none", "up", "ended"}]
  /\ stopping \in BOOLEAN
  /\ probe \in [DOMAIN NewProbe -> BOOLEAN]
  /\ IsInjective(lock) /\ Range(lock) \subseteq Request

DaemonInit ==
  /\ Init
  /\ args = NotGiven
  /\ running = TRUE
  /\ main = "start"
  /\ job = NoJobs
  /\ stopping = FALSE
  /\ probe = NewProbe
  /\ lock = << >>

Up(j) == job[j] = "up"

(* The process is gone, and what it held in memory. *)
ProcessEnds ==
  /\ args' = NotGiven
  /\ running' = TRUE
  /\ main' = "start"
  /\ job' = NoJobs
  /\ stopping' = FALSE
  /\ probe' = NewProbe
  /\ lock' = << >>

DaemonCrash == Crash /\ ProcessEnds

--------------------------------------------------------------------------------
(* The main task *)

PrepareDatabase ==
  /\ \/ Bootstrap
     \/ SkipMigration
     \/ BeginMigration
     \/ BeginUnreadable
     \/ Apply
     \/ ApplyRefused
     \/ NoteMigration
  /\ UNCHANGED jobVars

(* Mutant: only posted events are taken to need the poll job. *)
PollForHttp(c) == c.start_http

(* is_poll_needed *)
PollNeeded(c) == c.start_http \/ c.mqtt_buffer

Wanted(c) ==
  [http |-> c.start_http, poll |-> PollNeeded(c), hbt |-> c.heartbeat_key,
   mqtt |-> c.mqtt_host, mqtt_poll |-> c.mqtt_host /\ c.mqtt_buffer,
   kafka |-> c.kafka_brokers]

(* Options that are not accepted end the process before it has done         *)
(* anything; the others are first looked at here.                           *)
SpawnJobs ==
  /\ pc = "ready"
  /\ main = "start"
  /\ args' \in {a \in Arguments : Accepted(ConfigOf(a))}
  /\ job' = [j \in Job |-> IF Wanted(ConfigOf(args'))[j] THEN "up" ELSE "none"]
  /\ main' = IF ConfigOf(args').start_http THEN "supervise" ELSE Head(JoinOrder)
  /\ UNCHANGED <<vars, running, stopping, probe, lock>>

(* Mutant: only the end of the server ends the supervision. *)
SupervisedServer == {"http"}

Supervised == {"http", "mqtt", "kafka"}

(* Mutant: the others are not told. *)
RunningOn == running

RunningAfter == FALSE

(* The first of them to end stops the daemon. *)
Supervise ==
  /\ main = "supervise"
  /\ \E j \in Supervised : job[j] = "ended"
  /\ main' = Head(JoinOrder)
  /\ running' = RunningAfter
  /\ UNCHANGED <<vars, args, job, stopping, probe, lock>>

Join ==
  /\ main \in Range(JoinOrder)
  /\ ~Up(main)
  /\ main # Last(JoinOrder)
  /\ main' = JoinOrder[CHOOSE k \in 2..Len(JoinOrder) : JoinOrder[k - 1] = main]
  /\ UNCHANGED <<vars, args, running, job, stopping, probe, lock>>

(* run_daemon returns; a server that is still up goes with the process. *)
Return ==
  /\ main = Last(JoinOrder)
  /\ ~Up(main)
  /\ pc' = "down"
  /\ ProcessEnds
  /\ UNCHANGED <<schema, queued, notes, version, todo, conflict, boundVars>>

--------------------------------------------------------------------------------
(* Signals *)

(* SIGINT reaches the handler of ctrlc and the server. *)
Interrupt ==
  /\ pc = "ready" /\ main # "start"
  /\ running' = FALSE
  /\ stopping' = Up("http")
  /\ UNCHANGED <<vars, args, main, job, probe, lock>>

(* SIGTERM reaches only the server, which ctrlc does without its feature    *)
(* "termination".  Without a server it ends the process where it is; once    *)
(* there was one its handler stays registered, and after its end SIGTERM      *)
(* reaches nobody.                                                            *)
Terminate ==
  /\ pc = "ready" /\ main # "start"
  /\ \/ /\ Up("http")
        /\ stopping' = TRUE
        /\ UNCHANGED <<vars, args, running, main, job, probe, lock>>
     \/ /\ job["http"] = "none"
        /\ pc' = "down"
        /\ ProcessEnds
        /\ UNCHANGED <<schema, queued, notes, version, todo, conflict, boundVars>>

--------------------------------------------------------------------------------
(* The jobs *)

Ends(j) == job' = [job EXCEPT ![j] = "ended"]

(* run_poll_job, run_hbt_job, run_mqtt_poll_job and run_mqtt_job leave      *)
(* their loops.                                                             *)
LoopEnds(j) ==
  /\ Up(j)
  /\ ~running
  /\ Ends(j)
  /\ UNCHANGED <<vars, args, running, main, stopping, probe, lock>>

KafkaStep == Up("kafka") /\ UNCHANGED <<vars, args, running, main, stopping, lock>>

(* The consumer could not be created or subscribed, or has been told to     *)
(* stop.                                                                    *)
KafkaExits ==
  /\ KafkaStep
  /\ ~probe.subscribed \/ ~running
  /\ probe' = [probe EXCEPT !.worker_exited = TRUE]
  /\ Ends("kafka")

KafkaCreate ==
  /\ KafkaStep
  /\ ~probe.consumer_started
  /\ probe' = [probe EXCEPT !.consumer_started = TRUE]
  /\ UNCHANGED job

KafkaSubscribe ==
  /\ KafkaStep
  /\ probe.consumer_started /\ ~probe.subscribed
  /\ probe' = [probe EXCEPT !.subscribed = TRUE]
  /\ UNCHANGED job

(* The server drops what it has not answered. *)
HttpEnds ==
  /\ Up("http")
  /\ stopping
  /\ Ends("http")
  /\ lock' = << >>
  /\ UNCHANGED <<vars, args, running, main, stopping, probe>>

(* Events the poll job has delivered, or mqtt_poll has put there. *)
Deliver ==
  /\ \/ Up("poll") /\ queued' = FALSE
     \/ Up("mqtt_poll") /\ queued' = TRUE
  /\ UNCHANGED <<schema, notes, pc, version, todo, conflict, boundVars, jobVars>>

--------------------------------------------------------------------------------
(* Requests: post_event and get_heartbeat hold the lock until they answer, *)
(* and the mutex of tokio is fair.                                         *)

Arrive(r) ==
  /\ Up("http") /\ ~stopping
  /\ r \notin Range(lock)
  /\ lock' = Append(lock, r)
  /\ UNCHANGED <<vars, args, running, main, job, stopping, probe>>

(* Mutant: the lock stays with a heartbeat. *)
AnswerPost ==
  /\ lock # << >> /\ Head(lock) \in Posts
  /\ Up("http")
  /\ lock' = Tail(lock)
  /\ queued' = TRUE
  /\ UNCHANGED <<schema, notes, pc, version, todo, conflict, boundVars>>
  /\ UNCHANGED <<args, running, main, job, stopping, probe>>

(* post_event has its row, get_heartbeat the answer of ilert. *)
Answer ==
  /\ lock # << >>
  /\ Up("http")
  /\ lock' = Tail(lock)
  /\ queued' = (queued \/ Head(lock) \in Posts)
  /\ UNCHANGED <<schema, notes, pc, version, todo, conflict, boundVars>>
  /\ UNCHANGED <<args, running, main, job, stopping, probe>>

(* Mutant: a consumer that was created counts. *)
KafkaStarted == probe.consumer_started /\ ~probe.worker_exited

KafkaReady ==
  probe.consumer_started /\ probe.subscribed /\ ~probe.worker_exited

(* get_ready answers 204, as far as Kafka is concerned. *)
Ready ==
  /\ Up("http")
  /\ running
  /\ config.kafka_brokers => KafkaReady

--------------------------------------------------------------------------------
(* What the process still has to do by itself. *)
Work ==
  \/ SpawnJobs
  \/ Supervise
  \/ Join
  \/ Return
  \/ \E j \in Loops : LoopEnds(j)
  \/ KafkaExits
  \/ KafkaCreate
  \/ KafkaSubscribe
  \/ HttpEnds

DaemonNext ==
  \/ PrepareDatabase
  \/ Work
  \/ Interrupt
  \/ Terminate
  \/ Deliver
  \/ \E r \in Request : Arrive(r)
  \/ Answer
  \/ DaemonCrash

(* The operator starts the daemon again; its tasks and threads are          *)
(* scheduled (each step of Work is taken once in a life of the process, so  *)
(* that fairness of all is fairness of each), ilert answers or fails each   *)
(* request, and the certificates MQTT needs can be loaded (MqttSession).    *)
DaemonSpec ==
  /\ DaemonInit
  /\ [][DaemonNext]_daemonVars
  /\ WF_daemonVars(PrepareDatabase)
  /\ WF_daemonVars(Work)
  /\ WF_daemonVars(Answer)

--------------------------------------------------------------------------------
Serving == pc = "ready" /\ main # "start"

(* Whatever the options, every path that takes messages over has someone    *)
(* to try them again: a queue is written only beside its poll job, until    *)
(* shutdown, and MQTT without a queue has an acknowledgement to hold back.   *)
EveryPathCanRetry ==
  Serving /\ running =>
    /\ Up("http") => Up("poll")
    /\ Up("mqtt") => IF config.mqtt_buffer THEN Up("poll") /\ Up("mqtt_poll")
                     ELSE config.mqtt_qos # 0

(* /ready says yes only while the Kafka consumer of this process is         *)
(* subscribed and in its loop.                                              *)
ReadyMeansConsuming ==
  Ready /\ config.kafka_brokers => Up("kafka") /\ probe.subscribed

(* CHANGELOG 0.8.0: a worker that ends by itself stops the daemon instead   *)
(* of leaving it half-broken, when there is a server to supervise it; and    *)
(* without one when nothing else is up.                                     *)
LostWorkerEndsDaemon ==
  /\ job["kafka"] = "ended"
  /\ config.start_http \/ \A j \in Job \ {"kafka"} : ~Up(j)
  ~> pc = "down"

(* Once told to stop, by a signal or by the loss of a worker, the process   *)
(* ends whichever jobs it has: none of the joins waits for ever.            *)
ShutdownEnds == Serving /\ (~running \/ stopping) ~> pc = "down"

(* A request that waits for the web context, behind heartbeats ilert is     *)
(* slow to answer, gets it, or the server ends.                             *)
RequestsLeave == \A r \in Request : r \in Range(lock) ~> r \notin Range(lock)
================================================================================
