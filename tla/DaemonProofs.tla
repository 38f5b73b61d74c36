----------------------------- MODULE DaemonProofs -----------------------------
(***************************************************************************)
(* What Daemon promises for every set of command lines, any number of      *)
(* clients, and files, crashes and notes as in MigrationProofs.             *)
(***************************************************************************)
EXTENDS Daemon, MigrationProofs

LEMMA TheJoinOrder ==
  /\ Range(JoinOrder) = {"poll", "hbt", "mqtt_poll", "mqtt", "kafka"}
  /\ Len(JoinOrder) = 5
  /\ Head(JoinOrder) = "poll"
  /\ Last(JoinOrder) = "kafka"
  /\ \A k \in 1..5 : JoinOrder[k] \in Range(JoinOrder)
<1>1. /\ Len(JoinOrder) = 5 /\ DOMAIN JoinOrder = 1..5
      /\ JoinOrder[1] = "poll" /\ JoinOrder[2] = "hbt" /\ JoinOrder[3] = "mqtt_poll"
      /\ JoinOrder[4] = "mqtt" /\ JoinOrder[5] = "kafka"
      /\ Head(JoinOrder) = "poll"
  BY DEF JoinOrder
<1>2. Range(JoinOrder) = {JoinOrder[k] : k \in 1..5}
  BY <1>1 DEF Range
<1>3. \A k \in 1..5 : k = 1 \/ k = 2 \/ k = 3 \/ k = 4 \/ k = 5
  OBVIOUS
<1>4. Range(JoinOrder) = {"poll", "hbt", "mqtt_poll", "mqtt", "kafka"}
  BY <1>1, <1>2, <1>3
<1> QED
  BY <1>1, <1>2, <1>4 DEF Last

(***************************************************************************)
(* The inductive invariant.  From the moment they are spawned the jobs are *)
(* those the options ask for, and while the daemon is running none of its   *)
(* loops has ended; before, and after the process, there are none.          *)
(***************************************************************************)
LockOK == lock \in Seq(Request) /\ IsInjective(lock)

JobsTyped ==
  /\ args \in Arguments \cup {NotGiven}
  /\ running \in BOOLEAN
  /\ main \in {"start", "supervise"} \cup Range(JoinOrder)
  /\ job \in [Job -> {"none", "up", "ended"}]
  /\ stopping \in BOOLEAN
  /\ probe \in [DOMAIN NewProbe -> BOOLEAN]
  /\ LockOK

JobsAsWanted ==
  /\ main = "start" => job = NoJobs
  /\ main # "start" =>
       /\ pc = "ready"
       /\ args \in Arguments
       /\ Accepted(config)
       /\ \A j \in Job : job[j] = "none" <=> ~Wanted(config)[j]
  /\ running => \A j \in Loops : job[j] # "ended"
  /\ job["kafka"] = "ended" => probe.worker_exited

DaemonIInv == IInv /\ JobsTyped /\ JobsAsWanted

LEMMA ProbeDomain ==
  DOMAIN NewProbe = {"consumer_started", "subscribed", "worker_exited"}
  BY DEF NewProbe

LEMMA NewProcess ==
  ASSUME ProcessEnds
  PROVE  JobsTyped' /\ JobsAsWanted'
<1>1. running' \in BOOLEAN /\ stopping' \in BOOLEAN
  BY Zenon DEF ProcessEnds
<1>2. probe' \in [DOMAIN NewProbe -> BOOLEAN]
  <2>1. probe' = NewProbe
    BY DEF ProcessEnds
  <2>2. \A x \in DOMAIN NewProbe : NewProbe[x] = FALSE
    BY ProbeDomain DEF NewProbe
  <2>3. NewProbe = [x \in DOMAIN NewProbe |-> NewProbe[x]]
    BY DEF NewProbe
  <2> QED
    BY <2>1, <2>2, <2>3
<1>3. job' = NoJobs /\ NoJobs \in [Job -> {"none", "up", "ended"}]
  BY DEF ProcessEnds, NoJobs
<1>4. LockOK'
  BY DEF ProcessEnds, LockOK, IsInjective
<1>5. JobsTyped'
  BY <1>1, <1>2, <1>3, <1>4 DEF ProcessEnds, JobsTyped
<1>6. JobsAsWanted'
  BY <1>3 DEF ProcessEnds, JobsAsWanted, NoJobs, Job, Loops
<1> QED
  BY <1>5, <1>6

(* The queue of the lock has no request twice. *)
LEMMA LockArrives ==
  ASSUME LockOK, NEW r \in Request, Arrive(r)
  PROVE  LockOK'
<1>1. lock' = Append(lock, r) /\ lock \in Seq(Request) /\ r \notin Range(lock)
  BY DEF Arrive, LockOK
<1>2. lock' \in Seq(Request)
  BY <1>1
<1>3. /\ DOMAIN lock = 1..Len(lock) /\ Len(lock) \in Nat
      /\ DOMAIN lock' = 1..(Len(lock) + 1)
      /\ \A i \in 1..Len(lock) : lock'[i] = lock[i] /\ lock[i] # r
      /\ lock'[Len(lock) + 1] = r
  BY <1>1 DEF Range
<1>4. \A i, j \in DOMAIN lock : lock[i] = lock[j] => i = j
  BY DEF LockOK, IsInjective
<1>5. ASSUME NEW i \in DOMAIN lock', NEW j \in DOMAIN lock', lock'[i] = lock'[j]
      PROVE  i = j
  BY <1>3, <1>4, <1>5
<1> QED
  BY <1>2, <1>5 DEF LockOK, IsInjective

LEMMA LockAnswers ==
  ASSUME LockOK, lock # << >>, lock' = Tail(lock)
  PROVE  LockOK'
<1>1. lock \in Seq(Request) /\ lock' \in Seq(Request)
  BY DEF LockOK
<1>2. /\ DOMAIN lock = 1..Len(lock) /\ Len(lock) \in Nat
      /\ DOMAIN lock' = 1..(Len(lock) - 1)
      /\ \A i \in DOMAIN lock' : lock'[i] = lock[i + 1]
  BY <1>1 DEF LockOK
<1>3. \A i, j \in DOMAIN lock : lock[i] = lock[j] => i = j
  BY DEF LockOK, IsInjective
<1>4. ASSUME NEW i \in DOMAIN lock', NEW j \in DOMAIN lock', lock'[i] = lock'[j]
      PROVE  i = j
  <2>1. i + 1 \in DOMAIN lock /\ j + 1 \in DOMAIN lock /\ i \in Nat /\ j \in Nat
    BY <1>2
  <2>2. i + 1 = j + 1
    BY <1>2, <1>3, <1>4, <2>1
  <2> QED
    BY <2>1, <2>2
<1> QED
  BY <1>1, <1>4 DEF LockOK, IsInjective

--------------------------------------------------------------------------------
(* What a daemon that is up does to the database leaves its migrations      *)
(* alone, and so does its end.                                              *)
LEMMA StaysMigrated ==
  ASSUME IInv, queued' \in BOOLEAN,
         UNCHANGED <<schema, notes, pc, version, todo, conflict, boundVars>>
  PROVE  IInv'
<1>1. Plain'
  BY DEF IInv, Plain, boundVars
<1>2. PICK v \in 0..5 : Progress(v)
  BY DEF IInv, Stepwise
<1>3. Progress(v)'
  BY <1>2 DEF Progress, Stored, Stuck, Under, Fits
<1> QED
  BY <1>1, <1>3 DEF IInv, Stepwise

LEMMA EndsMigrated ==
  ASSUME IInv, pc = "ready", pc' = "down",
         UNCHANGED <<schema, queued, notes, version, todo, conflict, boundVars>>
  PROVE  IInv'
<1>1. Plain'
  BY DEF IInv, Plain, boundVars
<1>2. PICK v \in 0..5 : Progress(v)
  BY DEF IInv, Stepwise
<1>3. Progress(v)'
  BY <1>2 DEF Progress, Stored
<1> QED
  BY <1>1, <1>3 DEF IInv, Stepwise

LEMMA DatabaseNext == DaemonIInv /\ [DaemonNext]_daemonVars => IInv'
<1> SUFFICES ASSUME DaemonIInv, [DaemonNext]_daemonVars PROVE IInv'
  OBVIOUS
<1>1. IInv /\ JobsTyped /\ JobsAsWanted
  BY DEF DaemonIInv
<1>2. queued \in BOOLEAN
  BY <1>1 DEF IInv, Plain
<1>3. CASE PrepareDatabase
  BY <1>1, <1>3, IInvNext DEF PrepareDatabase, Next, Prepare
<1>4. CASE UNCHANGED vars
  BY <1>1, <1>2, <1>4, StaysMigrated DEF vars
<1>5. CASE Return \/ Terminate
  <2>1. CASE /\ pc' = "down" /\ main # "start"
             /\ UNCHANGED <<schema, queued, notes, version, todo, conflict, boundVars>>
    BY <1>1, <2>1, EndsMigrated DEF JobsAsWanted
  <2>2. "kafka" # "start"
    OBVIOUS
  <2> QED
    BY <1>4, <1>5, <2>1, <2>2, TheJoinOrder DEF Return, Terminate
<1>6. CASE Deliver
  <2>1. queued' \in BOOLEAN
    BY <1>6, Zenon DEF Deliver
  <2> QED
    BY <1>1, <1>6, <2>1, StaysMigrated DEF Deliver
<1>7. CASE Answer
  <2>1. queued' \in BOOLEAN
    BY <1>7, Zenon DEF Answer
  <2> QED
    BY <1>1, <1>7, <2>1, StaysMigrated DEF Answer
<1>8. CASE DaemonCrash
  BY <1>1, <1>8, IInvNext DEF DaemonCrash, Next
<1>9. ASSUME SpawnJobs \/ Supervise \/ Join \/ (\E j \in Loops : LoopEnds(j))
             \/ KafkaExits \/ KafkaCreate \/ KafkaSubscribe \/ HttpEnds \/ Interrupt
             \/ (\E r \in Request : Arrive(r))
             \/ UNCHANGED daemonVars
      PROVE  UNCHANGED vars
  BY <1>9
  DEF SpawnJobs, Supervise, Join, LoopEnds, KafkaExits, KafkaCreate, KafkaSubscribe,
      KafkaStep, HttpEnds, Interrupt, Arrive, daemonVars
<1> QED
  BY <1>3, <1>4, <1>5, <1>6, <1>7, <1>8, <1>9 DEF DaemonNext, Work

LEMMA JobsTypedNext == DaemonIInv /\ [DaemonNext]_daemonVars => JobsTyped'
<1> SUFFICES ASSUME JobsTyped, [DaemonNext]_daemonVars PROVE JobsTyped'
  BY DEF DaemonIInv
<1>1. CASE UNCHANGED jobVars
  BY <1>1 DEF JobsTyped, LockOK, jobVars
<1>2. CASE SpawnJobs
  <2>1. args' \in Arguments
    BY <1>2 DEF SpawnJobs
  <2>2. job' \in [Job -> {"none", "up", "ended"}]
    BY <1>2 DEF SpawnJobs
  <2>3. main' \in {"start", "supervise"} \cup Range(JoinOrder)
    BY <1>2, TheJoinOrder DEF SpawnJobs
  <2> QED
    BY <1>2, <2>1, <2>2, <2>3 DEF JobsTyped, LockOK, SpawnJobs
<1>3. CASE Supervise
  <2>1. running' \in BOOLEAN
    BY <1>3, Zenon DEF Supervise, RunningAfter
  <2>2. main' \in {"start", "supervise"} \cup Range(JoinOrder)
    BY <1>3, TheJoinOrder DEF Supervise
  <2> QED
    BY <1>3, <2>1, <2>2 DEF JobsTyped, LockOK, Supervise
<1>4. CASE Join
  <2>1. PICK k \in 2..5 : JoinOrder[k - 1] = main
    <3>1. main \in Range(JoinOrder) /\ main # "kafka"
      BY <1>4, TheJoinOrder DEF Join
    <3>2. PICK i \in DOMAIN JoinOrder : JoinOrder[i] = main
      BY <3>1 DEF Range
    <3>3. i \in 1..4
      BY <3>1, <3>2 DEF JoinOrder
    <3> QED
      BY <3>2, <3>3
  <2> DEFINE n == CHOOSE i \in 2..5 : JoinOrder[i - 1] = main
  <2>2. n \in 2..5
    BY <2>1
  <2>3. main' = JoinOrder[n]
    BY <1>4, TheJoinOrder DEF Join
  <2> HIDE DEF n
  <2>4. main' \in Range(JoinOrder)
    BY <2>2, <2>3, TheJoinOrder
  <2> QED
    BY <1>4, <2>4 DEF JobsTyped, LockOK, Join
<1>5. CASE Return \/ DaemonCrash \/ ProcessEnds
  BY <1>5, NewProcess DEF Return, DaemonCrash
<1>6. CASE Interrupt
  <2>1. running' \in BOOLEAN /\ stopping' \in BOOLEAN
    BY <1>6, Zenon DEF Interrupt, Up
  <2> QED
    BY <1>6, <2>1 DEF JobsTyped, LockOK, Interrupt
<1>7. CASE Terminate
  <2>1. CASE ProcessEnds
    BY <1>5, <2>1
  <2>2. CASE /\ stopping' = TRUE
             /\ UNCHANGED <<vars, args, running, main, job, probe, lock>>
    <3>1. stopping' \in BOOLEAN
      BY <2>2, Zenon
    <3> QED
      BY <2>2, <3>1 DEF JobsTyped, LockOK
  <2> QED
    BY <1>7, <2>1, <2>2 DEF Terminate
<1>8. ASSUME NEW j \in Loops, LoopEnds(j)
      PROVE  JobsTyped'
  BY <1>8 DEF JobsTyped, LockOK, LoopEnds, Ends
<1>9. CASE KafkaExits \/ KafkaCreate \/ KafkaSubscribe
  <2>1. probe' \in [DOMAIN NewProbe -> BOOLEAN]
    BY <1>9 DEF JobsTyped, KafkaExits, KafkaCreate, KafkaSubscribe
  <2>2. job' \in [Job -> {"none", "up", "ended"}]
    BY <1>9 DEF JobsTyped, KafkaExits, KafkaCreate, KafkaSubscribe, Ends
  <2> QED
    BY <1>9, <2>1, <2>2
    DEF JobsTyped, LockOK, KafkaExits, KafkaCreate, KafkaSubscribe, KafkaStep
<1>10. CASE HttpEnds
  <2>1. LockOK'
    BY <1>10 DEF HttpEnds, LockOK, IsInjective
  <2> QED
    BY <1>10, <2>1 DEF JobsTyped, HttpEnds, Ends
<1>11. ASSUME NEW r \in Request, Arrive(r)
       PROVE  JobsTyped'
  <2>1. LockOK'
    BY <1>11, LockArrives DEF JobsTyped
  <2> QED
    BY <1>11, <2>1 DEF JobsTyped, Arrive
<1>12. CASE Answer
  <2>1. LockOK'
    BY <1>12, LockAnswers DEF JobsTyped, Answer
  <2> QED
    BY <1>12, <2>1 DEF JobsTyped, Answer
<1> QED
  BY <1>1, <1>2, <1>3, <1>4, <1>5, <1>6, <1>7, <1>8, <1>9, <1>10, <1>11, <1>12
  DEF DaemonNext, Work, PrepareDatabase, Deliver, daemonVars

(* The end of a job: of a loop only when the daemon is told to stop, of the *)
(* Kafka worker with its mark in the probe.                                 *)
LEMMA JobEnds ==
  ASSUME JobsTyped, JobsAsWanted, NEW j \in Job, Up(j), Ends(j),
         UNCHANGED <<pc, args, running, main>>,
         j \in Loops => ~running,
         probe' = probe \/ probe'.worker_exited,
         j = "kafka" => probe'.worker_exited
  PROVE  JobsAsWanted'
<1>1. main # "start"
  BY DEF JobsAsWanted, Up, NoJobs
<1>2. /\ \A i \in Job : job'[i] = IF i = j THEN "ended" ELSE job[i]
      /\ job[j] = "up"
  BY DEF JobsTyped, Ends, Up
<1>3. config' = config
  BY DEF config
<1>4. \A i \in Job : job'[i] = "none" <=> ~Wanted(config)[i]
  BY <1>1, <1>2 DEF JobsAsWanted
<1>5. running' => \A i \in Loops : job'[i] # "ended"
  BY <1>2 DEF JobsAsWanted, Job
<1>6. job'["kafka"] = "ended" => probe'.worker_exited
  BY <1>2 DEF JobsAsWanted, Job
<1> HIDE DEF config
<1> QED
  BY <1>1, <1>3, <1>4, <1>5, <1>6 DEF JobsAsWanted

(* What is not a start, an end of a job or of the process. *)
LEMMA JobsStay ==
  ASSUME JobsAsWanted, UNCHANGED <<args, job>>,
         main # "start" => pc' = "ready",
         main' # "start" <=> main # "start",
         running' => running,
         probe'.worker_exited = probe.worker_exited
  PROVE  JobsAsWanted'
<1>1. config' = config
  BY DEF config
<1> HIDE DEF config
<1> QED
  BY <1>1 DEF JobsAsWanted

LEMMA JobsSpawned ==
  ASSUME JobsTyped, JobsAsWanted, SpawnJobs
  PROVE  JobsAsWanted'
<1>1. PICK a \in Arguments : a = args' /\ Accepted(ConfigOf(a))
  BY DEF SpawnJobs
<1>2. config' = ConfigOf(a)
  BY <1>1 DEF config
<1>3. \A j \in Job : job'[j] = IF Wanted(ConfigOf(a))[j] THEN "up" ELSE "none"
  BY <1>1 DEF SpawnJobs
<1>4. main' # "start"
  BY <1>1, TheJoinOrder DEF SpawnJobs
<1>5. /\ \A j \in Job : job'[j] = "none" <=> ~Wanted(ConfigOf(a))[j]
      /\ \A j \in Job : job'[j] # "ended"
  BY <1>3
<1>6. "kafka" \in Job /\ Loops \subseteq Job
  BY DEF Job
<1>7. pc' = "ready"
  BY DEF SpawnJobs, vars
<1> HIDE DEF config
<1> QED
  BY <1>1, <1>2, <1>4, <1>5, <1>6, <1>7 DEF JobsAsWanted

LEMMA JobsAsWantedNext ==
  DaemonIInv /\ [DaemonNext]_daemonVars => JobsAsWanted'
<1> SUFFICES ASSUME JobsTyped, JobsAsWanted, [DaemonNext]_daemonVars
             PROVE  JobsAsWanted'
  BY DEF DaemonIInv
<1>1. CASE PrepareDatabase
  <2>1. main = "start"
    BY <1>1
    DEF PrepareDatabase, JobsAsWanted, Bootstrap, SkipMigration, BeginMigration,
        BeginUnreadable, Apply, ApplyRefused, NoteMigration
  <2> QED
    BY <1>1, <2>1, JobsStay DEF PrepareDatabase, jobVars
<1>2. CASE SpawnJobs
  BY <1>2, JobsSpawned
<1>3. CASE Supervise
  <2>1. ~running' /\ main # "start" /\ main' # "start"
    BY <1>3, TheJoinOrder DEF Supervise, RunningAfter
  <2> QED
    BY <1>3, <2>1, JobsStay DEF Supervise, vars, JobsAsWanted
<1>4. CASE Join
  <2>1. main \in Range(JoinOrder)
    BY <1>4 DEF Join
  <2>2. PICK k \in 2..5 : JoinOrder[k - 1] = main
    <3>1. main \in Range(JoinOrder) /\ main # "kafka"
      BY <1>4, TheJoinOrder DEF Join
    <3>2. PICK i \in DOMAIN JoinOrder : JoinOrder[i] = main
      BY <3>1 DEF Range
    <3>3. i \in 1..4
      BY <3>1, <3>2 DEF JoinOrder
    <3> QED
      BY <3>2, <3>3
  <2> DEFINE n == CHOOSE i \in 2..5 : JoinOrder[i - 1] = main
  <2>3. n \in 2..5
    BY <2>2
  <2>4. main' = JoinOrder[n]
    BY <1>4, TheJoinOrder DEF Join
  <2> HIDE DEF n
  <2>5. main # "start" /\ main' # "start"
    BY <2>1, <2>3, <2>4, TheJoinOrder
  <2> QED
    BY <1>4, <2>5, JobsStay DEF Join, vars, JobsAsWanted
<1>5. CASE Return \/ DaemonCrash
  BY <1>5, NewProcess DEF Return, DaemonCrash
<1>6. CASE Interrupt
  BY <1>6, JobsStay DEF Interrupt, vars
<1>7. CASE Terminate
  BY <1>7, JobsStay, NewProcess DEF Terminate, vars
<1>8. ASSUME NEW j \in Loops, LoopEnds(j)
      PROVE  JobsAsWanted'
  <2>1. j \in Job /\ j # "kafka"
    BY DEF Job, Loops
  <2> QED
    BY <1>8, <2>1, JobEnds DEF LoopEnds, vars
<1>9. CASE KafkaExits
  <2>1. probe'.worker_exited
    BY <1>9, ProbeDomain DEF KafkaExits, JobsTyped
  <2>2. "kafka" \in Job /\ "kafka" \notin Loops
    BY DEF Job, Loops
  <2> QED
    BY <1>9, <2>1, <2>2, JobEnds DEF KafkaExits, KafkaStep, vars
<1>10. CASE KafkaCreate \/ KafkaSubscribe
  <2>1. probe'.worker_exited = probe.worker_exited
    BY <1>10, ProbeDomain DEF KafkaCreate, KafkaSubscribe, JobsTyped
  <2>2. UNCHANGED <<pc, args, job, running, main>>
    BY <1>10 DEF KafkaCreate, KafkaSubscribe, KafkaStep, vars
  <2> QED
    BY <2>1, <2>2, JobsStay DEF JobsAsWanted
<1>11. CASE HttpEnds
  <2>1. "http" \in Job /\ "http" \notin Loops
    BY DEF Job, Loops
  <2> QED
    BY <1>11, <2>1, JobEnds DEF HttpEnds, vars
<1>12. CASE Deliver \/ Answer \/ (\E r \in Request : Arrive(r)) \/ UNCHANGED daemonVars
  <2>1. UNCHANGED <<pc, args, job, running, main, probe>>
    BY <1>12 DEF Deliver, Answer, Arrive, daemonVars, vars, jobVars
  <2> QED
    BY <2>1, JobsStay DEF JobsAsWanted
<1> QED
  BY <1>1, <1>2, <1>3, <1>4, <1>5, <1>6, <1>7, <1>8, <1>9, <1>10, <1>11, <1>12
  DEF DaemonNext, Work

--------------------------------------------------------------------------------
LEMMA DaemonIInvInit == DaemonInit => DaemonIInv
<1> SUFFICES ASSUME DaemonInit PROVE DaemonIInv
  OBVIOUS
<1>1. IInv
  BY IInvInit DEF DaemonInit
<1>2. running \in BOOLEAN /\ stopping \in BOOLEAN
  BY Zenon DEF DaemonInit
<1>3. probe \in [DOMAIN NewProbe -> BOOLEAN]
  <2>1. probe = NewProbe
    BY DEF DaemonInit
  <2>2. \A x \in DOMAIN NewProbe : NewProbe[x] = FALSE
    BY ProbeDomain DEF NewProbe
  <2>3. NewProbe = [x \in DOMAIN NewProbe |-> NewProbe[x]]
    BY DEF NewProbe
  <2> QED
    BY <2>1, <2>2, <2>3
<1>4. job = NoJobs /\ NoJobs \in [Job -> {"none", "up", "ended"}]
  BY DEF DaemonInit, NoJobs
<1>5. LockOK
  BY DEF DaemonInit, LockOK, IsInjective
<1>6. JobsTyped
  BY <1>2, <1>3, <1>4, <1>5 DEF DaemonInit, JobsTyped
<1>7. JobsAsWanted
  BY <1>4 DEF DaemonInit, JobsAsWanted, NoJobs, Job, Loops
<1> QED
  BY <1>1, <1>6, <1>7 DEF DaemonIInv

LEMMA DaemonIInvNext == DaemonIInv /\ [DaemonNext]_daemonVars => DaemonIInv'
  BY DatabaseNext, JobsTypedNext, JobsAsWantedNext DEF DaemonIInv

LEMMA DaemonIInvIsTyped == DaemonIInv => DaemonTypeOK
<1> SUFFICES ASSUME IInv, JobsTyped PROVE DaemonTypeOK
  BY DEF DaemonIInv
<1>1. TypeOK
  BY IInvIsTyped
<1>2. Range(lock) \subseteq Request
  BY DEF JobsTyped, LockOK, Range
<1> QED
  BY <1>1, <1>2 DEF JobsTyped, LockOK, DaemonTypeOK

(* A server that is up was asked for, and so was its poll job, which does   *)
(* not end before the daemon is told to; so for MQTT with a queue, and       *)
(* options without one were refused at the start unless the broker waits     *)
(* for an acknowledgement.                                                   *)
LEMMA DaemonIInvRetries == DaemonIInv => EveryPathCanRetry
<1> SUFFICES ASSUME DaemonIInv, Serving, running PROVE
      /\ Up("http") => Up("poll")
      /\ Up("mqtt") => IF config.mqtt_buffer THEN Up("poll") /\ Up("mqtt_poll")
                       ELSE config.mqtt_qos # 0
  BY DEF EveryPathCanRetry
<1>1. /\ args \in Arguments
      /\ Accepted(config)
      /\ \A j \in Job : job[j] = "none" <=> ~Wanted(config)[j]
      /\ \A j \in Loops : job[j] # "ended"
  BY DEF DaemonIInv, JobsAsWanted, Serving
<1>2. job \in [Job -> {"none", "up", "ended"}]
  BY DEF DaemonIInv, JobsTyped
<1>3. ASSUME NEW j \in Loops
      PROVE  Up(j) <=> Wanted(config)[j]
  <2>1. j \in Job
    BY DEF Job
  <2>2. job[j] \in {"none", "up", "ended"}
    BY <1>2, <2>1
  <2> QED
    BY <1>1, <2>1, <2>2 DEF Up
<1>4. "http" \in Job /\ {"poll", "mqtt", "mqtt_poll"} \subseteq Loops
  BY DEF Job, Loops
<1>5. Up("http") => Wanted(config)["http"]
  BY <1>1, <1>4 DEF Up
<1>6. /\ Wanted(config)["http"] = config.start_http
      /\ Wanted(config)["poll"] = (config.start_http \/ config.mqtt_buffer)
      /\ Wanted(config)["mqtt"] = config.mqtt_host
      /\ Wanted(config)["mqtt_poll"] = (config.mqtt_host /\ config.mqtt_buffer)
  BY Zenon DEF Wanted, PollNeeded
<1> HIDE DEF config
<1> QED
  BY <1>1, <1>3, <1>4, <1>5, <1>6 DEF Accepted

(* The worker leaves its mark before anything can see that it has ended.    *)
LEMMA DaemonIInvConsumes == DaemonIInv => ReadyMeansConsuming
<1> SUFFICES ASSUME DaemonIInv, Ready, config.kafka_brokers
             PROVE  Up("kafka") /\ probe.subscribed
  BY DEF ReadyMeansConsuming
<1>1. probe.subscribed /\ ~probe.worker_exited
  BY DEF Ready, KafkaReady
<1>2. {"http", "kafka"} \subseteq Job
  BY DEF Job
<1>3. job["http"] = "up"
  BY DEF Ready, Up
<1>4. main # "start"
  BY <1>2, <1>3 DEF DaemonIInv, JobsAsWanted, NoJobs
<1>5. Wanted(config)["kafka"]
  BY DEF Wanted
<1>6. job["kafka"] # "none" /\ job["kafka"] # "ended"
  BY <1>1, <1>2, <1>4, <1>5 DEF DaemonIInv, JobsAsWanted
<1>7. job["kafka"] \in {"none", "up", "ended"}
  BY <1>2 DEF DaemonIInv, JobsTyped
<1> QED
  BY <1>1, <1>6, <1>7 DEF Up

(* Every variable keeps its type, whatever the options: the lock is a queue *)
(* of requests each of which is in it once (http_server.rs:85-152).         *)
THEOREM DaemonTypeCorrect == DaemonSpec => []DaemonTypeOK
  BY DaemonIInvIsTyped, DaemonIInvInit, DaemonIInvNext, PTL DEF DaemonSpec

(* With the jobs around it, a start that is interrupted, fails or is        *)
(* stopped never leads to a daemon that serves on another schema            *)
(* (main.rs:569-726, db.rs:46-168).                                         *)
THEOREM DaemonIsMigrated == DaemonSpec => []ReadyMeansMigrated
<1>1. DaemonIInv => ReadyMeansMigrated
  BY IInvIsMigrated DEF DaemonIInv
<1> QED
  BY <1>1, DaemonIInvInit, DaemonIInvNext, PTL DEF DaemonSpec

(* No options that run_daemon accepts leave a path that takes messages over *)
(* without the job, or the broker, that tries them again (main.rs:389,      *)
(* 619-665).                                                                *)
THEOREM OptionsCanRetry == DaemonSpec => []EveryPathCanRetry
  BY DaemonIInvRetries, DaemonIInvInit, DaemonIInvNext, PTL DEF DaemonSpec

(* What /ready answers of Kafka is true of the worker at that moment        *)
(* (http_server.rs:54-66, kafka.rs:87-110, 193).                            *)
THEOREM ReadinessIsTrue == DaemonSpec => []ReadyMeansConsuming
  BY DaemonIInvConsumes, DaemonIInvInit, DaemonIInvNext, PTL DEF DaemonSpec

(* The jobs change the queue only while the daemon is up, and it is not     *)
(* after a refusal.                                                         *)
LEMMA DaemonFaultless ==
  DaemonIInv /\ Faultless /\ [DaemonNext]_daemonVars => Faultless'
<1> SUFFICES ASSUME IInv, JobsTyped, JobsAsWanted, Faultless,
                    [DaemonNext]_daemonVars
             PROVE  Faultless'
  BY DEF DaemonIInv
<1>1. CASE PrepareDatabase \/ DaemonCrash \/ UNCHANGED vars
  BY <1>1, FaultlessNext DEF PrepareDatabase, DaemonCrash, Next, Prepare
<1>2. CASE SpawnJobs \/ Supervise \/ Join \/ (\E j \in Loops : LoopEnds(j))
           \/ KafkaExits \/ KafkaCreate \/ KafkaSubscribe \/ HttpEnds \/ Interrupt
           \/ (\E r \in Request : Arrive(r))
           \/ UNCHANGED daemonVars
  BY <1>1, <1>2
  DEF SpawnJobs, Supervise, Join, LoopEnds, KafkaExits, KafkaCreate, KafkaSubscribe,
      KafkaStep, HttpEnds, Interrupt, Arrive, daemonVars
<1>3. CASE Deliver \/ Answer
  <2>1. main # "start"
    BY <1>3 DEF Deliver, Answer, Up, JobsAsWanted, NoJobs, Job, Loops
  <2>2. pc = "ready"
    BY <2>1 DEF JobsAsWanted
  <2>3. UNCHANGED <<schema, notes, pc, version, todo, conflict, boundVars>>
    BY <1>3 DEF Deliver, Answer
  <2>4. /\ Refused => pc # "ready"
        /\ \A v \in 0..5 : Smooth(v) => Smooth(v)'
    BY <2>3 DEF Refused, Smooth, Under
  <2> QED
    BY <2>2, <2>3, <2>4 DEF Faultless, boundVars
<1>4. CASE Return \/ Terminate
  <2>1. CASE UNCHANGED vars
    BY <1>1, <2>1
  <2>2. CASE /\ pc' = "down" /\ main # "start"
             /\ UNCHANGED <<schema, queued, notes, version, todo, conflict, boundVars>>
    <3>1. pc = "ready"
      BY <2>2 DEF JobsAsWanted
    <3>2. /\ Refused => pc # "ready"
          /\ \A v \in 0..5 : Smooth(v) => Smooth(v)'
      BY <2>2, <3>1 DEF Refused, Smooth
    <3> QED
      BY <2>2, <3>1, <3>2 DEF Faultless, boundVars
  <2>3. "kafka" # "start"
    OBVIOUS
  <2> QED
    BY <1>4, <2>1, <2>2, <2>3, TheJoinOrder DEF Return, Terminate
<1> QED
  BY <1>1, <1>2, <1>3, <1>4 DEF DaemonNext, Work

(* However the daemon is used, without crashes and unreadable notes it     *)
(* fails to start only for events an older release has left, first at the    *)
(* column inserted_at (db.rs:95-97), then at the column that start renamed   *)
(* (db.rs:89-93).                                                            *)
THEOREM DaemonRefusesOnlyLeftEvents == DaemonSpec => OnlyLeftEventsConflict
<1> DEFINE Inv == DaemonIInv /\ Faultless
<1>1. DaemonInit => Inv
  BY DaemonIInvInit, FaultlessInit DEF DaemonInit
<1>2. Inv /\ [DaemonNext]_daemonVars => Inv'
  BY DaemonIInvNext, DaemonFaultless
<1>3. Inv /\ [DaemonNext]_daemonVars => [RefusedAt]_vars
  <2> SUFFICES ASSUME Inv, DaemonNext, pc = "apply", pc' = "down", crashes' = 0,
                      unreadable' = 0
               PROVE  ApplyRefused
    BY RefusalIsOfLeftEvents DEF DaemonIInv, IInv, RefusedAt, daemonVars
  <2>1. main = "start"
    BY DEF DaemonIInv, JobsAsWanted
  <2>2. ~Return /\ ~Interrupt /\ ~Terminate
    <3>1. "kafka" # "start"
      OBVIOUS
    <3> QED
      BY <2>1, <3>1, TheJoinOrder DEF Return, Interrupt, Terminate
  <2>3. ~DaemonCrash
    BY MigrationAssumption DEF DaemonCrash, Crash, DaemonIInv, IInv, Plain
  <2>4. ASSUME SpawnJobs \/ Supervise \/ Join \/ (\E j \in Loops : LoopEnds(j))
               \/ KafkaExits \/ KafkaCreate \/ KafkaSubscribe \/ HttpEnds
               \/ (\E r \in Request : Arrive(r)) \/ Deliver \/ Answer
        PROVE  pc' = pc
    BY <2>4
    DEF SpawnJobs, Supervise, Join, LoopEnds, KafkaExits, KafkaCreate, KafkaSubscribe,
        KafkaStep, HttpEnds, Arrive, Deliver, Answer, vars
  <2>5. PrepareDatabase
    BY <2>2, <2>3, <2>4 DEF DaemonNext, Work
  <2> QED
    BY <2>5
    DEF PrepareDatabase, Bootstrap, SkipMigration, BeginMigration, BeginUnreadable,
        Apply, NoteMigration, NextVersion
<1> QED
  BY <1>1, <1>2, <1>3, PTL DEF DaemonSpec, OnlyLeftEventsConflict, RefusedAt
================================================================================
