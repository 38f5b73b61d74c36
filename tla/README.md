# ilagent in TLA+

ilagent is a daemon that takes events, heartbeats and escalation policy updates
from HTTP clients, MQTT brokers and Kafka brokers and passes them on to the ilert
API. Its promise is the one of a relay: what it has taken over it does not lose.
This directory models the parts of it that make this promise hard to keep,
checks them with TLC on small instances and proves the most important results
with TLAPS for every instance. Paths below are relative to `src/src/` of the
repository.

## The system

| component | state it keeps | operations | talks to | hard because | correct when |
|---|---|---|---|---|---|
| event queue (`poll.rs` 15-226) | table `event_items`; in memory: retry counters, interval | fetch a batch, send each row, delete or count, choose the interval | ilert API; SQLite over the shared connection | runs beside the writers, dies between two statements, replies get lost | no row leaves without a verdict; duplicates only through faults; retry limit and backoff kept; first in, first tried; the table drains |
| HTTP event endpoint (`http_server.rs` 103-152) | lock of the web context | validate, INSERT, SELECT back, answer | SQLite over its own connection | the poll job works between INSERT and SELECT | the answer says what happened to the event |
| HTTP probes and heartbeat (`http_server.rs` 27-101) | the same lock; probe flags | `/ready`, `/health`, `/api/heartbeats` | ilert API, worker threads | flags written by other threads; the lock is held over a request | ready means that messages are being received |
| SQLite store (`db.rs`) | `event_items`, `mqtt_queue`, `ilagent` | INSERT, SELECT ordered by `inserted_at`, DELETE | - | each statement can fail by itself | order of arrival, at most one row per call |
| schema migrations (`db.rs` 46-168) | version in `ilagent`, the schema | five migrations at start | - | several statements without a transaction | every start ends with the newest schema |
| buffered MQTT path (`consumers/mqtt.rs` 581-675, `poll.rs` 228-370) | broker's session, table `mqtt_queue`, retry counters | INSERT then acknowledge; move events on, apply policies, delete | broker, event queue, ilert API | redelivery, several API calls per row, restart with other topics | no message leaves without a verdict; work is repeated only for a fault |
| MQTT consumer session (`consumers/mqtt.rs` 230-561) | connection, probe, TLS fingerprints, reconnect counter | connect, subscribe, receive, acknowledge, reconnect, reload TLS | broker, handlers, probe | session loss, certificates changing, shutdown at any point | eventually connected; ready exactly then; shuts down |
| topic classification (`consumers/mqtt.rs` 27-70) | none | match a topic against the configured filters | consumer, MQTT poll job | wildcards, order of the cases | agrees with what was subscribed |
| escalation policy updates (`consumers/policy.rs`) | none here; the level at ilert | resolve user, resolve policy, PUT the level | ilert API | read-modify-write without a version; messages overtake | newest user wins, the timeout survives |
| Kafka consumer (`consumers/kafka.rs`) | committed offset at the broker | receive, send, commit or exit | broker, group coordinator, ilert API | asynchronous commits, rebalances, panic as retry | at least once, in order |
| event mapping (`models/event.rs`, `consumers/mod.rs`) | none | JSON to event to row and back | - | optional fields, filters, a type that is overwritten while it is compared | each value becomes the type it is configured for, each alert has a summary |
| heartbeat job (`hbt.rs`) | timer | ping | ilert API | - | pings while the agent works |
| daemon lifecycle (`main.rs` 569-726) | `running`, the task handles | start, supervise, signal, join | everything | who notices that a worker ended; join order | ends when told to; never runs without its workers |
| command line, configuration, version check, JSON lookup | - | sequential code at start | - | - | - |

The components meet in few places. HTTP handler, MQTT consumer thread and poll
jobs share the SQLite file over three connections, one of them behind
`DaemonContext.db`; the poll jobs and handlers share the ilert client; everybody
reads `running` and the consumers write the probes. The process exits on any
panic (`main.rs` 572-576), so a crash is always a crash of all of them.

## The modules

```
Relay             what every path promises
 |- EventQueue    HTTP endpoint + event_items + poll job          EventQueueProofs
 |- MqttQueue     broker + mqtt_queue + poll job + policies       MqttQueueProofs
 |- MqttSession   broker + consumer thread + probe + certificates MqttSessionProofs
 `- Kafka         partition + offset + agents of a group          KafkaProofs
Migration         schema of the file at every start               MigrationProofs
 `- Daemon        a start and its end: jobs, signals, requests    DaemonProofs
Topics, PolicyShift, EventMapping    the algorithms on one message
 `- Handling      a message from the broker to its call           HandlingProofs
```

**Relay** is the abstract specification: `seen`, `held` and `verdicts`, with
`Accept`, `Judge` and `Release`; a message is released only after a verdict. It
may be judged several times, which is what at-least-once means. EventQueue,
MqttQueue, MqttSession and Kafka end with an `INSTANCE` of it and the mapping of
their state.

**EventQueue** models `post_event`, `enqueue_event`, `run_poll_job`,
`process_queued_events` and `send_queued_event` over one table. A step is one SQL
statement or one API call with the code that runs up to the next one, because
these are the points at which another connection, a fault or a crash can come in
between. `PostEventInsert` and `PostEventSelect` are the two statements of
`create_il_event`; `SendEvent` is one attempt, split into `SendSettled`,
`SendExhausted` and `SendRetry` as the code does; `RemoveEvent` is the DELETE.
A SELECT that fails part way passes for a shorter batch (`FetchCutShort`) or an
empty table (`FetchUnreadable`); `left_out` holds the rows such a batch lacks.
`Crash` forgets what the process keeps in memory. History variables count what
ilert accepted (`accepts`), the faults that excuse a duplicate (`excuses`),
failed attempts (`failures`) and how attempts ended (`verdicts`).

**MqttQueue** models the path with `--mqtt_buffer` at QoS 1 from the broker to
the last API call: `QueueMessage` writes the row and hands the acknowledgement to
the connection, `AckWritten` sends it, `SessionLost` loses what was not sent.
The poll job classifies a row by the topics of *this* run (`kind`, which `Crash`
may change), enqueues events (`EnqueueEvent` with the three results of the code)
and applies policy messages in three steps, `ResolveUser`, `ResolvePolicy`,
`UpdateLevel`. A SELECT may be cut short here too (`FetchCutShort`). `event_items`
itself is left to EventQueue: a counter per message says how often it was put there.

**Kafka** models the event topic of one partition and several agents of a group.
Broker and coordinator are external: `Assign`, `Revoke`, `CommitArrives`. An
agent that handles a message can lose the partition and still finish its attempt
(`Send`); its commit is then refused (`CommitOf`), which `commit_callback` only
logs. `Panic` is the process ending five seconds after a failure. Heartbeat and
policy topics run through the same loop; a heartbeat never asks for a retry, a
policy message does after 429 and 5xx.

**MqttSession** models `run_mqtt_job` with messages handled inline. `pc` is where
the thread is: `connect` is the top of the outer loop, `recv` the inner loop,
`handle` the call to ilert, `backoff` the sleep at the end. `Leave` is every way
out of the inner loop (`StopSeen`, `TlsCheck`, `ConnectionError`,
`FailedLeaves`), with the look at `running` behind it. The broker keeps durable
messages until the acknowledgement arrives and hands them out again in a new
session; messages of QoS 0 travel only on an open connection. The certificate
files are one value, what their fingerprint tells apart; `staged`, `active` and
`attempt` are the three local copies, `NoMaterial` is a daemon without a CA
certificate. `probe` is `MqttProbeState`, `Ready` what `get_ready` makes of it.

**Migration** models `prepare_database`: a migration is a sequence of statements,
each with what it needs, drops and adds (`Executable` says when SQLite takes it),
followed by its note in the table `ilagent` (`NoteMigration`). `ApplyRefused` is
`expect()` ending the process. The file may come from any older release, with or
without events.

**Daemon** extends Migration by what surrounds it in `run_daemon`: the options of
a start (`ConfigOf`, `Accepted`), the jobs they ask for (`Wanted`), the `select!`
that waits for the first of server and consumers to end (`Supervise`), the joins in
their order (`main` is the job that is awaited), the two signals, and `ProcessEnds`,
which forgets everything but the file. What the jobs do is in the other modules; here they are up or
have ended, and leave their loops when `running` is false (`LoopEnds`). The Kafka
job takes the steps that set its probe (`KafkaCreate`, `KafkaSubscribe`,
`KafkaExits`). `lock` is the mutex of the web context, whose holder is a post or a
heartbeat that waits for ilert.

**Topics**, **PolicyShift** and **EventMapping** are operators without state.
Topics holds the matching of the program (`FilterMatches`, `MqttKind`,
`KafkaKind`) next to the matching of the broker (`BrokerMatches`), which is
external; PolicyShift the arithmetic of a level with the widths of i64 and i32 as
constants; EventMapping what `parse_event_json` makes of a payload, which is a
function from the paths it has to their values. **Handling** puts them on the way
of one message: delivered by what was subscribed, classified, perhaps kept as a row
while the agent is restarted with other topics, parsed, and sent. `input` and
`request` keep what was parsed and what was asked of ilert.

**MCEventQueue, MCMqttQueue, MCMqttSession, MCKafka, MCMigration, MCDaemon,
MCHandling** define the sets the configurations use.

## The runs

| run | instance | shows |
|---|---|---|
| `event_queue` | 3 events (one malformed), batches of 2, limit 2, every answer, 1 fault | `TypeOK`, `NoSilentLoss`, `DuplicateNeedsFault`, `ExhaustedMeansTried`, `BackoffInForce`, `NoOvertaking`, `RefinesRelay`, `QueueDrains` |
| `event_queue_poison` | 3 events, one always failing, batches of 2, unlimited retries | `HealthyLeave` |
| `event_queue_error` | no fault at all | violates `ErrorMeansNotCreated` |
| `mqtt_queue_buffer` | 2 events (one filtered) and a policy message, limit 2, 1 fault, a restart that no longer has the event topic | `TypeOK`, `EnqueuedTwiceNeedsFault`, `RefinesRelay`, `EveryMessageJudged` |
| `mqtt_queue_policy` | 3 policy messages for one level (one filtered), batches of 2, an edit, every answer, 1 fault | `TimeoutKept`, `OlderWinsOnlyAfterFailure` |
| `mqtt_queue_network` | no fault but network errors, unlimited retries | violates `NetworkErrorRetried` |
| `kafka_group` | 2 agents, 3 messages, 2 faults, failures without bound | `TypeOK`, `FirstTakenInOrder`, `OffsetGrows`, `RefinesRelay`, `EveryMessageTaken` |
| `migration_queued` | no fault, events left by an older release | violates `UpgradeCompletes` |
| `mqtt_session` | 3 messages (one of QoS 0), 2 topics, no files or files that change twice, the first of them not accepted, 1 fault | `TypeOK`, `ReadyIsEarned`, `JudgedInOrder`, `RefinesRelay`, `CertificateAdopted`, `ThreadEnds` |
| `mqtt_session_ready` | 1 lost connection | violates `ReadyMeansConnected` |
| `daemon` | files of every release, 2 crashes, 1 note that cannot be read; every set of jobs, accepted options and others; signals; a post and a heartbeat | `DaemonTypeOK`, `ReadyMeansMigrated`, `EveryPathCanRetry`, `ReadyMeansConsuming`, `CleanStartCompletes`, `LostWorkerEndsDaemon`, `ShutdownEnds`, `RequestsLeave` |
| `handling` | 4 filters for 3 topics, 4 topics, 3 paths; 96 payloads and 6 sets of options of events, 12 and 2 of policies, each i64 of 4 bits with offsets of both signs, 2 rules | `TypeOK`, `CallIsSubscribed`, `DeliveredIsHandled`, `TimeoutIsOfLevel`, `AlertHasSummary`, `ConfiguredTypeIsSent` |

**Bounds.** The batch is smaller than the number of rows, so that a row waits for
a later pass, and a row can fail, be overtaken and be tried again. A limit of 2
tells the first attempt from the last and both from a limit that was forgotten.
One fault is enough for what a fault does by itself; that several together do
no more to a safety property is proved, for every number of them. Three messages show order between one that is settled, one
that is being handled and one that waits. Counters are bounded by the code (retry
counts at the limit, the interval at its maximum) or by the number of messages
and faults; the intervals of `event_queue` keep the minimum, the maximum and the
maximum after failures apart. `MaxRows` of MqttQueue bounds redeliveries: in
`mqtt_queue_buffer` it is twice the number of messages, all that one fault can
cause; in `mqtt_queue_policy` it only cuts long behaviours of a safety run. Two
changes of the certificate files reach every order of an old, an unusable and a
new content; three contents are one that is refused, one that cannot be used and
one that works. `FetchCutShort`, `FetchUnreadable`, `FetchError` and the
failing statements count as faults. The filters of `handling` are a literal, `+` at the front, `#` at the
end and `#` alone, the topics one level, two levels, another first level and one of
the broker's own: each of the cases of `topic_filter_matches` and of the order of
classification decides somewhere, and HandlingProofs needs no bound. Four bits of
i64 and two of i32 let the sum and the cast wrap and still leave levels with
a rule and without. `daemon` takes a heartbeat job only together with Kafka, where it
decides how long a join waits, since the loops that only look at `running` are alike.
`CHECK_DEADLOCK FALSE` stands in `handling` alone, where a behaviour ends with its
message.

**Fairness.** EventQueue assumes weak fairness of the poll job: a tokio task that
loops with a sleep and whose lock is never held for ever; that a request to ilert
ends is an assumption about the HTTP client, which is not in this repository. MqttQueue assumes the same of the poll job and of the
consumer thread with its connection. Crashes, lost sessions and failing
statements are never required to happen and are bounded, for nothing drains
through an endless series of them. Kafka assumes that something restarts the
process, that the coordinator assigns a free partition, that an agent takes the
steps it can take, and strong fairness of a message being taken: the API does
not refuse for ever what it is offered again and again. Without that last
assumption a message that always fails stops the partition, as intended by the
code. MqttSession assumes weak fairness of its thread together with the broker, and
strong fairness of `ConnAck`: the files are looked at 30 seconds into a session,
so a broker that answers sooner once in a while is enough, and one that never
does would be left for new certificates again and again. Daemon assumes that
somebody starts the process again (`PrepareDatabase`), that its tasks and threads
run (`Work`; each of its steps happens once in a life of the process, so fairness of
the disjunction is fairness of each), and that ilert answers a request or the
client gives it up (`Answer`). It assumes no more of the consumer thread than that it
ends when told to, which MqttSession shows (`ThreadEnds`) for certificates that can be
used in the end. Signals and crashes never have to happen; crashes are bounded.

## What the code does that it does not say

* `event_queue_error`: `create_il_event` inserts and reads back in two statements;
  the poll job can deliver and delete the row in between. The poster is told
  500 "Failed to create event." (`http_server.rs` 140-143) for an event that ilert
  has, and will send it again.
* `mqtt_queue_network`: network errors are "retryable" in three comments of
  `policy.rs` (137, 163, 194), but they travel as status 0, which
  `is_retryable_status` does not know. One network error drops the update.
* `migration_queued`: migration 2 adds a column with a computed default, which
  SQLite refuses for a table with rows; a file of the first release with an event
  in its queue cannot be upgraded (`db.rs` 95-97). The rename before it has been
  executed and is not noted, so each later start fails there already (`db.rs` 89-93).
  `OnlyLeftEventsConflict`, which is proved below and is no property of a run, says
  just that: where no crash and no unreadable note has come in between, a start fails
  only for such a file, the first at `inserted_at`, the others at `incident_key`.
* `mqtt_session_ready`: after a connection error the probe is reset only when the
  next attempt begins; during the backoff, up to 30 s, `/ready` answers 204
  without a connection, against `CHANGELOG.md` 14.

More are visible in the models without a run of their own:

* A crash between the statements of a migration and its note makes every later
  start fail (`ApplyRefused`; `CleanStartCompletes` therefore starts from between
  two migrations), though a test is called `migrations_are_idempotent`.
* A SELECT of queued events that fails part way passes for a shorter batch
  (`FetchCutShort`, `db.rs` 288-301). When what it did return is delivered the interval
  falls to 500 ms while an event that failed waits unread, against "exponential
  backoff on failures up to 60s" (`CHANGELOG.md` 36). `BackoffInForce` allows this and
  nothing else.
* A consumer thread whose certificate files cannot be used at a reconnect never
  looks at `running` (`ConnectLoadFails`, `mqtt.rs` 336-357): `ThreadEnds` holds only
  if the files can be used in the end.
* A Kafka message that fails before the group has committed anything is skipped
  after the restart, since `auto.offset.reset` is not set (`Assign` of Kafka without
  `GroupHasOffset`), against "at least once" in `main.rs` 567. The run of
  Kafka is about a group that has an offset; two of its theorems assume one.
* `--max_retries` is read with the options of a consumer (`main.rs` 547). A daemon with
  only a port keeps 100 attempts, whatever is given.
* SIGTERM reaches the server but not the handler of `ctrlc`, which is built without
  its feature `termination` (`Cargo.toml` 19): a Kafka agent without a port does not
  shut down gracefully on it, against `CHANGELOG.md` 16 (`Terminate` of Daemon). Once the
  server has ended its handler is still registered, and the signal does nothing.
* Rows of `mqtt_queue` stay where they are while the daemon runs without
  `--mqtt_buffer`, and rows of `event_items` without a port or the buffer
  (`PollNeeded`).
* A `heartbeat` topic with a wildcard is subscribed as a filter and compared as a
  name: what it brings is dropped, or taken for an event if the event topic has a
  wildcard too. An event row queued under other topics may become a policy update.
  Both are exceptions in `CallIsSubscribed` and `DeliveredIsHandled`.
* A shift that leaves i32 wraps to another level, or to a negative one, with the
  timeout 1; `TimeoutIsOfLevel` is about sums within reach (`InReach`).

## What is proved

Every safety property the passing runs check is a theorem: the type invariants, the
invariants, the action properties and the four refinements of Relay. TLC found each
inductive invariant to hold on the instances of the runs before it was proved.
The assumptions are the `ASSUME`s of the modules, which say of the constants only
what the code and the model take for granted (sets are sets of the right things,
limits are natural numbers, a batch is not empty, the topics are finitely many). Only two
theorems of Kafka add one (`GroupHasOffset`).

**EventQueueProofs**, for every set of events, batch size, limit, interval and number
of faults:

| theorem | states | rests on |
|---|---|---|
| `TypeCorrect` | `Spec => []TypeOK` | `TypeOK` is inductive |
| `NothingLostSilently` | `Spec => []NoSilentLoss` | `TypeOK`, `Placed`, `Accounted` |
| `DuplicatesNeedFaults` | `Spec => []DuplicateNeedsFault` | `AcceptedOnce` |
| `ExhaustedWasTried` | `Spec => []ExhaustedMeansTried` | `CountedRight` |
| `FirstInFirstTried` | `Spec => NoOvertaking` | `Placed`, `Accounted`, `InOrder` |
| `BackoffIsKept` | `Spec => []BackoffInForce` | `InOrder`, `AtFront`, `FailureNoted` |
| `QueueIsRelay` | `Spec => RefinesRelay` | `Placed`, `Accounted` |

None of the properties is inductive. `NoSilentLoss` needs to know where the poll
job is: the row it is about to delete is in the table and has a verdict, and the
rows of its batch are in the table (`Placed`), and rows that were
inserted are either there or judged (`Accounted`). `DuplicateNeedsFault` needs
that an event still in the table was not accepted more often than faults excuse,
with one acceptance on credit exactly while its row is being deleted
(`AcceptedOnce`). `ExhaustedMeansTried` needs that the counter the code keeps in memory never
exceeds the failures that happened (`CountedRight`). `NoOvertaking` needs that
every row older than one in the batch is in the batch too, or was tried in
this pass (`InOrder`), which follows from what ORDER BY and LIMIT return
(`OldestRowsFact`). `BackoffInForce` needs more: the failure of a pass is forgotten
with the pass, so an event that failed must be tried again in the next one. If the
SELECT was not cut short before its row (`left_out`) it is, because at most `BatchSize` rows are not younger than it, itself among them
(`AtFront`): rows only leave from before it and come in behind it, and such a row is
in every batch (`FrontIsFetched`, an argument about cardinalities). During a pass it is
therefore still to be tried, a failure has been noted, or it was left out
(`FailureNoted`).

**MqttQueueProofs**, for every number of messages and rows, every configuration of topics
before and after a restart, and any number of faults and edits:

| theorem | states | rests on |
|---|---|---|
| `TypeCorrect` | `Spec => []TypeOK` | `Placed`, `Numbered` |
| `BufferIsRelay` | `Spec => RefinesRelay` | `Sound`, `Kept` |
| `TimeoutIsKept` | `Spec => TimeoutKept` | `Sound`, `ReadIsCurrent` |
| `OnceButForFaults` | `Spec => []EnqueuedTwiceNeedsFault` | `Sound`, `Excused` |
| `OlderNeedsFailure` | `Spec => OlderWinsOnlyAfterFailure` | `Sound`, `QueuedInOrder`, `NewestApplied` |

`Sound` is `TypeOK` with where the poll job is (`Placed`) and which messages rows can be
about (`Numbered`). `Kept` is the promise of the buffer: what was delivered is in the
table or has an outcome. `Excused` is an account: what a message has been put into
`event_items`, plus the rows that may still put it there (`Live`), plus one if the
broker may still deliver it (`Open`), never exceeds what faults have paid for by more than one.
`ReadIsCurrent` says that between the GET and the PUT of a policy the timeout is
what was read, unless somebody edited it. The order of updates needs two parts:
messages are queued in the order of the broker and rows are tried in theirs but for
faults (`QueuedInOrder`), and so nothing older than the user in force is still to
be applied but what a fault or a failed attempt of its own has delayed (`NewestApplied`). The poll
job's handlers are brought under three shapes first (`Settles`, `Defers`, `Proceeds`, in
`ProcessesShape`), so that each part is proved for shapes and not for handlers.

**MqttSessionProofs**, for every set of topics, number of messages of either quality of
service, contents of the certificate files, edits and faults:

| theorem | states | rests on |
|---|---|---|
| `TypeCorrect` | `Spec => []TypeOK` | `Placed` |
| `ReadinessIsEarned` | `Spec => []ReadyIsEarned` | `Sound`, `Earned` |
| `OrderIsKept` | `Spec => []JudgedInOrder` | `Sound`, `Behind` |
| `SessionIsRelay` | `Spec => RefinesRelay` | `Sound`, `Behind` |

`Earned` ties the counter of the probe to the topics this session was granted: equal
numbers of a finite set mean all of them, and the reset at the top of the loop
keeps the grants of former sessions out of it. `Behind` says that what a session has got over
with, and what the broker has let go of, is judged, as is everything before the message being
handled.

**KafkaProofs** proves for every number of agents, messages and faults
`TypeCorrect` and `OffsetNeverBack`, and for a group that has an offset
`TakenInOrder` and `PartitionIsRelay`. `OffsetNeverBack` rests on `Forward`, which holds
with an offset and without: the owner is never behind it, and only the owner
has a commit on its way. Without the last part a late commit of a former owner
would move the offset back. The other two rest on `Behind`, which adds that all behind
the offset has been taken, and so has all that an agent that handles a message, or
owns the partition, has left behind. They assume `GroupHasOffset` because they are false
without it: the first agent starts at the end of the log.

**MigrationProofs** and **DaemonProofs**, for files of every release, any number of crashes and
unreadable notes, and every set of command lines and clients:

| theorem | states | rests on |
|---|---|---|
| `MigrationProofs!TypeCorrect` | `Spec => []TypeOK` | `IInv` |
| `OnlyMigratedIsReady` | `Spec => []ReadyMeansMigrated` | `IInv` |
| `OnlyLeftEventsAreRefused` | `Spec => OnlyLeftEventsConflict` | `IInv`, `Faultless` |
| `DaemonTypeCorrect` | `DaemonSpec => []DaemonTypeOK` | `DaemonIInv` |
| `DaemonIsMigrated` | `DaemonSpec => []ReadyMeansMigrated` | `DaemonIInv` |
| `DaemonRefusesOnlyLeftEvents` | `DaemonSpec => OnlyLeftEventsConflict` | `DaemonIInv`, `Faultless` |
| `OptionsCanRetry` | `DaemonSpec => []EveryPathCanRetry` | `DaemonIInv` |
| `ReadinessIsTrue` | `DaemonSpec => []ReadyMeansConsuming` | `DaemonIInv` |

`IInv` says how far the file has come: the first v migrations are noted, and the schema is
that of v, or of v + 1 whose note was lost, or half of the second migration
(`Stored`); a migration that is being applied is either the next one on the schema it is
meant for (`Under`), or stuck for ever at its first statement (`Stuck`). That a repeated
migration cannot get past its first statement is `FitsFact`, which looks at each of the
five; a sixth would have to be added there. `Faultless` is the finer invariant of files no crash
has touched. `DaemonIInv` adds the jobs: from the moment they are spawned they are those
the options ask for, none of the loops ends while `running` holds, and the Kafka worker
never ends without its mark in the probe (`JobsAsWanted`). `OptionsCanRetry` then is a
fact about what `validate_mqtt_config` accepts. DaemonProofs takes the steps of
the database from MigrationProofs (`DatabaseNext`).

**HandlingProofs**, for all topics, filters, payloads, options, rules and widths:

| theorem | states | rests on |
|---|---|---|
| `TypeCorrect` | `Spec => []TypeOK` | `LevelTyped`: what a cast yields is in range |
| `CallsAreSubscribed` | `Spec => []CallIsSubscribed` | `Rightful`, `KindIsSubscribed` |
| `DeliveredAreHandled` | `Spec => []DeliveredIsHandled` | `IgnoredIsHeartbeat` |
| `TimeoutsAreOfLevel` | `Spec => []TimeoutIsOfLevel` | `Computed`, `LevelInReach` |
| `AlertsHaveSummaries` | `Spec => []AlertHasSummary` | `Computed`, `EventFields` |
| `TypesAreAsConfigured` | `Spec => []ConfiguredTypeIsSent` | `Computed`, `TypeOfValue` |

The first half is about filters: `MatchedIsSubscribed` and `SubscribedIsMatched` say
that `topic_filter_matches` and MQTT agree outside the broker's own topics, and
`LiteralMatch` that a filter without wildcards takes one topic. An event topic with a wildcard takes whatever is
left; it is right to because a delivered message was asked for by one of the
three and the other two have been asked (`KindIsSubscribed`). `Rightful` carries that
from the broker over the queue to the call, as long as the topics stay the same;
`Computed` says that a call holds what the algorithms make of the input.

**Only model-checked** are the liveness properties, which are out of TLAPS's reach:
`QueueDrains`, `HealthyLeave`, `EveryMessageJudged`, `EveryMessageTaken`,
`CleanStartCompletes`, `CertificateAdopted`, `ThreadEnds`, `LostWorkerEndsDaemon`,
`ShutdownEnds`, `RequestsLeave`. So are the four violated properties, which a
counterexample settles. `SchemaOf` is written as what the migrations add without what they
drop, not as the fold of their statements, because nothing can be proved here
about a fold over data; that the two agree is what `ExecutedFact` shows
for each migration.

## What is not modelled

Real time (intervals and backoffs are values or states, not durations), logging,
wording. The wall clock is taken not to run backwards: `inserted_at` is a counter.
QoS 2 and the bounded channel of acknowledgements (when it blocks depends on how many
packets rumqttc reads at once). Of an event its details, priority, images and links,
which pass as they are, and the conversion of a row and back. Of the command line
everything that only fills the configuration, and the one-shot commands
`event` and `heartbeat`, which make one request and exit. The timer of the
heartbeat job. The version check, whose answer is only logged. Where the brokers of
Kafka cannot be reached nothing in this code notices, and so the model does not
either.

## Plan

1. *Done*: Relay, EventQueue with proofs, MqttQueue, Kafka with proofs,
   Migration, MqttSession.
2. *Done*: Daemon, with the lock of the web context and the Kafka probe; Topics,
   PolicyShift and EventMapping with Handling and its proofs.
3. *Done*: the safety properties of MqttQueue, MqttSession, Migration and Daemon, and
   `BackoffInForce` with FiniteSetTheorems, proved.
4. Left: the safety halves of the liveness properties as invariants that can be proved,
   such as how many attempts an event may still have before `MaxRetries` ends it.
