------------------------------ MODULE MqttQueue ------------------------------
(***************************************************************************)
(* The buffered MQTT path (--mqtt_buffer, QoS 1): the consumer thread      *)
(* writes each message to the SQLite table mqtt_queue and acknowledges it  *)
(* to the broker (mqtt.rs); a poll job moves event messages on to          *)
(* event_items and applies policy messages to ilert with three API calls   *)
(* (poll.rs, policy.rs).  event_items itself is module EventQueue; here a  *)
(* counter says how often a message was put there.                         *)
(*                                                                         *)
(* Abstractions.  Messages are numbered in the order they are published,   *)
(* rows in the order they are inserted.  All policy messages name the same *)
(* existing level of the same escalation policy, each with a user of its   *)
(* own.  Poll intervals, retained in EventQueue, are left out.             *)
(***************************************************************************)
EXTENDS Naturals, FiniteSets

CONSTANTS
  MaxMessages,   \* bound on the messages published
  MaxRows,       \* bound on the rows inserted
  KindNow,       \* [Message -> Kinds], what the configured topics make of it
  KindAfter,     \* the same for the topics a restart may be configured with
  Filtered,      \* messages whose payload the handlers drop
  BatchSize,     \* MQTT_POLL_BATCH_SIZE
  MaxRetries,    \* --max_retries, 0 is unlimited
  MaxFaults,     \* bound on lost sessions, failed SQL statements and crashes
  MaxEdits,      \* bound on changes of the escalation timeout by others
  Answers        \* what the ilert API may answer

Message == 1..MaxMessages
Row == 1..MaxRows
Kinds == {"policy", "event", "ignored"}

(* "400" is every status but 200 that is not retried, and a 200 without the *)
(* field asked for; "500" is 429 and everything above 499.                  *)
AllAnswers == {"200", "400", "500", "network"}

ASSUME MessageAssumption ==
  /\ MaxMessages \in Nat
  /\ MaxRows \in Nat
  /\ KindNow \in [Message -> Kinds]
  /\ KindAfter \in [Message -> Kinds]
  /\ Filtered \subseteq Message
  /\ Answers \subseteq AllAnswers

ASSUME BoundAssumption ==
  /\ BatchSize \in Nat \ {0}
  /\ MaxRetries \in Nat
  /\ MaxFaults \in Nat
  /\ MaxEdits \in Nat

VARIABLES
  sent,            \* messages 1..sent have been published
  unacked,         \* messages the broker keeps for the agent
  delivered,       \* messages this session has handed to the consumer
  acks,            \* acknowledgements not yet written to the connection
  mqtt_queue,      \* the rows of the table
  message,         \* [Row -> message of the row], 0 before it was inserted
  last_row,        \* rows inserted so far
  pc,              \* "sleep", "process", "resolve", "update" or "delete"
  items,           \* rows of the fetched batch still to be processed
  current,         \* row being processed, 0 if none
  retry_counts,    \* [Row -> Nat], no entry is 0
  kind,            \* what the configured topics make of the messages
  timeout_read,    \* escalationTimeout of the policy that was resolved
  remote,          \* the level at ilert: its user, as a message, and timeout
  edits,           \* changes of the timeout by others so far
  event_rows,      \* [Message -> Nat], event_items rows inserted for it
  outcome,         \* history: how the processing of a message ended
  failures,        \* history: rows with a failed attempt
  excuses,         \* [Message -> Nat], history: faults that repeat its work
  edited,          \* history: the timeout was changed after it was read
  faults           \* faults so far

brokerVars == <<sent, unacked>>
sessionVars == <<delivered, acks>>
tableVars == <<mqtt_queue, message, last_row>>
pollVars == <<pc, items, current, retry_counts, kind, timeout_read>>
apiVars == <<remote, edits, edited>>
historyVars == <<outcome, failures, excuses>>
vars == <<brokerVars, sessionVars, tableVars, pollVars, apiVars, event_rows,
          historyVars, faults>>

Outcomes == {"Inserted", "Filtered", "ignored", "updated", "rejected",
             "network", "exhausted"}

CountCap == IF MaxRetries = 0 THEN 1 ELSE MaxRetries
Increment(n) == IF n < CountCap THEN n + 1 ELSE n

TypeOK ==
  /\ sent \in 0..MaxMessages
  /\ unacked \subseteq 1..sent
  /\ delivered \subseteq Message
  /\ acks \subseteq delivered
  /\ mqtt_queue \subseteq 1..last_row
  /\ message \in [Row -> 0..MaxMessages]
  /\ last_row \in 0..MaxRows
  /\ pc \in {"sleep", "process", "resolve", "update", "delete"}
  /\ items \subseteq Row
  /\ current \in 0..MaxRows
  /\ retry_counts \in [Row -> 0..CountCap]
  /\ kind \in [Message -> Kinds]
  /\ timeout_read \in 0..MaxEdits + 1
  /\ remote \in [user : 0..MaxMessages, timeout : 1..MaxEdits + 1]
  /\ edits \in 0..MaxEdits
  /\ edited \in BOOLEAN
  /\ event_rows \in [Message -> Nat]
  /\ outcome \in [Message -> SUBSET Outcomes]
  /\ failures \subseteq Row
  /\ excuses \in [Message -> Nat]
  /\ faults \in 0..MaxFaults

Init ==
  /\ sent = 0 /\ unacked = {} /\ delivered = {} /\ acks = {}
  /\ mqtt_queue = {} /\ message = [r \in Row |-> 0] /\ last_row = 0
  /\ pc = "sleep" /\ items = {} /\ current = 0
  /\ retry_counts = [r \in Row |-> 0]
  /\ kind = KindNow
  /\ timeout_read = 0
  /\ remote = [user |-> 0, timeout |-> 1]
  /\ edits = 0 /\ edited = FALSE
  /\ event_rows = [m \in Message |-> 0]
  /\ outcome = [m \in Message |-> {}]
  /\ failures = {}
  /\ excuses = [m \in Message |-> 0]
  /\ faults = 0

First(S) == CHOOSE n \in S : \A k \in S : n <= k

Fault ==
  /\ faults < MaxFaults
  /\ faults' = faults + 1

--------------------------------------------------------------------------------
(* The broker and the consumer thread.  The broker keeps a message until   *)
(* its acknowledgement arrives and hands a new session, in order, whatever *)
(* the last one left (clean_session is false, acknowledgements are manual).*)

Publish ==
  /\ sent < MaxMessages
  /\ sent' = sent + 1
  /\ unacked' = unacked \cup {sent'}
  /\ UNCHANGED <<sessionVars, tableVars, pollVars, apiVars, event_rows,
                 historyVars, faults>>

Undelivered == unacked \ delivered

Acknowledge(m) == acks' = acks \cup {m}

QueueMessage(m) ==
  /\ Undelivered # {} /\ m = First(Undelivered)
  /\ kind[m] # "ignored"
  /\ last_row < MaxRows
  /\ last_row' = last_row + 1
  /\ mqtt_queue' = mqtt_queue \cup {last_row'}
  /\ message' = [message EXCEPT ![last_row'] = m]
  /\ delivered' = delivered \cup {m}
  /\ Acknowledge(m)
  /\ UNCHANGED <<brokerVars, pollVars, apiVars, event_rows, historyVars, faults>>

(* A message the session still holds for a topic that is configured no more. *)
IgnoreMessage(m) ==
  /\ Undelivered # {} /\ m = First(Undelivered)
  /\ kind[m] = "ignored"
  /\ outcome' = [outcome EXCEPT ![m] = @ \cup {"ignored"}]
  /\ delivered' = delivered \cup {m}
  /\ Acknowledge(m)
  /\ UNCHANGED <<brokerVars, tableVars, pollVars, apiVars, event_rows, failures,
                 excuses, faults>>

(* The connection writes the oldest acknowledgement. *)
AckWritten ==
  /\ acks # {}
  /\ acks' = acks \ {First(acks)}
  /\ unacked' = unacked \ {First(acks)}
  /\ UNCHANGED <<sent, delivered, tableVars, pollVars, apiVars, event_rows,
                 historyVars, faults>>

(* What a new session repeats: messages whose acknowledgement was lost. *)
Repeats == [m \in Message |-> excuses[m] + IF m \in unacked \cap delivered
                                           THEN 1 ELSE 0]

(* Mutant: acknowledgements are carried over to the next session. *)
KeepAcks == delivered' = {} /\ excuses' = Repeats /\ UNCHANGED acks

LeaveSession ==
  /\ delivered' = {}
  /\ acks' = {}
  /\ excuses' = Repeats

SessionLost ==
  /\ Fault
  /\ LeaveSession
  /\ UNCHANGED <<brokerVars, tableVars, pollVars, apiVars, event_rows, outcome,
                 failures>>

(* Mutant: a row that could not be written is acknowledged all the same. *)
AckAnyway(m) ==
  /\ delivered' = delivered \cup {m}
  /\ Acknowledge(m)
  /\ UNCHANGED excuses

(* should_retry: the consumer leaves the session without acknowledging. *)
AfterInsertError(m) == LeaveSession

QueueMessageError(m) ==
  /\ Undelivered # {} /\ m = First(Undelivered)
  /\ kind[m] # "ignored"
  /\ Fault
  /\ AfterInsertError(m)
  /\ UNCHANGED <<brokerVars, tableVars, pollVars, apiVars, event_rows, outcome,
                 failures>>

--------------------------------------------------------------------------------
(* The poll job. *)

(* Mutant: ORDER BY inserted_at DESC. *)
NewestRows(S) ==
  {r \in S : Cardinality({s \in S : s > r}) < BatchSize}

OldestRows(S) ==
  {r \in S : Cardinality({s \in S : s < r}) < BatchSize}

Fetch(batch) ==
  /\ pc = "sleep"
  /\ batch # {}
  /\ items' = batch
  /\ pc' = "process"
  /\ UNCHANGED <<brokerVars, sessionVars, tableVars, current, retry_counts, kind,
                 timeout_read, apiVars, event_rows, historyVars>>

FetchRows == Fetch(OldestRows(mqtt_queue)) /\ UNCHANGED faults

(* A failing step of the SELECT is left out and ends it: the rows read     *)
(* before it pass for the batch.                                           *)
FetchCutShort ==
  /\ Fault
  /\ \E unread \in OldestRows(mqtt_queue) :
       Fetch({r \in OldestRows(mqtt_queue) : r < unread})

(* No row is read, or the SELECT fails: only the interval changes. *)
FetchNothing ==
  /\ pc = "sleep"
  /\ UNCHANGED vars

At(r, place) == r \in items /\ r = First(items) /\ pc = place

(* The poll job goes on to delete the row. *)
GoDelete(r, results) ==
  /\ retry_counts' = [retry_counts EXCEPT ![r] = 0]
  /\ outcome' = [outcome EXCEPT ![message[r]] = @ \cup results]
  /\ pc' = "delete"
  /\ current' = r
  /\ UNCHANGED items

(* should_retry is false. *)
Settle(r, results) == GoDelete(r, results) /\ UNCHANGED failures

(* Mutant: the limit is never reached. *)
ExhaustedNever(count) == MaxRetries > 0 /\ count > MaxRetries

Exhausted(count) == MaxRetries > 0 /\ count >= MaxRetries

(* should_retry is true: drop the row at the limit, or leave it for later. *)
Retry(r) ==
  LET count == Increment(retry_counts[r])
  IN /\ failures' = failures \cup {r}
     /\ \/ Exhausted(count) /\ GoDelete(r, {"exhausted"})
        \/ /\ ~Exhausted(count)
           /\ retry_counts' = [retry_counts EXCEPT ![r] = count]
           /\ items' = items \ {r}
           /\ pc' = "process"
           /\ UNCHANGED <<current, outcome>>

(* Mutant: an event that was inserted is retried. *)
RetryInserted(result) == result \in {"Inserted", "DbError"}

RetryEnqueue(result) == result = "DbError"

(* enqueue_event inserts and reads back under the lock of the connection.  *)
(* DbError: either statement failed, so the row may be there all the same. *)
EnqueueEvent(r, result) ==
  /\ At(r, "process")
  /\ kind[message[r]] = "event"
  /\ (result = "Filtered") <=> (message[r] \in Filtered)
  /\ \/ /\ result = "Filtered"
        /\ UNCHANGED <<event_rows, excuses, faults>>
     \/ /\ result = "Inserted"
        /\ event_rows' = [event_rows EXCEPT ![message[r]] = @ + 1]
        /\ UNCHANGED <<excuses, faults>>
     \/ /\ result = "DbError"
        /\ Fault
        /\ \/ UNCHANGED <<event_rows, excuses>>
           \/ /\ event_rows' = [event_rows EXCEPT ![message[r]] = @ + 1]
              /\ excuses' = [excuses EXCEPT ![message[r]] = @ + 1]
  /\ \/ RetryEnqueue(result) /\ Retry(r)
     \/ ~RetryEnqueue(result) /\ Settle(r, {result})
  /\ UNCHANGED <<brokerVars, sessionVars, tableVars, kind, timeout_read, apiVars>>

DropUnexpected(r) ==
  /\ At(r, "process")
  /\ kind[message[r]] = "ignored"
  /\ Settle(r, {"ignored"})
  /\ UNCHANGED <<brokerVars, sessionVars, tableVars, kind, timeout_read, apiVars,
                 event_rows, excuses, faults>>

DropFilteredPolicy(r) ==
  /\ At(r, "process")
  /\ kind[message[r]] = "policy"
  /\ message[r] \in Filtered
  /\ Settle(r, {"Filtered"})
  /\ UNCHANGED <<brokerVars, sessionVars, tableVars, kind, timeout_read, apiVars,
                 event_rows, excuses, faults>>

(* What the answer means to whoever published the message. *)
Judgement(a) ==
  CASE a = "200" -> {"updated"}
    [] a = "400" -> {"rejected"}
    [] a = "network" -> {"network"}
    [] OTHER -> {}

(* is_retryable_status; a network error is reported to it as status 0. *)
IsRetryable(a) == a = "500"

(* One of the three calls did not succeed. *)
CallFailed(r, a) ==
  /\ a # "200"
  /\ \/ IsRetryable(a) /\ Retry(r)
     \/ ~IsRetryable(a) /\ Settle(r, Judgement(a))

ResolveUser(r, a) ==
  /\ At(r, "process")
  /\ kind[message[r]] = "policy"
  /\ message[r] \notin Filtered
  /\ \/ /\ a = "200"
        /\ pc' = "resolve"
        /\ UNCHANGED <<items, current, retry_counts, outcome, failures>>
     \/ CallFailed(r, a)
  /\ UNCHANGED <<brokerVars, sessionVars, tableVars, kind, timeout_read, apiVars,
                 event_rows, excuses, faults>>

(* Mutant: the timeout of the level is not looked up. *)
DefaultTimeout(level) == 1

TimeoutOf(level) == level.timeout

ResolvePolicy(r, a) ==
  /\ At(r, "resolve")
  /\ \/ /\ a = "200"
        /\ timeout_read' = TimeoutOf(remote)
        /\ edited' = FALSE
        /\ pc' = "update"
        /\ UNCHANGED <<items, current, retry_counts, outcome, failures>>
     \/ /\ CallFailed(r, a)
        /\ UNCHANGED <<timeout_read, edited>>
  /\ UNCHANGED <<brokerVars, sessionVars, tableVars, kind, remote, edits,
                 event_rows, excuses, faults>>

(* The level is replaced; an error may hide that it was. *)
UpdateLevel(r, a, applied) ==
  /\ At(r, "update")
  /\ a = "200" => applied
  /\ a = "400" => ~applied
  /\ remote' = IF applied THEN [user |-> message[r], timeout |-> timeout_read]
                          ELSE remote
  /\ \/ a = "200" /\ Settle(r, Judgement(a))
     \/ CallFailed(r, a)
  /\ UNCHANGED <<brokerVars, sessionVars, tableVars, kind, timeout_read, edits,
                 edited, event_rows, excuses, faults>>

RemoveRow ==
  /\ pc = "delete"
  /\ mqtt_queue' = mqtt_queue \ {current}
  /\ items' = items \ {current}
  /\ current' = 0
  /\ pc' = "process"
  /\ UNCHANGED <<brokerVars, sessionVars, message, last_row, retry_counts, kind,
                 timeout_read, apiVars, event_rows, historyVars, faults>>

(* A row that is settled but kept is processed again. *)
RepeatedBy(r) ==
  IF r = 0 THEN excuses ELSE [excuses EXCEPT ![message[r]] = @ + 1]

RemoveRowError ==
  /\ pc = "delete"
  /\ Fault
  /\ excuses' = RepeatedBy(current)
  /\ items' = items \ {current}
  /\ current' = 0
  /\ pc' = "process"
  /\ UNCHANGED <<brokerVars, sessionVars, tableVars, retry_counts, kind,
                 timeout_read, apiVars, event_rows, outcome, failures>>

FinishPass ==
  /\ pc = "process"
  /\ items = {}
  /\ pc' = "sleep"
  /\ UNCHANGED <<brokerVars, sessionVars, tableVars, items, current, retry_counts,
                 kind, timeout_read, apiVars, event_rows, historyVars, faults>>

(* Somebody else edits the level. *)
EditTimeout ==
  /\ edits < MaxEdits
  /\ edits' = edits + 1
  /\ remote' = [remote EXCEPT !.timeout = edits' + 1]
  /\ edited' = TRUE
  /\ UNCHANGED <<brokerVars, sessionVars, tableVars, pollVars, event_rows,
                 historyVars, faults>>

(* The process dies; it may come back with other topics. *)
Crash ==
  /\ Fault
  /\ delivered' = {}
  /\ acks' = {}
  /\ excuses' = [m \in Message |->
                   Repeats[m] + RepeatedBy(current)[m] - excuses[m]]
  /\ pc' = "sleep"
  /\ items' = {}
  /\ current' = 0
  /\ retry_counts' = [r \in Row |-> 0]
  /\ kind' \in {KindNow, KindAfter}
  /\ timeout_read' = 0
  /\ UNCHANGED <<brokerVars, tableVars, apiVars, event_rows, outcome, failures>>

Consumer ==
  \/ \E m \in Message : QueueMessage(m) \/ IgnoreMessage(m)
  \/ AckWritten

PollJob ==
  \/ FetchRows
  \/ \E r \in Row :
       \/ \E result \in {"Inserted", "Filtered"} : EnqueueEvent(r, result)
       \/ DropUnexpected(r)
       \/ DropFilteredPolicy(r)
       \/ \E a \in Answers :
            \/ ResolveUser(r, a)
            \/ ResolvePolicy(r, a)
            \/ \E applied \in BOOLEAN : UpdateLevel(r, a, applied)
  \/ RemoveRow
  \/ FinishPass

Failure ==
  \/ FetchCutShort
  \/ SessionLost
  \/ \E m \in Message : QueueMessageError(m)
  \/ \E r \in Row : EnqueueEvent(r, "DbError")
  \/ RemoveRowError
  \/ Crash

Next == Publish \/ Consumer \/ PollJob \/ FetchNothing \/ EditTimeout \/ Failure

Spec == Init /\ [][Next]_vars

(* The consumer thread reads and writes its connection, and the poll job   *)
(* runs, as long as they can; every call they make ends.                   *)
FairSpec == Spec /\ WF_vars(Consumer) /\ WF_vars(PollJob)

--------------------------------------------------------------------------------
(* An event message is put into event_items once, and once more only for   *)
(* each fault that made the broker or the poll job repeat it: an           *)
(* acknowledgement that was lost, a failed DELETE, a crash before it, a     *)
(* read-back that failed after the INSERT.                                  *)
EnqueuedTwiceNeedsFault ==
  \A m \in Message : event_rows[m] <= excuses[m] + 1

(* Replacing the user of a level never changes its escalation timeout,     *)
(* unless somebody else did so since the policy was read: the PUT carries   *)
(* the timeout along (policy.rs:284-296).                                   *)
TimeoutKept ==
  [][remote'.timeout # remote.timeout => edits' # edits \/ edited]_vars

(* The user of an older message replaces that of a newer one only when the *)
(* older message has failed an attempt before, or was delivered twice.      *)
OlderWinsOnlyAfterFailure ==
  [][\A m \in Message :
       remote'.user = m /\ m < remote.user
         => excuses[m] > 0 \/ \E r \in failures : message[r] = m]_vars

(* Whatever ilert answers, each published message is judged in the end when *)
(* max_retries bounds the attempts: again and again nothing is left to be    *)
(* judged.                                                                   *)
EveryMessageJudged ==
  []<>(\A m \in 1..sent : outcome[m] # {})

(* policy.rs:137, 163, 194: "network error, treat as retryable".  A network *)
(* error does not end the processing of a message.                          *)
NetworkErrorRetried ==
  \A m \in Message : "network" \notin outcome[m]

--------------------------------------------------------------------------------
(* Broker and table together are a relay of messages: the broker holds a   *)
(* message until it is acknowledged, the table until its row is deleted.    *)
R == INSTANCE Relay WITH
       Message <- Message,
       Verdict <- Outcomes,
       seen <- 1..sent,
       held <- unacked \cup {message[r] : r \in mqtt_queue},
       verdicts <- outcome

RefinesRelay == R!Spec
================================================================================
