------------------------------ MODULE EventQueue ------------------------------
(***************************************************************************)
(* The event queue of the daemon: the SQLite table event_items, the HTTP   *)
(* handler that inserts into it (http_server.rs, over its own database     *)
(* connection) and the poll job that drains it towards the ilert API       *)
(* (poll.rs, over the shared connection).                                  *)
(*                                                                         *)
(* Abstractions.  An event is one POST /api/events request, or one message *)
(* the buffered MQTT queue hands over, with the row it creates; its        *)
(* content is only whether eventType and priority parse.                   *)
(* inserted_at, with SQLite's rowid between equal timestamps, is a         *)
(* counter: the wall clock is taken not to run backwards.  The time the    *)
(* poll job sleeps is not modelled, the interval it computes is.           *)
(***************************************************************************)
EXTENDS Naturals, FiniteSets

CONSTANTS
  Event,         \* the events posted to the agent
  Malformed,     \* those whose eventType or priority does not parse
  Poison,        \* those the API always answers with a server error
  ApiAnswer,     \* what the API may answer to the others
  BatchSize,     \* EVENT_POLL_BATCH_SIZE
  MaxRetries,    \* --max_retries, 0 is unlimited
  PollMin,       \* EVENT_POLL_MIN_MS
  PollMax,       \* EVENT_POLL_MAX_MS
  PollRetryMax,  \* EVENT_POLL_RETRY_MAX_MS
  MaxFaults,     \* bound on crashes, failed SQL statements and lost replies
  NoEvent        \* not an event

(* Status codes stand for their class: "400" is every code that is neither *)
(* 202, 404, 429 nor above 499.  "unreachable" and "reply_lost" are both   *)
(* the network error of execute(): the request did not, or did, get there. *)
AllAnswers == {"202", "404", "400", "429", "500", "unreachable", "reply_lost"}

ASSUME EventAssumption ==
  /\ NoEvent \notin Event
  /\ Malformed \subseteq Event
  /\ Poison \subseteq Event
  /\ ApiAnswer \subseteq AllAnswers

ASSUME LimitAssumption ==
  /\ BatchSize \in Nat \ {0}
  /\ MaxRetries \in Nat
  /\ MaxFaults \in Nat

ASSUME IntervalAssumption ==
  /\ PollMin \in Nat \ {0}
  /\ PollMax \in Nat
  /\ PollRetryMax \in Nat
  /\ 2 * PollMin <= PollMax
  /\ PollMax <= PollRetryMax

VARIABLES
  event_items,   \* the rows of the table
  inserted_at,   \* [Event -> Nat], 0 before the row was inserted
  last_insert,   \* the latest inserted_at handed out
  container,     \* event whose request holds the lock of the web context
  reply,         \* [Event -> what the poster was answered]
  pc,            \* where the poll job is: "sleep", "process" or "delete"
  items,         \* rows of the fetched batch still to be processed
  current,       \* the event whose row the poll job is about to delete
  retry_counts,  \* [Event -> Nat], no entry is 0
  had_failures,  \* an attempt of this pass failed
  interval_ms,   \* the poll interval
  faults,        \* faults so far, for MaxFaults
  left_out,      \* history: rows the last SELECT failed before
  verdicts,      \* history: how attempts on the event ended
  accepts,       \* history: how often the API accepted the event
  excuses,       \* history: faults that kept a judged or accepted row
  failures       \* history: failed attempts, saturating at CountCap

tableVars == <<event_items, inserted_at, last_insert>>
httpVars == <<container, reply>>
pollVars == <<pc, items, current, retry_counts, had_failures, interval_ms,
              left_out>>
historyVars == <<verdicts, accepts, excuses, failures>>
vars == <<tableVars, httpVars, pollVars, historyVars, faults>>

Replies == {"none", "200", "400", "500", "lost"}
Verdicts == {"accepted", "rejected", "exhausted"}

(* Counts above this cap are not told apart by the code. *)
CountCap == IF MaxRetries = 0 THEN 1 ELSE MaxRetries
Increment(n) == IF n < CountCap THEN n + 1 ELSE n

TypeOK ==
  /\ event_items \subseteq Event
  /\ inserted_at \in [Event -> Nat]
  /\ last_insert \in Nat
  /\ container \in Event \cup {NoEvent}
  /\ reply \in [Event -> Replies]
  /\ pc \in {"sleep", "process", "delete"}
  /\ items \subseteq Event
  /\ current \in Event \cup {NoEvent}
  /\ retry_counts \in [Event -> 0..CountCap]
  /\ had_failures \in BOOLEAN
  /\ interval_ms \in PollMin..PollRetryMax
  /\ faults \in 0..MaxFaults
  /\ left_out \subseteq Event
  /\ verdicts \in [Event -> SUBSET Verdicts]
  /\ accepts \in [Event -> Nat]
  /\ excuses \in [Event -> Nat]
  /\ failures \in [Event -> 0..CountCap]

Init ==
  /\ event_items = {}
  /\ inserted_at = [e \in Event |-> 0]
  /\ last_insert = 0
  /\ container = NoEvent
  /\ reply = [e \in Event |-> "none"]
  /\ pc = "sleep"
  /\ items = {}
  /\ current = NoEvent
  /\ retry_counts = [e \in Event |-> 0]
  /\ had_failures = FALSE
  /\ interval_ms = PollMax
  /\ faults = 0
  /\ left_out = {}
  /\ verdicts = [e \in Event |-> {}]
  /\ accepts = [e \in Event |-> 0]
  /\ excuses = [e \in Event |-> 0]
  /\ failures = [e \in Event |-> 0]

Inserted(e) == inserted_at[e] # 0

(* One more crash, failed SQL statement or lost reply. *)
Fault ==
  /\ faults < MaxFaults
  /\ faults' = faults + 1

--------------------------------------------------------------------------------
(* POST /api/events: validation, INSERT and, as a separate statement, the  *)
(* SELECT that reads the new row back.  The handler holds the lock of its  *)
(* container throughout, but not the lock of the poll job's connection.    *)

Unanswered(e) == reply[e] = "none" /\ container = NoEvent /\ ~Inserted(e)

InsertRow(e) ==
  /\ event_items' = event_items \cup {e}
  /\ last_insert' = last_insert + 1
  /\ inserted_at' = [inserted_at EXCEPT ![e] = last_insert']

PostEventInvalid(e) ==
  /\ Unanswered(e)
  /\ e \in Malformed
  /\ reply' = [reply EXCEPT ![e] = "400"]
  /\ UNCHANGED <<tableVars, container, pollVars, historyVars, faults>>

PostEventInsert(e) ==
  /\ Unanswered(e)
  /\ e \notin Malformed
  /\ InsertRow(e)
  /\ container' = e
  /\ UNCHANGED <<reply, pollVars, historyVars, faults>>

PostEventInsertFails(e) ==
  /\ Unanswered(e)
  /\ e \notin Malformed
  /\ Fault
  /\ reply' = [reply EXCEPT ![e] = "500"]
  /\ UNCHANGED <<tableVars, container, pollVars, historyVars>>

(* The SELECT finds no row when the poll job has already deleted it. *)
PostEventSelect(e) ==
  /\ container = e
  /\ reply' = [reply EXCEPT ![e] = IF e \in event_items THEN "200" ELSE "500"]
  /\ container' = NoEvent
  /\ UNCHANGED <<tableVars, pollVars, historyVars, faults>>

PostEventSelectFails(e) ==
  /\ container = e
  /\ Fault
  /\ reply' = [reply EXCEPT ![e] = "500"]
  /\ container' = NoEvent
  /\ UNCHANGED <<tableVars, pollVars, historyVars>>

(* enqueue_event, called by the buffered MQTT job: nothing is validated, and *)
(* INSERT and SELECT run under the lock the poll job needs for its DELETE.   *)
EnqueueEvent(e) ==
  /\ ~Inserted(e)
  /\ reply[e] = "none"
  /\ InsertRow(e)
  /\ UNCHANGED <<httpVars, pollVars, historyVars, faults>>

--------------------------------------------------------------------------------
(* The poll job: fetch a batch, send each row of it, delete what needs no  *)
(* retry, then choose the next interval.                                   *)

Older(e, f) == inserted_at[e] < inserted_at[f]

(* Mutant: ORDER BY inserted_at DESC. *)
NewestRows(S) ==
  {B \in SUBSET S :
     /\ Cardinality(B) = IF BatchSize < Cardinality(S)
                         THEN BatchSize ELSE Cardinality(S)
     /\ \A e \in B, f \in S \ B : Older(f, e)}

(* The batches get_il_events(BatchSize) may return of the rows S. *)
OldestRows(S) ==
  {B \in SUBSET S :
     /\ Cardinality(B) = IF BatchSize < Cardinality(S)
                         THEN BatchSize ELSE Cardinality(S)
     /\ \A e \in B, f \in S \ B : Older(e, f)}

FetchEvents ==
  /\ pc = "sleep"
  /\ event_items # {}
  /\ items' \in OldestRows(event_items)
  /\ left_out' = {}
  /\ had_failures' = FALSE
  /\ pc' = "process"
  /\ UNCHANGED <<tableVars, httpVars, current, retry_counts, interval_ms,
                 historyVars, faults>>

FetchNothing ==
  /\ pc = "sleep"
  /\ event_items = {}
  /\ interval_ms' = PollMax
  /\ UNCHANGED <<tableVars, httpVars, pc, items, current, retry_counts,
                 had_failures, left_out, historyVars, faults>>

(* A failing step of the SELECT is filtered out and ends it: the rows read *)
(* before it are the batch, and pass for a whole one.                      *)
FetchCutShort ==
  /\ pc = "sleep"
  /\ Fault
  /\ \E batch \in OldestRows(event_items) : \E unread \in batch :
       /\ items' = {e \in batch : Older(e, unread)}
       /\ left_out' = batch \ items'
  /\ items' # {}
  /\ had_failures' = FALSE
  /\ pc' = "process"
  /\ UNCHANGED <<tableVars, httpVars, current, retry_counts, interval_ms,
                 historyVars>>

(* The same at the first row: nothing is read, as if the table were empty. *)
FetchUnreadable ==
  /\ pc = "sleep"
  /\ event_items # {}
  /\ Fault
  /\ interval_ms' = PollMax
  /\ UNCHANGED <<tableVars, httpVars, pc, items, current, retry_counts,
                 had_failures, left_out, historyVars>>

(* Mutant: doubling without the cap. *)
BackoffUncapped == 2 * interval_ms

Backoff == IF 2 * interval_ms < PollRetryMax THEN 2 * interval_ms ELSE PollRetryMax

FetchError ==
  /\ pc = "sleep"
  /\ Fault
  /\ interval_ms' = Backoff
  /\ UNCHANGED <<tableVars, httpVars, pc, items, current, retry_counts,
                 had_failures, left_out, historyVars>>

AnswersTo(e) ==
  CASE e \in Malformed -> {"unparsable"}
    [] e \in Poison \ Malformed -> {"500"}
    [] OTHER -> ApiAnswer

(* Mutants: 429 treated like the other client errors; 202 not recognised. *)
RetryNot429(a) == a \in {"500", "unreachable", "reply_lost"}
Retry202(a) == a \in {"202", "429", "500", "unreachable", "reply_lost"}

(* What send_queued_event returns for the answer. *)
ShouldRetry(a) == a \in {"429", "500", "unreachable", "reply_lost"}

(* What the answer means to whoever posted the event. *)
Judgement(a) ==
  CASE a \in {"202", "reply_lost"} -> {"accepted"}
    [] a \in {"404", "400", "unparsable"} -> {"rejected"}
    [] OTHER -> {}

(* Mutants: the limit is reached one attempt early; it is never reached. *)
ExhaustedEarly(n) == MaxRetries > 0 /\ n + 1 >= MaxRetries
ExhaustedNever(n) == MaxRetries > 0 /\ n > MaxRetries

Exhausted(n) == MaxRetries > 0 /\ n >= MaxRetries

(* Mutant: only the last attempt of the pass counts. *)
LastAttempt(failed) == failed

HadFailures(failed) == had_failures \/ failed

(* Mutant: a failed attempt ends the pass. *)
EndPass(e) == {}

RestOfBatch(e) == items \ {e}

(* The attempt itself, before its result is looked at. *)
Attempt(e, a) ==
  /\ pc = "process"
  /\ e \in items
  /\ \A f \in items \ {e} : Older(e, f)
  /\ accepts' = [accepts EXCEPT ![e] = IF "accepted" \in Judgement(a)
                                       THEN @ + 1 ELSE @]
  /\ IF a = "reply_lost"
     THEN Fault /\ excuses' = [excuses EXCEPT ![e] = @ + 1]
     ELSE UNCHANGED <<excuses, faults>>
  /\ UNCHANGED <<tableVars, httpVars, interval_ms, left_out>>

(* The poll job goes on to delete the row of e. *)
GoDelete(e) ==
  /\ retry_counts' = [retry_counts EXCEPT ![e] = 0]
  /\ pc' = "delete"
  /\ current' = e
  /\ UNCHANGED items

SendSettled(e, a) ==
  /\ Attempt(e, a)
  /\ ~ShouldRetry(a)
  /\ GoDelete(e)
  /\ had_failures' = HadFailures(FALSE)
  /\ verdicts' = [verdicts EXCEPT ![e] = @ \cup Judgement(a)]
  /\ UNCHANGED failures

SendFailed(e, a) ==
  /\ Attempt(e, a)
  /\ ShouldRetry(a)
  /\ failures' = [failures EXCEPT ![e] = Increment(@)]

(* Dropped at the limit: this failure does not count as one of the pass. *)
SendExhausted(e, a) ==
  /\ SendFailed(e, a)
  /\ Exhausted(Increment(retry_counts[e]))
  /\ GoDelete(e)
  /\ verdicts' = [verdicts EXCEPT ![e] = @ \cup Judgement(a) \cup {"exhausted"}]
  /\ UNCHANGED had_failures

SendRetry(e, a) ==
  /\ SendFailed(e, a)
  /\ ~Exhausted(Increment(retry_counts[e]))
  /\ retry_counts' = [retry_counts EXCEPT ![e] = Increment(@)]
  /\ items' = RestOfBatch(e)
  /\ had_failures' = HadFailures(TRUE)
  /\ verdicts' = [verdicts EXCEPT ![e] = @ \cup Judgement(a)]
  /\ UNCHANGED <<pc, current>>

SendEvent(e, a) == SendSettled(e, a) \/ SendExhausted(e, a) \/ SendRetry(e, a)

RemoveEvent ==
  /\ pc = "delete"
  /\ event_items' = event_items \ {current}
  /\ items' = items \ {current}
  /\ current' = NoEvent
  /\ pc' = "process"
  /\ UNCHANGED <<inserted_at, last_insert, httpVars, retry_counts, had_failures,
                 interval_ms, left_out, historyVars, faults>>

(* A DELETE that fails is only logged: it is no failure of the pass. *)
RemoveEventError ==
  /\ pc = "delete"
  /\ Fault
  /\ excuses' = [excuses EXCEPT ![current] = @ + 1]
  /\ items' = items \ {current}
  /\ current' = NoEvent
  /\ pc' = "process"
  /\ UNCHANGED <<tableVars, httpVars, retry_counts, had_failures, interval_ms,
                 left_out, verdicts, accepts, failures>>

NextInterval == IF had_failures THEN Backoff ELSE PollMin

FinishPass ==
  /\ pc = "process"
  /\ items = {}
  /\ interval_ms' = NextInterval
  /\ pc' = "sleep"
  /\ UNCHANGED <<tableVars, httpVars, items, current, retry_counts, had_failures,
                 left_out, historyVars, faults>>

(* The process dies and is started again: the table survives, the retry  *)
(* counters do not, and whoever was being served never gets an answer.   *)
Crash ==
  /\ Fault
  /\ reply' = [e \in Event |-> IF e = container THEN "lost" ELSE reply[e]]
  /\ container' = NoEvent
  /\ excuses' = [e \in Event |-> IF e = current THEN excuses[e] + 1 ELSE excuses[e]]
  /\ pc' = "sleep"
  /\ items' = {}
  /\ current' = NoEvent
  /\ retry_counts' = [e \in Event |-> 0]
  /\ had_failures' = FALSE
  /\ interval_ms' = PollMax
  /\ left_out' = {}
  /\ UNCHANGED <<tableVars, verdicts, accepts, failures>>

PollJob ==
  \/ FetchEvents
  \/ FetchNothing
  \/ \E e \in Event : \E a \in AnswersTo(e) : SendEvent(e, a)
  \/ RemoveEvent
  \/ FinishPass

Next ==
  \/ \E e \in Event :
       \/ PostEventInvalid(e)
       \/ PostEventInsert(e)
       \/ PostEventInsertFails(e)
       \/ PostEventSelect(e)
       \/ PostEventSelectFails(e)
       \/ EnqueueEvent(e)
  \/ PollJob
  \/ FetchCutShort
  \/ FetchUnreadable
  \/ FetchError
  \/ RemoveEventError
  \/ Crash

Spec == Init /\ [][Next]_vars

(* The runtime runs the poll job as long as it can take a step, and every *)
(* call it makes ends.                                                     *)
FairSpec == Spec /\ WF_vars(PollJob)

--------------------------------------------------------------------------------
(* A row leaves the table only with a verdict, and a poster told "200" has *)
(* a row or a verdict: poll.rs deletes after the attempt it belongs to,    *)
(* whatever crashes, failed statements and lost replies come in between.   *)
NoSilentLoss ==
  \A e \in Event :
    Inserted(e) \/ reply[e] = "200" => e \in event_items \/ verdicts[e] # {}

(* The API accepts an event once, and once more only for each fault that  *)
(* kept the agent from noting the acceptance (a lost reply, a failed       *)
(* DELETE, a crash between reply and DELETE).                              *)
DuplicateNeedsFault ==
  \A e \in Event : accepts[e] <= excuses[e] + 1

(* Only an event that really failed max_retries times is given up, and    *)
(* none is when max_retries is 0; a restart may add attempts, never take   *)
(* some away.                                                              *)
ExhaustedMeansTried ==
  \A e \in Event :
    "exhausted" \in verdicts[e] => MaxRetries > 0 /\ failures[e] >= MaxRetries

(* The poll job backs off: it sleeps for the short interval while an event *)
(* that failed in this life of the process waits in the table only when it  *)
(* has not read that row, because its last SELECT failed before it          *)
(* (db.rs:288-301): it then delivers the rows it did read and takes the     *)
(* pass for one without failures.                                           *)
BackoffInForce ==
  pc = "sleep" /\ (\E e \in event_items \ left_out : retry_counts[e] > 0)
    => interval_ms >= 2 * PollMin

(* The API accepts no event while an older one waits in the table that has *)
(* neither failed an attempt nor been judged: first in, first tried.        *)
NoOvertaking ==
  [][\A e \in Event, f \in event_items :
       accepts'[e] # accepts[e] /\ Older(f, e)
         => failures[f] > 0 \/ verdicts[f] # {}]_vars

(* Every row leaves the table in the end, whatever the API answers, when   *)
(* max_retries bounds the attempts: the events are finitely many and are     *)
(* inserted once, so the table is empty again and again.                     *)
QueueDrains == []<>(event_items = {})

(* With unlimited retries an event the API would take is not held up by    *)
(* fewer poisoned ones than a batch has places.                            *)
HealthyLeave ==
  \A e \in Event \ Poison : e \in event_items ~> e \notin event_items

(* What http_server.rs answers and logs with status 500 ("Failed to create *)
(* event."): the event is not in the queue and the API has not seen it.     *)
ErrorMeansNotCreated ==
  \A e \in Event : reply[e] = "500" => ~Inserted(e)

--------------------------------------------------------------------------------
(* The event queue is a relay of events. *)
R == INSTANCE Relay WITH
       Message <- Event,
       Verdict <- Verdicts,
       seen <- {e \in Event : Inserted(e)},
       held <- event_items

(* The table implements the relay: rows are the messages held. *)
RefinesRelay == R!Spec
================================================================================
