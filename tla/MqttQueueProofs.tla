--------------------------- MODULE MqttQueueProofs ---------------------------
(***************************************************************************)
(* What MqttQueue promises for every number of messages and rows, every    *)
(* configuration of topics before and after a restart, every batch size    *)
(* and retry limit, and any number of faults and edits.                    *)
(***************************************************************************)
EXTENDS MqttQueue, FiniteSetTheorems, WellFoundedInduction, TLAPS

(* CHOOSE finds the least of a set of numbers. *)
LEMMA FirstFact ==
  ASSUME NEW S \in SUBSET Nat, S # {}
  PROVE  First(S) \in S /\ \A k \in S : First(S) <= k
<1> DEFINE Less == {pair \in Nat \X Nat : pair[1] < pair[2]}
<1>1. IsWellFoundedOn(Less, Nat)
  BY NatLessThanWellFounded DEF OpToRel
<1>2. \E n \in S : \A k \in S : ~(<<k, n>> \in Less)
  <2> HIDE DEF Less
  <2> QED
    BY <1>1, WFMin
<1>3. PICK n \in S : \A k \in S : ~(<<k, n>> \in Less)
  BY <1>2
<1>4. ASSUME NEW k \in S PROVE n <= k
  <2>1. k \in Nat /\ n \in Nat
    OBVIOUS
  <2>2. ~(k < n)
    BY <1>3, <2>1
  <2> QED
    BY <2>1, <2>2
<1> QED
  BY <1>4 DEF First

(* The retry limit as a count is positive, and Increment stays below it. *)
LEMMA CountCapType == CountCap \in Nat \ {0}
  BY BoundAssumption DEF CountCap

LEMMA IncrementType ==
  ASSUME NEW n \in 0..CountCap
  PROVE  Increment(n) \in 0..CountCap
  BY CountCapType DEF Increment

LEMMA FaultType ==
  ASSUME faults \in 0..MaxFaults, Fault
  PROVE  faults' \in 0..MaxFaults
  BY BoundAssumption DEF Fault

(* A batch is made of rows of the table, and leaves out no older row. *)
LEMMA OldestRowsFact ==
  ASSUME NEW S \in SUBSET Row
  PROVE  /\ OldestRows(S) \subseteq S
         /\ \A g \in OldestRows(S) : \A f \in S : f < g => f \in OldestRows(S)
<1>1. ASSUME NEW g \in OldestRows(S), NEW f \in S, f < g
      PROVE  f \in OldestRows(S)
  <2> DEFINE Before(r) == {s \in S : s < r}
  <2>1. g \in S /\ f \in Nat /\ g \in Nat /\ S \subseteq Nat
    BY DEF OldestRows, Row
  <2>2. IsFiniteSet(S)
    <3>1. MaxRows \in Int /\ 1 \in Int
      BY MessageAssumption
    <3>2. IsFiniteSet(Row)
      BY <3>1, FS_Interval DEF Row
    <3> QED
      BY <3>2, FS_Subset
  <2>3. IsFiniteSet(Before(g)) /\ Cardinality(Before(g)) \in Nat
    BY <2>2, FS_Subset, FS_CardinalityType
  <2>4. Before(f) \in SUBSET Before(g)
    <3> SUFFICES ASSUME NEW s \in S, s < f PROVE s < g
      OBVIOUS
    <3>1. s \in Nat
      BY <2>1
    <3> QED
      BY <1>1, <2>1, <3>1
  <2>5. /\ Cardinality(Before(f)) \in Nat
        /\ Cardinality(Before(f)) <= Cardinality(Before(g))
    BY <2>3, <2>4, FS_Subset, FS_CardinalityType
  <2>6. Cardinality(Before(g)) < BatchSize
    BY DEF OldestRows
  <2> QED
    BY <2>3, <2>5, <2>6, BoundAssumption DEF OldestRows
<1> QED
  BY <1>1 DEF OldestRows

(* A message is open while the broker may still hand it to a session, or has *)
(* yet to be given it.                                                      *)
Open(m) == m > sent \/ m \in Undelivered

(* The rows that may still put the message of the row into event_items. *)
Live(m) == {r \in mqtt_queue : r # current /\ message[r] = m}

(***************************************************************************)
(* The inductive invariant, in parts.  Where the poll job is decides what  *)
(* it still owes: the rows of its batch are in the table, and it stands    *)
(* before a DELETE only with an outcome.                                    *)
(***************************************************************************)
Placed ==
  /\ items \subseteq mqtt_queue
  /\ pc = "sleep" => items = {}
  /\ pc = "delete" => current \in items /\ outcome[message[current]] # {}
  /\ pc # "delete" => current = 0
  /\ pc = "update" => timeout_read # 0

(* Rows, sessions and failures are about messages that were published. *)
Numbered ==
  /\ delivered \subseteq 1..sent
  /\ \A r \in 1..last_row : message[r] \in 1..sent
  /\ failures \subseteq 1..last_row

(* What was delivered is in the table, or has an outcome. *)
Kept ==
  \A m \in delivered : outcome[m] # {} \/ \E r \in mqtt_queue : message[r] = m

(* Each row yet to be processed, and the next delivery, is paid for. *)
Excused ==
  \A m \in Message :
    event_rows[m] + Cardinality(Live(m)) + (IF Open(m) THEN 1 ELSE 0)
      <= excuses[m] + 1

(* Nobody has changed the timeout since the policy was read. *)
ReadIsCurrent == pc = "update" /\ ~edited => timeout_read = remote.timeout

(* Faults and failed attempts let a message fall behind newer ones. *)
Delayed(m) == excuses[m] > 0 \/ \E r \in failures : message[r] = m

(* Messages were queued in their order, and rows are tried in theirs. *)
QueuedInOrder ==
  /\ \A r \in 1..last_row : \A m \in Message :
       m < message[r] /\ Open(m) => excuses[m] > 0
  /\ \A s \in 1..last_row : \A r \in 1..s :
       message[s] < message[r] => excuses[message[s]] > 0
  /\ \A g \in items : \A f \in mqtt_queue :
       f < g => f \in items \/ Delayed(message[f])

(* Nothing older than the user of the level is still to be applied. *)
NewestApplied ==
  \A m \in Message :
    m < remote.user => Delayed(m) \/ (~Open(m) /\ Live(m) = {})

--------------------------------------------------------------------------------
(***************************************************************************)
(* The steps of the poll job on a row, and what becomes of the row: it is  *)
(* settled, left for a later pass, or the next call is made.               *)
(***************************************************************************)
Processes(r) ==
  \/ \E result \in {"Inserted", "Filtered", "DbError"} : EnqueueEvent(r, result)
  \/ DropUnexpected(r)
  \/ DropFilteredPolicy(r)
  \/ \E a \in Answers :
       \/ ResolveUser(r, a)
       \/ ResolvePolicy(r, a)
       \/ \E applied \in BOOLEAN : UpdateLevel(r, a, applied)

Settles(r) ==
  \E results \in (SUBSET Outcomes) \ {{}} :
    GoDelete(r, results) /\ failures' \in {failures, failures \cup {r}}

Defers(r) ==
  /\ failures' = failures \cup {r}
  /\ retry_counts' = [retry_counts EXCEPT ![r] = Increment(retry_counts[r])]
  /\ items' = items \ {r}
  /\ pc' = "process"
  /\ UNCHANGED <<current, outcome>>

Proceeds(r) ==
  /\ pc' \in {"resolve", "update"}
  /\ pc' = "update" => timeout_read' = remote'.timeout
  /\ UNCHANGED <<items, current, retry_counts, outcome, failures>>

LEMMA RetryShape ==
  ASSUME NEW r, Retry(r)
  PROVE  Settles(r) \/ Defers(r)
<1> DEFINE count == Increment(retry_counts[r])
<1>1. CASE Exhausted(count) /\ GoDelete(r, {"exhausted"})
  <2>1. {"exhausted"} \in (SUBSET Outcomes) \ {{}}
    BY DEF Outcomes
  <2> QED
    BY <1>1, <2>1 DEF Retry, Settles
<1>2. CASE ~(Exhausted(count) /\ GoDelete(r, {"exhausted"}))
  BY <1>2 DEF Retry, Defers
<1> QED
  BY <1>1, <1>2

LEMMA SettleShape ==
  ASSUME NEW r, NEW results \in (SUBSET Outcomes) \ {{}}, Settle(r, results)
  PROVE  Settles(r)
  BY DEF Settle, Settles

LEMMA CallFailedShape ==
  ASSUME NEW r, NEW a \in Answers, CallFailed(r, a)
  PROVE  Settles(r) \/ Defers(r)
<1>1. a \in {"400", "500", "network"}
  BY MessageAssumption DEF CallFailed, AllAnswers
<1>2. CASE IsRetryable(a) /\ Retry(r)
  BY <1>2, RetryShape
<1>3. CASE ~IsRetryable(a) /\ Settle(r, Judgement(a))
  <2>1. Judgement(a) \in (SUBSET Outcomes) \ {{}}
    BY <1>1, <1>3 DEF IsRetryable, Judgement, Outcomes
  <2> QED
    BY <1>3, <2>1, SettleShape
<1> QED
  BY <1>2, <1>3 DEF CallFailed

LEMMA ProcessesShape ==
  ASSUME NEW r, Processes(r)
  PROVE  /\ r \in items /\ r = First(items)
         /\ pc \in {"process", "resolve", "update"}
         /\ UNCHANGED <<brokerVars, sessionVars, tableVars, kind, edits>>
         /\ Settles(r) \/ Defers(r) \/ Proceeds(r)
<1>1. ASSUME NEW result \in {"Inserted", "Filtered", "DbError"}, EnqueueEvent(r, result)
      PROVE  Settles(r) \/ Defers(r)
  <2>1. CASE RetryEnqueue(result) /\ Retry(r)
    BY <2>1, RetryShape
  <2>2. CASE ~RetryEnqueue(result) /\ Settle(r, {result})
    <3>1. {result} \in (SUBSET Outcomes) \ {{}}
      BY <2>2 DEF RetryEnqueue, Outcomes
    <3> QED
      BY <2>2, <3>1, SettleShape
  <2> QED
    BY <1>1, <2>1, <2>2 DEF EnqueueEvent
<1>2. ASSUME DropUnexpected(r) PROVE Settles(r)
  <2>1. {"ignored"} \in (SUBSET Outcomes) \ {{}}
    BY DEF Outcomes
  <2>2. Settle(r, {"ignored"})
    BY <1>2 DEF DropUnexpected
  <2> QED
    BY <2>1, <2>2, SettleShape
<1>3. ASSUME DropFilteredPolicy(r) PROVE Settles(r)
  <2>1. {"Filtered"} \in (SUBSET Outcomes) \ {{}}
    BY DEF Outcomes
  <2>2. Settle(r, {"Filtered"})
    BY <1>3 DEF DropFilteredPolicy
  <2> QED
    BY <2>1, <2>2, SettleShape
<1>4. ASSUME NEW a \in Answers, ResolveUser(r, a) \/ ResolvePolicy(r, a)
      PROVE  Settles(r) \/ Defers(r) \/ Proceeds(r)
  BY <1>4, CallFailedShape DEF ResolveUser, ResolvePolicy, TimeoutOf, Proceeds
<1>5. ASSUME NEW a \in Answers, NEW applied \in BOOLEAN, UpdateLevel(r, a, applied)
      PROVE  Settles(r) \/ Defers(r)
  <2>1. CASE a = "200" /\ Settle(r, Judgement(a))
    <3>1. Judgement(a) \in (SUBSET Outcomes) \ {{}}
      BY <2>1 DEF Judgement, Outcomes
    <3> QED
      BY <2>1, <3>1, SettleShape
  <2>2. CASE CallFailed(r, a)
    BY <2>2, CallFailedShape
  <2> QED
    BY <1>5, <2>1, <2>2 DEF UpdateLevel
<1>6. Settles(r) \/ Defers(r) \/ Proceeds(r)
  BY <1>1, <1>2, <1>3, <1>4, <1>5 DEF Processes
<1>7. /\ r \in items /\ r = First(items)
      /\ pc \in {"process", "resolve", "update"}
      /\ UNCHANGED <<brokerVars, sessionVars, tableVars, kind, edits>>
  BY DEF Processes, EnqueueEvent, DropUnexpected, DropFilteredPolicy, ResolveUser,
         ResolvePolicy, UpdateLevel, At, apiVars
<1> QED
  BY <1>6, <1>7

(* A fetch takes the rows of a batch, or those before one of it. *)
Fetches ==
  /\ Fetch(items')
  /\ \/ items' = OldestRows(mqtt_queue)
     \/ \E r \in mqtt_queue : items' = {s \in OldestRows(mqtt_queue) : s < r}
  /\ UNCHANGED faults \/ Fault

(* Its batch is made of rows of the table and leaves out no older row. *)
LEMMA FetchesFact ==
  ASSUME TypeOK, Fetches
  PROVE  /\ mqtt_queue \subseteq Row
         /\ items' \subseteq mqtt_queue
         /\ \A g \in items' : \A f \in mqtt_queue : f < g => f \in items'
<1>1. mqtt_queue \subseteq Row /\ Row \subseteq Nat
  BY MessageAssumption DEF TypeOK, Row
<1>2. /\ OldestRows(mqtt_queue) \subseteq mqtt_queue
      /\ \A g \in OldestRows(mqtt_queue) : \A f \in mqtt_queue :
            f < g => f \in OldestRows(mqtt_queue)
  BY <1>1, OldestRowsFact
<1>3. CASE items' = OldestRows(mqtt_queue)
  BY <1>1, <1>2, <1>3
<1>4. ASSUME NEW r \in mqtt_queue, items' = {s \in OldestRows(mqtt_queue) : s < r}
      PROVE  \A g \in items' : \A f \in mqtt_queue : f < g => f \in items'
  <2> SUFFICES ASSUME NEW g \in items', NEW f \in mqtt_queue, f < g
               PROVE  f \in items'
    OBVIOUS
  <2>1. g \in OldestRows(mqtt_queue) /\ g < r
    BY <1>4
  <2>2. f \in Nat /\ g \in Nat /\ r \in Nat
    BY <1>1, <1>2, <2>1
  <2>3. f \in OldestRows(mqtt_queue) /\ f < r
    BY <1>2, <2>1, <2>2
  <2> QED
    BY <1>4, <2>3
<1> QED
  BY <1>1, <1>2, <1>3, <1>4 DEF Fetches

(* The ways a step can go. *)
LEMMA NextCases ==
  ASSUME [Next]_vars
  PROVE  \/ Publish
         \/ \E m \in Message : QueueMessage(m) \/ IgnoreMessage(m)
         \/ AckWritten
         \/ Fetches
         \/ \E r \in Row : Processes(r)
         \/ RemoveRow
         \/ FinishPass
         \/ EditTimeout
         \/ SessionLost \/ \E m \in Message : QueueMessageError(m)
         \/ RemoveRowError
         \/ Crash
         \/ UNCHANGED vars
<1>1. PollJob => \/ Fetches \/ RemoveRow \/ FinishPass
                 \/ \E r \in Row : Processes(r)
  <2>1. FetchRows => Fetches
    BY DEF FetchRows, Fetches, Fetch
  <2> QED
    BY <2>1 DEF PollJob, Processes
<1>2. Failure => \/ Fetches \/ SessionLost \/ \E m \in Message : QueueMessageError(m)
                 \/ RemoveRowError \/ Crash
                 \/ \E r \in Row : Processes(r)
  <2>1. FetchCutShort => Fetches
    <3> SUFFICES ASSUME FetchCutShort PROVE Fetches
      OBVIOUS
    <3>1. PICK r \in OldestRows(mqtt_queue) :
            Fetch({s \in OldestRows(mqtt_queue) : s < r})
      BY DEF FetchCutShort
    <3>2. r \in mqtt_queue
      BY DEF OldestRows
    <3>3. items' = {s \in OldestRows(mqtt_queue) : s < r} /\ Fetch(items')
      BY <3>1 DEF Fetch
    <3> QED
      BY <3>2, <3>3 DEF Fetches, FetchCutShort
  <2> QED
    BY <2>1 DEF Failure, Processes
<1> QED
  BY <1>1, <1>2 DEF Next, Consumer, FetchNothing

--------------------------------------------------------------------------------
(* Every variable keeps its type; an acknowledgement belongs to a message   *)
(* of this session.                                                         *)
LEMMA TypeInit == Init => TypeOK /\ Placed /\ Numbered
<1> SUFFICES ASSUME Init PROVE TypeOK /\ Placed /\ Numbered
  OBVIOUS
<1>1. edited \in BOOLEAN
  BY Zenon DEF Init
<1>2. 0 \in 0..CountCap /\ 0 \in 0..MaxFaults /\ 0 \in 0..MaxRows /\ 0 \in 0..MaxMessages
  BY CountCapType, BoundAssumption, MessageAssumption
<1>3. 0 \in 0..MaxEdits + 1 /\ 1 \in 1..MaxEdits + 1 /\ 0 \in 0..MaxEdits
  BY BoundAssumption
<1>4. TypeOK
  BY <1>1, <1>2, <1>3, MessageAssumption DEF Init, TypeOK
<1>5. Placed
  BY DEF Init, Placed
<1>6. Numbered
  BY DEF Init, Numbered
<1> QED
  BY <1>4, <1>5, <1>6

LEMMA LeaveType ==
  ASSUME TypeOK
  PROVE  /\ Repeats \in [Message -> Nat]
         /\ \A m \in Message : Repeats[m] >= excuses[m]
         /\ RepeatedBy(current) \in [Message -> Nat]
         /\ \A m \in Message : RepeatedBy(current)[m] >= excuses[m]
<1>1. Repeats \in [Message -> Nat] /\ \A m \in Message : Repeats[m] >= excuses[m]
  BY DEF TypeOK, Repeats
<1>2. RepeatedBy(current) \in [Message -> Nat]
  <2>1. excuses \in [Message -> Nat]
    BY DEF TypeOK
  <2>2. \A n \in Message : excuses[n] + 1 \in Nat
    BY <2>1
  <2> QED
    BY <2>1, <2>2 DEF RepeatedBy
<1>3. \A m \in Message : RepeatedBy(current)[m] >= excuses[m]
  BY DEF TypeOK, RepeatedBy
<1> QED
  BY <1>1, <1>2, <1>3

LEMMA TypeProcesses ==
  ASSUME TypeOK, Placed, NEW r \in Row, Processes(r)
  PROVE  TypeOK'
<1>1. /\ UNCHANGED <<brokerVars, sessionVars, tableVars, kind, edits>>
      /\ Settles(r) \/ Defers(r) \/ Proceeds(r)
  BY ProcessesShape
<1>2. /\ pc' \in {"sleep", "process", "resolve", "update", "delete"}
      /\ items' \subseteq Row
      /\ current' \in 0..MaxRows
      /\ retry_counts' \in [Row -> 0..CountCap]
      /\ outcome' \in [Message -> SUBSET Outcomes]
      /\ failures' \subseteq Row
  <2>1. CASE Settles(r)
    <3>1. PICK results \in SUBSET Outcomes :
            GoDelete(r, results) /\ failures' \in {failures, failures \cup {r}}
      BY <2>1 DEF Settles
    <3>2. outcome' \in [Message -> SUBSET Outcomes]
      BY <3>1 DEF TypeOK, GoDelete
    <3>3. retry_counts' \in [Row -> 0..CountCap]
      BY <3>1, CountCapType DEF TypeOK, GoDelete
    <3>4. current' \in 0..MaxRows
      BY <3>1, MessageAssumption DEF GoDelete, Row
    <3> QED
      BY <3>1, <3>2, <3>3, <3>4 DEF TypeOK, GoDelete
  <2>2. CASE Defers(r)
    <3>1. Increment(retry_counts[r]) \in 0..CountCap
      BY IncrementType DEF TypeOK
    <3> QED
      BY <2>2, <3>1 DEF TypeOK, Defers
  <2>3. CASE Proceeds(r)
    BY <2>3 DEF TypeOK, Proceeds
  <2> QED
    BY <1>1, <2>1, <2>2, <2>3
<1>3. /\ event_rows' \in [Message -> Nat]
      /\ excuses' \in [Message -> Nat]
      /\ faults' \in 0..MaxFaults
  <2>1. ASSUME NEW result, EnqueueEvent(r, result)
        PROVE  /\ event_rows' \in [Message -> Nat]
               /\ excuses' \in [Message -> Nat]
               /\ faults' \in 0..MaxFaults
    BY <2>1, FaultType DEF TypeOK, EnqueueEvent
  <2>2. CASE UNCHANGED <<event_rows, excuses, faults>>
    BY <2>2 DEF TypeOK
  <2> QED
    BY <2>1, <2>2
    DEF Processes, DropUnexpected, DropFilteredPolicy, ResolveUser, ResolvePolicy,
        UpdateLevel
<1>4. /\ timeout_read' \in 0..MaxEdits + 1
      /\ remote' \in [user : 0..MaxMessages, timeout : 1..MaxEdits + 1]
      /\ edited' \in BOOLEAN
  <2>1. ASSUME NEW a, ResolvePolicy(r, a)
        PROVE  /\ timeout_read' \in 0..MaxEdits + 1
               /\ remote' = remote
               /\ edited' \in BOOLEAN
    <3>1. timeout_read' \in 0..MaxEdits + 1
      BY <2>1, BoundAssumption DEF TypeOK, ResolvePolicy, TimeoutOf
    <3>2. edited' \in BOOLEAN
      BY <2>1, Zenon DEF TypeOK, ResolvePolicy
    <3>3. remote' = remote
      BY <2>1 DEF ResolvePolicy
    <3> QED
      BY <3>1, <3>2, <3>3
  <2>2. ASSUME NEW a, NEW applied \in BOOLEAN, UpdateLevel(r, a, applied)
        PROVE  /\ UNCHANGED <<timeout_read, edited>>
               /\ remote' \in [user : 0..MaxMessages, timeout : 1..MaxEdits + 1]
    <3>1. message[r] \in 0..MaxMessages /\ timeout_read \in 1..MaxEdits + 1
      BY <2>2, BoundAssumption DEF TypeOK, Placed, UpdateLevel, At
    <3> QED
      BY <2>2, <3>1 DEF TypeOK, UpdateLevel
  <2>3. CASE UNCHANGED <<timeout_read, apiVars>>
    BY <2>3 DEF TypeOK, apiVars
  <2> QED
    BY <2>1, <2>2, <2>3
    DEF TypeOK, Processes, EnqueueEvent, DropUnexpected, DropFilteredPolicy, ResolveUser
<1> QED
  BY <1>1, <1>2, <1>3, <1>4 DEF TypeOK, brokerVars, sessionVars, tableVars

LEMMA TypeNext == TypeOK /\ Placed /\ [Next]_vars => TypeOK'
<1> SUFFICES ASSUME TypeOK, Placed, [Next]_vars PROVE TypeOK'
  OBVIOUS
<1>1. CASE Publish
  <2>1. sent' \in 0..MaxMessages /\ unacked' \subseteq 1..sent'
    BY <1>1, MessageAssumption DEF TypeOK, Publish
  <2> QED
    BY <1>1, <2>1
    DEF TypeOK, Publish, sessionVars, tableVars, pollVars, apiVars, historyVars
<1>2. ASSUME NEW m \in Message, QueueMessage(m)
      PROVE  TypeOK'
  <2>1. last_row' \in 0..MaxRows /\ last_row' \in Row /\ m \in 0..MaxMessages
    BY <1>2, MessageAssumption DEF TypeOK, QueueMessage, Row, Message
  <2>2. mqtt_queue' \subseteq 1..last_row'
    BY <1>2, MessageAssumption DEF TypeOK, QueueMessage
  <2>3. message' \in [Row -> 0..MaxMessages]
    BY <1>2, <2>1 DEF TypeOK, QueueMessage
  <2>4. delivered' \subseteq Message /\ acks' \subseteq delivered'
    BY <1>2 DEF TypeOK, QueueMessage, Acknowledge
  <2> QED
    BY <1>2, <2>1, <2>2, <2>3, <2>4
    DEF TypeOK, QueueMessage, brokerVars, pollVars, apiVars, historyVars
<1>3. ASSUME NEW m \in Message, IgnoreMessage(m)
      PROVE  TypeOK'
  <2>1. outcome' \in [Message -> SUBSET Outcomes]
    BY <1>3 DEF TypeOK, IgnoreMessage, Outcomes
  <2>2. delivered' \subseteq Message /\ acks' \subseteq delivered'
    BY <1>3 DEF TypeOK, IgnoreMessage, Acknowledge
  <2> QED
    BY <1>3, <2>1, <2>2 DEF TypeOK, IgnoreMessage, brokerVars, tableVars, pollVars, apiVars
<1>4. CASE AckWritten
  BY <1>4 DEF TypeOK, AckWritten, tableVars, pollVars, apiVars, historyVars
<1>5. CASE Fetches
  <2>1. items' \subseteq Row
    BY <1>5, FetchesFact
  <2>2. faults' \in 0..MaxFaults
    BY <1>5, FaultType DEF TypeOK, Fetches
  <2> QED
    BY <1>5, <2>1, <2>2
    DEF TypeOK, Fetches, Fetch, brokerVars, sessionVars, tableVars, apiVars, historyVars
<1>6. ASSUME NEW r \in Row, Processes(r)
      PROVE  TypeOK'
  BY <1>6, TypeProcesses
<1>7. CASE RemoveRow
  BY <1>7, MessageAssumption
  DEF TypeOK, RemoveRow, brokerVars, sessionVars, apiVars, historyVars
<1>8. CASE FinishPass
  BY <1>8
  DEF TypeOK, FinishPass, brokerVars, sessionVars, tableVars, apiVars, historyVars
<1>9. CASE EditTimeout
  <2>1. edited' \in BOOLEAN
    BY <1>9, Zenon DEF EditTimeout
  <2>2. /\ edits' \in 0..MaxEdits
        /\ remote' \in [user : 0..MaxMessages, timeout : 1..MaxEdits + 1]
    BY <1>9, BoundAssumption DEF TypeOK, EditTimeout
  <2> QED
    BY <1>9, <2>1, <2>2
    DEF TypeOK, EditTimeout, brokerVars, sessionVars, tableVars, pollVars, historyVars
<1>10. CASE SessionLost \/ \E m \in Message : QueueMessageError(m)
  <2>1. /\ Fault /\ LeaveSession
        /\ UNCHANGED <<brokerVars, tableVars, pollVars, apiVars, event_rows, outcome,
                       failures>>
    BY <1>10 DEF SessionLost, QueueMessageError, AfterInsertError
  <2>2. faults' \in 0..MaxFaults /\ excuses' \in [Message -> Nat]
    BY <2>1, FaultType, LeaveType DEF TypeOK, LeaveSession
  <2> QED
    BY <2>1, <2>2 DEF TypeOK, LeaveSession, brokerVars, tableVars, pollVars, apiVars
<1>11. CASE RemoveRowError
  <2>1. faults' \in 0..MaxFaults /\ excuses' \in [Message -> Nat]
    BY <1>11, FaultType, LeaveType DEF TypeOK, RemoveRowError
  <2> QED
    BY <1>11, <2>1, MessageAssumption
    DEF TypeOK, RemoveRowError, brokerVars, sessionVars, tableVars, apiVars
<1>12. CASE Crash
  <2>1. excuses' \in [Message -> Nat]
    BY <1>12, LeaveType DEF TypeOK, Crash
  <2>2. kind' \in [Message -> Kinds] /\ retry_counts' \in [Row -> 0..CountCap]
    BY <1>12, CountCapType, MessageAssumption DEF Crash
  <2>3. faults' \in 0..MaxFaults /\ timeout_read' \in 0..MaxEdits + 1 /\ current' \in 0..MaxRows
    BY <1>12, FaultType, BoundAssumption, MessageAssumption DEF TypeOK, Crash
  <2> QED
    BY <1>12, <2>1, <2>2, <2>3 DEF TypeOK, Crash, brokerVars, tableVars, apiVars
<1>13. CASE UNCHANGED vars
  BY <1>13
  DEF TypeOK, vars, brokerVars, sessionVars, tableVars, pollVars, apiVars, historyVars
<1> QED
  BY <1>1, <1>2, <1>3, <1>4, <1>5, <1>6, <1>7, <1>8, <1>9, <1>10, <1>11, <1>12, <1>13,
     NextCases

LEMMA PlacedNext == TypeOK /\ Placed /\ Numbered /\ [Next]_vars => Placed'
<1> SUFFICES ASSUME TypeOK, Placed, Numbered, [Next]_vars PROVE Placed'
  OBVIOUS
<1>1. CASE Publish \/ AckWritten \/ EditTimeout \/ UNCHANGED vars
  BY <1>1
  DEF Placed, Publish, AckWritten, EditTimeout, vars, tableVars, pollVars, historyVars
<1>2. ASSUME NEW m \in Message, QueueMessage(m)
      PROVE  Placed'
  <2>1. pc = "delete" => current \in 1..last_row
    BY DEF TypeOK, Placed
  <2>2. pc = "delete" => message'[current] = message[current]
    BY <1>2, <2>1, MessageAssumption DEF TypeOK, QueueMessage, Row
  <2> QED
    BY <1>2, <2>2 DEF Placed, QueueMessage, pollVars, historyVars
<1>3. ASSUME NEW m \in Message, IgnoreMessage(m)
      PROVE  Placed'
  <2>1. \A k \in Message : outcome[k] \subseteq outcome'[k]
    BY <1>3 DEF TypeOK, IgnoreMessage
  <2>2. pc = "delete" => message[current] \in Message
    BY MessageAssumption DEF TypeOK, Placed, Numbered, Message
  <2> QED
    BY <1>3, <2>1, <2>2 DEF Placed, IgnoreMessage, tableVars, pollVars
<1>4. CASE Fetches
  <2>1. items' \subseteq mqtt_queue
    BY <1>4, FetchesFact
  <2> QED
    BY <1>4, <2>1 DEF Placed, Fetches, Fetch, tableVars
<1>5. ASSUME NEW r \in Row, Processes(r)
      PROVE  Placed'
  <2>1. /\ r \in items /\ pc \in {"process", "resolve", "update"}
        /\ UNCHANGED tableVars
        /\ Settles(r) \/ Defers(r) \/ Proceeds(r)
    BY <1>5, ProcessesShape
  <2>2. message[r] \in Message
    BY <2>1, MessageAssumption DEF TypeOK, Placed, Numbered, Message
  <2>3. CASE Settles(r)
    BY <2>1, <2>2, <2>3 DEF TypeOK, Placed, Settles, GoDelete, tableVars
  <2>4. CASE Defers(r)
    BY <2>1, <2>4 DEF Placed, Defers, tableVars
  <2>5. CASE Proceeds(r)
    <3>1. pc' = "update" => timeout_read' # 0
      BY <1>5, <2>5, TypeProcesses DEF TypeOK, Proceeds
    <3> QED
      BY <2>1, <2>5, <3>1 DEF Placed, Proceeds, tableVars
  <2> QED
    BY <2>1, <2>3, <2>4, <2>5
<1>6. CASE RemoveRow \/ RemoveRowError
  BY <1>6 DEF Placed, RemoveRow, RemoveRowError, tableVars
<1>7. CASE FinishPass
  BY <1>7 DEF Placed, FinishPass, tableVars
<1>8. CASE SessionLost \/ \E m \in Message : QueueMessageError(m)
  BY <1>8 DEF Placed, SessionLost, QueueMessageError, tableVars, pollVars
<1>9. CASE Crash
  BY <1>9 DEF Placed, Crash, tableVars
<1> QED
  BY <1>1, <1>2, <1>3, <1>4, <1>5, <1>6, <1>7, <1>8, <1>9, NextCases

(* Whoever is first among the undelivered is kept by the broker. *)
LEMMA UndeliveredFact ==
  ASSUME TypeOK, Undelivered # {}
  PROVE  /\ First(Undelivered) \in Undelivered
         /\ First(Undelivered) \in 1..sent
         /\ \A k \in Undelivered : First(Undelivered) <= k
<1>1. Undelivered \subseteq 1..sent
  BY DEF TypeOK, Undelivered
<1>2. Undelivered \in SUBSET Nat
  <2>1. sent \in Nat /\ 1..sent \subseteq Nat
    BY MessageAssumption DEF TypeOK
  <2> QED
    BY <1>1, <2>1
<1> QED
  BY <1>1, <1>2, FirstFact

LEMMA NumberedNext == TypeOK /\ Placed /\ Numbered /\ [Next]_vars => Numbered'
<1> SUFFICES ASSUME TypeOK, Placed, Numbered, [Next]_vars PROVE Numbered'
  OBVIOUS
<1>1. CASE Publish
  BY <1>1, MessageAssumption
  DEF TypeOK, Numbered, Publish, sessionVars, tableVars, historyVars
<1>2. ASSUME NEW m \in Message, QueueMessage(m)
      PROVE  Numbered'
  <2>1. m \in 1..sent
    BY <1>2, UndeliveredFact DEF QueueMessage
  <2>2. last_row' = last_row + 1 /\ last_row' \in Row /\ last_row \in Nat
    BY <1>2, MessageAssumption DEF TypeOK, QueueMessage, Row
  <2>3. \A r \in 1..last_row' : message'[r] = IF r = last_row' THEN m ELSE message[r]
    BY <1>2, <2>2, MessageAssumption DEF TypeOK, QueueMessage, Row
  <2>4. \A r \in 1..last_row' : r = last_row' \/ r \in 1..last_row
    BY <2>2
  <2>5. \A r \in 1..last_row' : message'[r] \in 1..sent
    BY <2>1, <2>3, <2>4 DEF Numbered
  <2>6. 1..last_row \subseteq 1..last_row'
    BY <2>2
  <2>7. /\ sent' = sent /\ failures' = failures
        /\ delivered' = delivered \cup {m}
    BY <1>2 DEF QueueMessage, brokerVars, historyVars
  <2> QED
    BY <2>1, <2>5, <2>6, <2>7 DEF Numbered
<1>3. ASSUME NEW m \in Message, IgnoreMessage(m)
      PROVE  Numbered'
  BY <1>3, UndeliveredFact DEF Numbered, IgnoreMessage, brokerVars, tableVars
<1>4. CASE AckWritten
  BY <1>4 DEF Numbered, AckWritten, tableVars, historyVars
<1>5. ASSUME NEW r \in Row, Processes(r)
      PROVE  Numbered'
  <2>1. r \in 1..last_row /\ UNCHANGED <<brokerVars, sessionVars, tableVars>>
    BY <1>5, ProcessesShape DEF TypeOK, Placed
  <2>2. failures' \subseteq failures \cup {r}
    BY <1>5, ProcessesShape DEF Settles, Defers, Proceeds
  <2> QED
    BY <2>1, <2>2 DEF Numbered, brokerVars, sessionVars, tableVars
<1>6. CASE RemoveRow
  BY <1>6 DEF Numbered, RemoveRow, brokerVars, sessionVars, historyVars
<1>7. CASE SessionLost \/ \E m \in Message : QueueMessageError(m)
  BY <1>7
  DEF Numbered, SessionLost, QueueMessageError, AfterInsertError, LeaveSession,
      brokerVars, tableVars
<1>8. CASE Crash
  BY <1>8 DEF Numbered, Crash, brokerVars, tableVars
<1>9. CASE Fetches \/ FinishPass \/ EditTimeout \/ RemoveRowError \/ UNCHANGED vars
  BY <1>9
  DEF Numbered, Fetches, Fetch, FinishPass, EditTimeout, RemoveRowError, vars, brokerVars,
      sessionVars, tableVars, historyVars
<1> QED
  BY <1>1, <1>2, <1>3, <1>4, <1>5, <1>6, <1>7, <1>8, <1>9, NextCases

(* The three parts every other one rests on. *)
Sound == TypeOK /\ Placed /\ Numbered

LEMMA SoundNext == Sound /\ [Next]_vars => Sound'
  BY TypeNext, PlacedNext, NumberedNext DEF Sound

(* For every configuration and any number of faults the variables keep     *)
(* their types: no acknowledgement survives its session (mqtt.rs:363, 532). *)
THEOREM TypeCorrect == Spec => []TypeOK
<1>1. Init => Sound
  BY TypeInit DEF Sound
<1>2. Sound => TypeOK
  BY DEF Sound
<1> QED
  BY <1>1, <1>2, SoundNext, PTL DEF Spec

--------------------------------------------------------------------------------
(* An outcome, once there, stays. *)
LEMMA OutcomesStay ==
  ASSUME Sound, [Next]_vars, NEW m \in Message
  PROVE  outcome[m] \subseteq outcome'[m]
<1>1. ASSUME NEW r \in Row, Processes(r)
      PROVE  outcome[m] \subseteq outcome'[m]
  BY <1>1, ProcessesShape DEF Sound, TypeOK, Settles, Defers, Proceeds, GoDelete
<1>2. ASSUME NEW k \in Message, IgnoreMessage(k)
      PROVE  outcome[m] \subseteq outcome'[m]
  BY <1>2 DEF Sound, TypeOK, IgnoreMessage
<1>3. CASE UNCHANGED outcome
  BY <1>3
<1> QED
  BY <1>1, <1>2, <1>3, NextCases
  DEF Publish, QueueMessage, AckWritten, Fetches, Fetch, RemoveRow, FinishPass, EditTimeout,
      SessionLost, QueueMessageError, RemoveRowError, Crash, vars, historyVars

LEMMA KeptNext == Sound /\ Kept /\ [Next]_vars => Kept'
<1> SUFFICES ASSUME Sound, Kept, [Next]_vars, NEW m \in delivered'
             PROVE  outcome'[m] # {} \/ \E r \in mqtt_queue' : message'[r] = m
  BY DEF Kept
<1>1. delivered \subseteq Message /\ \A k \in Message : outcome[k] \subseteq outcome'[k]
  BY OutcomesStay DEF Sound, TypeOK
<1>2. ASSUME NEW k \in Message, QueueMessage(k)
      PROVE  \/ outcome'[m] # {}
             \/ \E r \in mqtt_queue' : message'[r] = m
  <2>1. last_row' \in mqtt_queue' /\ message'[last_row'] = k
    BY <1>2, MessageAssumption DEF Sound, TypeOK, QueueMessage, Row
  <2>2. \A r \in mqtt_queue : r \in mqtt_queue' /\ message'[r] = message[r]
    BY <1>2, MessageAssumption DEF Sound, TypeOK, QueueMessage, Row
  <2>3. m = k \/ m \in delivered
    BY <1>2 DEF QueueMessage
  <2> QED
    BY <1>1, <2>1, <2>2, <2>3 DEF Kept
<1>3. ASSUME NEW k \in Message, IgnoreMessage(k)
      PROVE  \/ outcome'[m] # {}
             \/ \E r \in mqtt_queue' : message'[r] = m
  <2>1. outcome'[k] # {}
    BY <1>3 DEF Sound, TypeOK, IgnoreMessage
  <2>2. m = k \/ m \in delivered
    BY <1>3 DEF IgnoreMessage
  <2> QED
    BY <1>1, <1>3, <2>1, <2>2 DEF Kept, IgnoreMessage, tableVars
<1>4. CASE RemoveRow
  <2>1. m \in delivered /\ outcome' = outcome /\ message' = message
    BY <1>4 DEF RemoveRow, sessionVars, historyVars
  <2>2. outcome[message[current]] # {} /\ mqtt_queue' = mqtt_queue \ {current}
    BY <1>4 DEF Sound, Placed, RemoveRow
  <2> QED
    BY <2>1, <2>2 DEF Kept
<1>5. CASE delivered' \subseteq delivered /\ UNCHANGED tableVars
  BY <1>1, <1>5 DEF Kept, tableVars
<1>6. ASSUME NEW r \in Row, Processes(r)
      PROVE  delivered' \subseteq delivered /\ UNCHANGED tableVars
  BY <1>6, ProcessesShape DEF sessionVars
<1> QED
  BY <1>2, <1>3, <1>4, <1>5, <1>6, NextCases
  DEF Publish, AckWritten, Fetches, Fetch, FinishPass, EditTimeout, SessionLost,
      QueueMessageError, AfterInsertError, LeaveSession, RemoveRowError, Crash, vars,
      sessionVars

--------------------------------------------------------------------------------
(* A step of the path is one of the relay, or invisible to it. *)
LEMMA RelayStep ==
  ASSUME Sound, Kept, [Next]_vars
  PROVE  [R!Next]_(R!relayVars)
<1> DEFINE held == unacked \cup {message[r] : r \in mqtt_queue}
<1>1. CASE Publish
  <2>1. sent + 1 \in Message /\ sent + 1 \notin 1..sent /\ 1..sent' = 1..sent \cup {sent + 1}
    BY <1>1, MessageAssumption DEF Sound, TypeOK, Publish, Message
  <2>2. PICK n \in Message : n = sent + 1
    BY <2>1
  <2>3. R!Accept(n)
    BY <1>1, <2>1, <2>2 DEF Publish, tableVars, historyVars, R!Accept
  <2> QED
    BY <2>3 DEF R!Next
<1>2. ASSUME NEW m \in Message, QueueMessage(m)
      PROVE  UNCHANGED R!relayVars
  <2>1. m \in unacked
    BY <1>2, UndeliveredFact DEF Sound, QueueMessage, Undelivered
  <2>2. \A r \in mqtt_queue : message'[r] = message[r]
    BY <1>2, MessageAssumption DEF Sound, TypeOK, QueueMessage, Row
  <2>3. message'[last_row'] = m /\ mqtt_queue' = mqtt_queue \cup {last_row'}
    BY <1>2, MessageAssumption DEF Sound, TypeOK, QueueMessage, Row
  <2>4. held' = held
    BY <1>2, <2>1, <2>2, <2>3 DEF QueueMessage, brokerVars
  <2> QED
    BY <1>2, <2>4 DEF QueueMessage, brokerVars, historyVars, R!relayVars
<1>3. ASSUME NEW m \in Message, IgnoreMessage(m)
      PROVE  R!Next
  <2>1. m \in held
    BY <1>3, UndeliveredFact DEF Sound, IgnoreMessage, Undelivered
  <2>2. R!Judge(m, {"ignored"}) /\ {"ignored"} \in SUBSET Outcomes
    BY <1>3, <2>1 DEF IgnoreMessage, Outcomes, brokerVars, tableVars, R!Judge
  <2> QED
    BY <2>2 DEF R!Next
<1>4. CASE AckWritten
  <2> DEFINE m == First(acks)
  <2>1. m \in delivered /\ m \in Message
    <3>1. acks \in SUBSET Nat
      BY MessageAssumption DEF Sound, TypeOK, Message
    <3> QED
      BY <1>4, <3>1, FirstFact DEF Sound, TypeOK, AckWritten
  <2>2. unacked' = unacked \ {m} /\ UNCHANGED <<sent, mqtt_queue, message, outcome>>
    BY <1>4 DEF AckWritten, tableVars, historyVars
  <2>3. CASE m \in held /\ m \notin held'
    <3>1. outcome[m] # {}
      BY <2>1, <2>2, <2>3 DEF Kept
    <3>2. PICK M \in SUBSET Message : M = {m}
      BY <2>1
    <3>3. R!Release(M)
      BY <2>2, <2>3, <3>1, <3>2 DEF R!Release
    <3> QED
      BY <3>3 DEF R!Next
  <2>4. CASE ~(m \in held /\ m \notin held')
    <3>1. held' = held
      BY <2>2, <2>4
    <3> QED
      BY <2>2, <3>1 DEF R!relayVars
  <2> QED
    BY <2>3, <2>4
<1>5. ASSUME NEW r \in Row, Processes(r)
      PROVE  [R!Next]_(R!relayVars)
  <2>1. /\ r \in mqtt_queue
        /\ UNCHANGED <<sent, unacked, mqtt_queue, message>>
        /\ Settles(r) \/ Defers(r) \/ Proceeds(r)
    BY <1>5, ProcessesShape DEF Sound, Placed, brokerVars, tableVars
  <2>2. held' = held /\ message[r] \in held
    BY <2>1
  <2>3. message[r] \in Message
    BY <2>1, MessageAssumption DEF Sound, TypeOK, Numbered, Message
  <2>4. CASE Settles(r)
    <3>1. PICK results \in SUBSET Outcomes : GoDelete(r, results)
      BY <2>4 DEF Settles
    <3>2. R!Judge(message[r], results)
      BY <2>1, <2>2, <3>1 DEF GoDelete, R!Judge
    <3> QED
      BY <2>3, <3>2 DEF R!Next
  <2>5. CASE Defers(r) \/ Proceeds(r)
    BY <2>1, <2>2, <2>5 DEF Defers, Proceeds, R!relayVars
  <2> QED
    BY <2>1, <2>4, <2>5
<1>6. CASE RemoveRow
  <2> DEFINE m == message[current]
  <2>1. current \in mqtt_queue /\ outcome[m] # {} /\ m \in Message
    BY <1>6, MessageAssumption DEF Sound, TypeOK, Placed, Numbered, RemoveRow, Message
  <2>2. mqtt_queue' = mqtt_queue \ {current} /\ UNCHANGED <<sent, unacked, message, outcome>>
    BY <1>6 DEF RemoveRow, brokerVars, historyVars
  <2>3. CASE m \in held'
    <3>1. held' = held
      BY <2>1, <2>2, <2>3
    <3> QED
      BY <2>2, <3>1 DEF R!relayVars
  <2>4. CASE m \notin held'
    <3>1. held' = held \ {m} /\ m \in held
      BY <2>1, <2>2, <2>4
    <3>2. PICK M \in SUBSET Message : M = {m}
      BY <2>1
    <3>3. R!Release(M)
      BY <2>1, <2>2, <3>1, <3>2 DEF R!Release
    <3> QED
      BY <3>3 DEF R!Next
  <2> QED
    BY <2>3, <2>4
<1>7. CASE UNCHANGED <<sent, unacked, mqtt_queue, message, outcome>>
  BY <1>7 DEF R!relayVars
<1> QED
  BY <1>1, <1>2, <1>3, <1>4, <1>5, <1>6, <1>7, NextCases
  DEF Fetches, Fetch, FinishPass, EditTimeout, SessionLost, QueueMessageError, RemoveRowError,
      Crash, vars, brokerVars, tableVars, historyVars, R!Next

(* The buffered path implements Relay: from the broker to the last call a  *)
(* message is held by the broker or by mqtt_queue until it has an outcome,  *)
(* in every execution and for every constant.                               *)
THEOREM BufferIsRelay == Spec => RefinesRelay
<1>1. Init => Sound /\ Kept
  BY TypeInit DEF Sound, Init, Kept
<1>2. Sound /\ Kept /\ [Next]_vars => (Sound /\ Kept)'
  BY SoundNext, KeptNext
<1>3. Init => R!Init
  BY DEF Init, R!Init
<1>4. Sound /\ Kept /\ [Next]_vars => [R!Next]_(R!relayVars)
  BY RelayStep
<1> QED
  BY <1>1, <1>2, <1>3, <1>4, PTL DEF Spec, RefinesRelay, R!Spec

--------------------------------------------------------------------------------
(* Only the PUT and somebody else's edit change the level.                  *)
LEMMA RemoteChanges ==
  ASSUME Sound, [Next]_vars, remote' # remote
  PROVE  \/ EditTimeout
         \/ /\ pc = "update"
            /\ remote'.timeout = timeout_read
            /\ UNCHANGED edited
            /\ pc' # "update"
            /\ \E r \in Row : r \in items /\ r = First(items) /\ remote'.user = message[r]
<1>1. ASSUME NEW r \in Row, Processes(r)
      PROVE  /\ pc = "update"
             /\ remote'.timeout = timeout_read
             /\ UNCHANGED edited
             /\ pc' # "update"
             /\ r \in items /\ r = First(items) /\ remote'.user = message[r]
  <2>1. PICK a \in Answers, applied \in BOOLEAN : UpdateLevel(r, a, applied)
    BY <1>1
    DEF Processes, EnqueueEvent, DropUnexpected, DropFilteredPolicy, ResolveUser,
        ResolvePolicy, apiVars
  <2>2. pc' # "update"
    <3>1. CASE Settles(r) \/ Defers(r)
      BY <3>1 DEF Settles, Defers, GoDelete
    <3>2. CASE Settle(r, Judgement(a))
      BY <3>2 DEF Settle, GoDelete
    <3> QED
      BY <2>1, <3>1, <3>2, CallFailedShape DEF UpdateLevel
  <2>3. remote' = [user |-> message[r], timeout |-> timeout_read]
    BY <2>1 DEF UpdateLevel
  <2> QED
    BY <2>1, <2>2, <2>3 DEF UpdateLevel, At
<1> QED
  BY <1>1, NextCases
  DEF Publish, QueueMessage, IgnoreMessage, AckWritten, Fetches, Fetch, RemoveRow, FinishPass,
      SessionLost, QueueMessageError, RemoveRowError, Crash, vars, apiVars

LEMMA ReadIsCurrentNext == Sound /\ ReadIsCurrent /\ [Next]_vars => ReadIsCurrent'
<1> SUFFICES ASSUME Sound, ReadIsCurrent, [Next]_vars, pc' = "update", ~edited'
             PROVE  timeout_read' = remote'.timeout
  BY DEF ReadIsCurrent
<1>1. ASSUME NEW r \in Row, Processes(r)
      PROVE  timeout_read' = remote'.timeout
  BY <1>1, ProcessesShape DEF Settles, Defers, Proceeds, GoDelete
<1>2. CASE UNCHANGED <<pc, timeout_read, remote, edited>>
  BY <1>2 DEF ReadIsCurrent
<1>3. ASSUME EditTimeout PROVE FALSE
  <2>1. edited' = TRUE
    BY <1>3 DEF EditTimeout
  <2> QED
    BY <2>1
<1>4. ASSUME Fetches \/ RemoveRow \/ FinishPass \/ RemoveRowError \/ Crash PROVE FALSE
  BY <1>4 DEF Fetches, Fetch, RemoveRow, FinishPass, RemoveRowError, Crash
<1> QED
  BY <1>1, <1>2, <1>3, <1>4, NextCases
  DEF Publish, QueueMessage, IgnoreMessage, AckWritten, SessionLost, QueueMessageError,
      vars, pollVars, apiVars

(* The PUT carries the timeout of the level along: replacing a user never   *)
(* undoes a change of the timeout that was there when the policy was read.  *)
THEOREM TimeoutIsKept == Spec => TimeoutKept
<1> DEFINE Keeps == remote'.timeout # remote.timeout => edits' # edits \/ edited
<1>1. Init => Sound /\ ReadIsCurrent
  BY TypeInit DEF Sound, Init, ReadIsCurrent
<1>2. Sound /\ ReadIsCurrent /\ [Next]_vars => (Sound /\ ReadIsCurrent)'
  BY SoundNext, ReadIsCurrentNext
<1>3. Sound /\ ReadIsCurrent /\ [Next]_vars => [Keeps]_vars
  <2> SUFFICES ASSUME Sound, ReadIsCurrent, [Next]_vars, remote'.timeout # remote.timeout,
                      ~edited
               PROVE  edits' # edits
    OBVIOUS
  <2>1. CASE EditTimeout
    BY <2>1 DEF Sound, TypeOK, EditTimeout
  <2>2. CASE pc = "update" /\ remote'.timeout = timeout_read
    BY <2>2 DEF ReadIsCurrent
  <2> QED
    BY <2>1, <2>2, RemoteChanges
<1> QED
  BY <1>1, <1>2, <1>3, PTL DEF Spec, TimeoutKept

--------------------------------------------------------------------------------
(* What taking an element out of a finite set, or putting one in, does to   *)
(* the number of its elements.                                              *)
LEMMA Smaller ==
  ASSUME NEW S, IsFiniteSet(S), NEW T, T \subseteq S
  PROVE  Cardinality(T) \in Nat /\ Cardinality(S) \in Nat /\ Cardinality(T) <= Cardinality(S)
<1>1. T \in SUBSET S
  OBVIOUS
<1> QED
  BY <1>1, FS_Subset, FS_CardinalityType

LEMMA OneMore ==
  ASSUME NEW S, IsFiniteSet(S), NEW x, NEW T, T \subseteq S \cup {x}
  PROVE  Cardinality(T) \in Nat /\ Cardinality(T) <= Cardinality(S) + 1
<1> DEFINE U == S \cup {x}
<1>1. IsFiniteSet(U) /\ Cardinality(U) \in {Cardinality(S), Cardinality(S) + 1}
  BY FS_AddElement
<1>2. Cardinality(S) \in Nat
  BY FS_CardinalityType
<1>3. Cardinality(T) \in Nat /\ Cardinality(T) <= Cardinality(U)
  <2> HIDE DEF U
  <2>1. T \subseteq U
    BY DEF U
  <2> QED
    BY <1>1, <2>1, Smaller
<1> QED
  BY <1>1, <1>2, <1>3

LEMMA OneLess ==
  ASSUME NEW S, IsFiniteSet(S), NEW x \in S, NEW T, T \subseteq S \ {x}
  PROVE  Cardinality(T) + 1 <= Cardinality(S)
<1> DEFINE U == S \ {x}
<1>1. IsFiniteSet(U) /\ Cardinality(U) = Cardinality(S) - 1
  BY FS_RemoveElement
<1>2. Cardinality(S) \in Nat
  BY FS_CardinalityType
<1>3. Cardinality(T) \in Nat /\ Cardinality(T) <= Cardinality(U)
  <2> HIDE DEF U
  <2>1. T \subseteq U
    BY DEF U
  <2> QED
    BY <1>1, <2>1, Smaller
<1> QED
  BY <1>1, <1>2, <1>3

LEMMA LiveType ==
  ASSUME Sound, NEW m
  PROVE  IsFiniteSet(Live(m)) /\ Cardinality(Live(m)) \in Nat
<1>1. MaxRows \in Int /\ 1 \in Int
  BY MessageAssumption
<1>2. IsFiniteSet(Row)
  BY <1>1, FS_Interval DEF Row
<1>3. mqtt_queue \subseteq Row
  BY MessageAssumption DEF Sound, TypeOK, Row
<1>4. Live(m) \in SUBSET Row
  BY <1>3 DEF Live
<1> QED
  BY <1>2, <1>4, FS_Subset, FS_CardinalityType

(* A row the poll job works on may still put its message into event_items;  *)
(* once it is settled it may not.                                           *)
LEMMA ProcessesLive ==
  ASSUME Sound, NEW r \in Row, Processes(r), NEW m \in Message
  PROVE  /\ r \in Live(message[r])
         /\ Live(m)' \subseteq Live(m)
         /\ Settles(r) => r \notin Live(m)'
         /\ Open(m)' = Open(m)
<1>1. /\ r \in items /\ pc \in {"process", "resolve", "update"}
      /\ UNCHANGED <<brokerVars, sessionVars, tableVars>>
      /\ Settles(r) \/ Defers(r) \/ Proceeds(r)
  BY ProcessesShape
<1>2. current = 0 /\ r # 0 /\ r \in mqtt_queue
  BY <1>1 DEF Sound, Placed, Row
<1>3. \A q \in mqtt_queue : q # 0
  BY DEF Sound, TypeOK
<1>4. Open(m)' = Open(m)
  BY <1>1 DEF Open, Undelivered, brokerVars, sessionVars
<1>5. Settles(r) => current' = r
  BY DEF Settles, GoDelete
<1>6. r \in Live(message[r])
  BY <1>2 DEF Live
<1>7. Live(m)' = {q \in mqtt_queue : q # current' /\ message[q] = m}
  BY <1>1 DEF Live, tableVars
<1>8. Live(m) = {q \in mqtt_queue : message[q] = m}
  BY <1>2, <1>3 DEF Live
<1> QED
  BY <1>4, <1>5, <1>6, <1>7, <1>8

LEMMA ExcusedProcesses ==
  ASSUME Sound, Excused, NEW r \in Row, Processes(r), NEW m \in Message
  PROVE  (event_rows[m] + Cardinality(Live(m)) + (IF Open(m) THEN 1 ELSE 0)
            <= excuses[m] + 1)'
<1> DEFINE live == Cardinality(Live(m))
           liveNext == Cardinality(Live(m)')
<1>1. /\ r \in Live(message[r])
      /\ Live(m)' \subseteq Live(m)
      /\ Settles(r) => r \notin Live(m)'
      /\ Open(m)' = Open(m)
  BY ProcessesLive
<1>2. live \in Nat /\ liveNext \in Nat /\ liveNext <= live
  BY <1>1, LiveType, Smaller
<1>3. /\ event_rows[m] \in Nat /\ excuses[m] \in Nat
      /\ event_rows[m] + live + (IF Open(m) THEN 1 ELSE 0) <= excuses[m] + 1
  BY DEF Sound, TypeOK, Excused
<1>4. CASE UNCHANGED <<event_rows, excuses>>
  <2> HIDE DEF live, liveNext
  <2>1. event_rows'[m] + liveNext + (IF Open(m) THEN 1 ELSE 0) <= excuses'[m] + 1
    BY <1>2, <1>3, <1>4
  <2> QED
    BY <1>1, <2>1 DEF liveNext
<1>5. ASSUME event_rows' = [event_rows EXCEPT ![message[r]] = @ + 1],
             \/ excuses' = [excuses EXCEPT ![message[r]] = @ + 1]
             \/ excuses' = excuses /\ Settles(r)
      PROVE  event_rows'[m] + liveNext + (IF Open(m) THEN 1 ELSE 0) <= excuses'[m] + 1
  <2>1. CASE m # message[r]
    <3>1. event_rows'[m] = event_rows[m] /\ excuses'[m] = excuses[m]
      BY <1>5, <2>1 DEF Sound, TypeOK
    <3> HIDE DEF live, liveNext
    <3> QED
      BY <1>2, <1>3, <3>1
  <2>2. CASE m = message[r] /\ excuses' = [excuses EXCEPT ![message[r]] = @ + 1]
    <3>1. event_rows'[m] = event_rows[m] + 1 /\ excuses'[m] = excuses[m] + 1
      BY <1>5, <2>2 DEF Sound, TypeOK
    <3> HIDE DEF live, liveNext
    <3> QED
      BY <1>2, <1>3, <3>1
  <2>3. CASE m = message[r] /\ excuses' = excuses /\ Settles(r)
    <3>1. event_rows'[m] = event_rows[m] + 1 /\ excuses'[m] = excuses[m]
      BY <1>5, <2>3 DEF Sound, TypeOK
    <3>2. liveNext + 1 <= live
      BY <1>1, <2>3, LiveType, OneLess
    <3> HIDE DEF live, liveNext
    <3> QED
      BY <1>2, <1>3, <3>1, <3>2
  <2> QED
    BY <1>5, <2>1, <2>2, <2>3
<1>6. ASSUME NEW result \in {"Inserted", "Filtered", "DbError"}, EnqueueEvent(r, result)
      PROVE  \/ UNCHANGED <<event_rows, excuses>>
             \/ /\ event_rows' = [event_rows EXCEPT ![message[r]] = @ + 1]
                /\ \/ excuses' = [excuses EXCEPT ![message[r]] = @ + 1]
                   \/ excuses' = excuses /\ Settles(r)
  <2>1. CASE result = "Inserted"
    <3>1. {result} \in (SUBSET Outcomes) \ {{}}
      BY <2>1 DEF Outcomes
    <3>2. Settle(r, {result})
      BY <1>6, <2>1 DEF EnqueueEvent, RetryEnqueue
    <3> QED
      BY <1>6, <2>1, <3>1, <3>2, SettleShape DEF EnqueueEvent
  <2>2. CASE result # "Inserted"
    BY <1>6, <2>2 DEF EnqueueEvent
  <2> QED
    BY <2>1, <2>2
<1>7. \/ UNCHANGED <<event_rows, excuses>>
      \/ /\ event_rows' = [event_rows EXCEPT ![message[r]] = @ + 1]
         /\ \/ excuses' = [excuses EXCEPT ![message[r]] = @ + 1]
            \/ excuses' = excuses /\ Settles(r)
  BY <1>6
  DEF Processes, DropUnexpected, DropFilteredPolicy, ResolveUser, ResolvePolicy,
      UpdateLevel
<1>8. ASSUME event_rows'[m] + liveNext + (IF Open(m) THEN 1 ELSE 0) <= excuses'[m] + 1
      PROVE  (event_rows[m] + Cardinality(Live(m)) + (IF Open(m) THEN 1 ELSE 0)
                <= excuses[m] + 1)'
  BY <1>1, <1>8
<1> QED
  BY <1>4, <1>5, <1>7, <1>8

LEMMA ExcusedNext == Sound /\ Excused /\ [Next]_vars => Excused'
<1> SUFFICES ASSUME Sound, Excused, [Next]_vars, NEW m \in Message
             PROVE  (event_rows[m] + Cardinality(Live(m)) + (IF Open(m) THEN 1 ELSE 0)
                       <= excuses[m] + 1)'
  BY DEF Excused
<1> DEFINE live == Cardinality(Live(m))
           liveNext == Cardinality(Live(m)')
           Paid == event_rows'[m] + liveNext + (IF Open(m)' THEN 1 ELSE 0)
                     <= excuses'[m] + 1
<1>1. /\ event_rows[m] \in Nat /\ excuses[m] \in Nat
      /\ event_rows[m] + live + (IF Open(m) THEN 1 ELSE 0) <= excuses[m] + 1
  BY DEF Sound, TypeOK, Excused
<1>2. IsFiniteSet(Live(m)) /\ live \in Nat
  BY LiveType
<1>3. SUFFICES ASSUME ~(\E r \in Row : Processes(r)) PROVE Paid
  BY ExcusedProcesses
<1>4. event_rows' = event_rows
  BY <1>3, NextCases
  DEF Publish, QueueMessage, IgnoreMessage, AckWritten, Fetches, Fetch, RemoveRow, FinishPass,
      EditTimeout, SessionLost, QueueMessageError, RemoveRowError, Crash, vars
(* Nothing is added to what the message may still cause. *)
<1>5. ASSUME Live(m)' \subseteq Live(m), Open(m)' => Open(m), excuses'[m] >= excuses[m],
             excuses'[m] \in Nat
      PROVE  Paid
  <2>1. liveNext \in Nat /\ liveNext <= live
    BY <1>2, <1>5, Smaller
  <2> HIDE DEF live, liveNext
  <2> QED
    BY <1>1, <1>2, <1>4, <1>5, <2>1
(* A message is no longer open, and has one row more. *)
<1>6. ASSUME NEW r, Live(m)' \subseteq Live(m) \cup {r}, Open(m), ~Open(m)', excuses' = excuses
      PROVE  Paid
  <2>1. liveNext \in Nat /\ liveNext <= live + 1
    BY <1>2, <1>6, OneMore
  <2> HIDE DEF live, liveNext
  <2> QED
    BY <1>1, <1>2, <1>4, <1>6, <2>1
(* Faults pay for what they add. *)
<1>7. ASSUME NEW a \in {0, 1}, NEW b \in {0, 1},
             excuses'[m] = excuses[m] + a + b,
             Open(m)' => Open(m) \/ a = 1,
             NEW r, Live(m)' \subseteq Live(m) \cup {r},
             b = 0 => Live(m)' \subseteq Live(m)
      PROVE  Paid
  <2>1. CASE b = 0
    <3>1. liveNext \in Nat /\ liveNext <= live
      BY <1>2, <1>7, <2>1, Smaller
    <3> HIDE DEF live, liveNext
    <3> QED
      BY <1>1, <1>2, <1>4, <1>7, <2>1, <3>1
  <2>2. CASE b = 1
    <3>1. liveNext \in Nat /\ liveNext <= live + 1
      BY <1>2, <1>7, OneMore
    <3> HIDE DEF live, liveNext
    <3> QED
      BY <1>1, <1>2, <1>4, <1>7, <2>2, <3>1
  <2> QED
    BY <2>1, <2>2
<1> HIDE DEF Paid
<1>8. CASE Publish
  <2>1. Open(m)' => Open(m)
    BY <1>8, MessageAssumption
    DEF Sound, TypeOK, Numbered, Publish, Open, Undelivered, sessionVars, Message
  <2>2. Live(m)' = Live(m) /\ excuses' = excuses
    BY <1>8 DEF Publish, Live, tableVars, pollVars, historyVars
  <2> QED
    BY <1>1, <1>5, <2>1, <2>2
<1>9. ASSUME NEW k \in Message, QueueMessage(k)
      PROVE  Paid
  <2>1. k \in Undelivered /\ k \in 1..sent
    BY <1>9, UndeliveredFact DEF Sound, QueueMessage
  <2>2. /\ UNCHANGED <<unacked, sent, current, excuses>>
        /\ delivered' = delivered \cup {k}
        /\ mqtt_queue' = mqtt_queue \cup {last_row'}
    BY <1>9 DEF QueueMessage, brokerVars, pollVars, historyVars
  <2>3. message'[last_row'] = k /\ \A r \in mqtt_queue : message'[r] = message[r]
    BY <1>9, MessageAssumption DEF Sound, TypeOK, QueueMessage, Row
  <2>4. Live(m)' \subseteq Live(m) \cup {last_row'} /\ (m # k => Live(m)' \subseteq Live(m))
    BY <2>2, <2>3 DEF Live
  <2>5. CASE m = k
    <3>1. Open(m) /\ ~Open(m)'
      BY <2>1, <2>2, <2>5 DEF Sound, TypeOK, Open, Undelivered
    <3> QED
      BY <1>6, <2>2, <2>4, <3>1
  <2>6. CASE m # k
    <3>1. Open(m)' => Open(m)
      BY <2>2 DEF Open, Undelivered
    <3> QED
      BY <1>1, <1>5, <2>2, <2>4, <2>6, <3>1
  <2> QED
    BY <2>5, <2>6
<1>10. CASE RemoveRow
  <2>1. Open(m)' => Open(m)
    BY <1>10 DEF RemoveRow, Open, Undelivered, brokerVars, sessionVars
  <2>2. Live(m)' \subseteq Live(m) /\ excuses' = excuses
    BY <1>10 DEF RemoveRow, Live, historyVars
  <2> QED
    BY <1>1, <1>5, <2>1, <2>2
<1>11. CASE RemoveRowError
  <2>1. Open(m)' => Open(m)
    BY <1>11 DEF RemoveRowError, Open, Undelivered, brokerVars, sessionVars
  <2> DEFINE b == IF message[current] = m THEN 1 ELSE 0
  <2>2. current \in items /\ current # 0
    BY <1>11 DEF Sound, TypeOK, Placed, RemoveRowError, Row
  <2>3. excuses'[m] = excuses[m] + b
    BY <1>1, <1>11, <2>2 DEF Sound, TypeOK, RemoveRowError, RepeatedBy
  <2>4. Live(m)' \subseteq Live(m) \cup {current} /\ (b = 0 => Live(m)' \subseteq Live(m))
    BY <1>11 DEF RemoveRowError, Live, tableVars
  <2>5. b \in {0, 1} /\ excuses'[m] = excuses[m] + 0 + b
    BY <1>1, <2>3
  <2> HIDE DEF b
  <2> QED
    BY <1>7, <2>1, <2>4, <2>5
<1>12. CASE SessionLost \/ (\E k \in Message : QueueMessageError(k)) \/ Crash
  <2> DEFINE a == IF m \in unacked \cap delivered THEN 1 ELSE 0
             b == IF Crash /\ current # 0 /\ message[current] = m THEN 1 ELSE 0
  <2>1. /\ UNCHANGED <<unacked, sent, mqtt_queue, message>>
        /\ delivered' = {}
    BY <1>12
    DEF SessionLost, QueueMessageError, AfterInsertError, LeaveSession, Crash, brokerVars,
        tableVars
  <2>2. Open(m)' => Open(m) \/ a = 1
    BY <2>1 DEF Open, Undelivered
  <2>3. Repeats[m] = excuses[m] + a
    BY DEF Repeats
  <2>4. CASE Crash
    <3>1. RepeatedBy(current)[m] = excuses[m] + b
      BY <1>1, <2>4 DEF Sound, TypeOK, RepeatedBy
    <3>2. excuses'[m] = Repeats[m] + RepeatedBy(current)[m] - excuses[m]
      BY <2>4 DEF Crash
    <3>3. excuses'[m] = excuses[m] + a + b
      <4>1. a \in {0, 1} /\ b \in {0, 1}
        OBVIOUS
      <4> HIDE DEF a, b
      <4> QED
        BY <1>1, <2>3, <3>1, <3>2, <4>1
    <3>4. Live(m)' \subseteq Live(m) \cup {current} /\ (b = 0 => Live(m)' \subseteq Live(m))
      BY <2>1, <2>4 DEF Sound, TypeOK, Live, Crash
    <3>5. a \in {0, 1} /\ b \in {0, 1}
      OBVIOUS
    <3> HIDE DEF a, b
    <3> QED
      BY <1>7, <2>2, <3>3, <3>4, <3>5
  <2>5. CASE SessionLost \/ (\E k \in Message : QueueMessageError(k))
    <3>1. excuses' = Repeats /\ current' = current
      BY <2>5
      DEF SessionLost, QueueMessageError, AfterInsertError, LeaveSession, pollVars
    <3>2. Live(m)' = Live(m)
      BY <2>1, <3>1 DEF Live
    <3>3. a \in {0, 1} /\ excuses'[m] = excuses[m] + a + 0
      BY <1>1, <2>3, <3>1
    <3> HIDE DEF a
    <3>4. /\ Live(m)' \subseteq Live(m) \cup {0}
          /\ 0 = 0 => Live(m)' \subseteq Live(m)
      BY <3>2
    <3> QED
      BY <1>7, <2>2, <3>3, <3>4
  <2> QED
    BY <1>12, <2>4, <2>5
<1>13. CASE UNCHANGED <<sent, mqtt_queue, message, current, excuses>>
            /\ unacked' \subseteq unacked /\ delivered \subseteq delivered'
  <2>1. Open(m)' => Open(m)
    BY <1>13 DEF Open, Undelivered
  <2>2. Live(m)' \subseteq Live(m)
    BY <1>13 DEF Live
  <2> QED
    BY <1>1, <1>5, <1>13, <2>1, <2>2
<1>14. Paid
  BY <1>3, <1>8, <1>9, <1>10, <1>11, <1>12, <1>13, NextCases
  DEF IgnoreMessage, AckWritten, Fetches, Fetch, FinishPass, EditTimeout, vars, brokerVars,
      sessionVars, tableVars, pollVars, historyVars
<1> QED
  BY <1>14 DEF Paid

(* An event message is put into event_items once, and once more only for    *)
(* each fault that made somebody repeat it, whatever the interleaving of    *)
(* the consumer, the poll job and the failures (mqtt.rs:499-532,             *)
(* poll.rs:280-370).                                                        *)
THEOREM OnceButForFaults == Spec => []EnqueuedTwiceNeedsFault
<1>1. Init => Sound /\ Excused
  <2> SUFFICES ASSUME Init PROVE Excused
    BY TypeInit DEF Sound
  <2> SUFFICES ASSUME NEW m \in Message
               PROVE  event_rows[m] + Cardinality(Live(m)) + (IF Open(m) THEN 1 ELSE 0)
                        <= excuses[m] + 1
    BY DEF Excused
  <2>1. Live(m) = {}
    BY DEF Init, Live
  <2>2. Cardinality(Live(m)) = 0
    BY <2>1, FS_EmptySet
  <2> QED
    BY <2>2 DEF Init
<1>2. Sound /\ Excused /\ [Next]_vars => (Sound /\ Excused)'
  BY SoundNext, ExcusedNext
<1>3. Sound /\ Excused => EnqueuedTwiceNeedsFault
  <2> SUFFICES ASSUME Sound, Excused, NEW m \in Message
               PROVE  event_rows[m] <= excuses[m] + 1
    BY DEF EnqueuedTwiceNeedsFault
  <2> DEFINE live == Cardinality(Live(m))
  <2>1. live \in Nat /\ event_rows[m] \in Nat /\ excuses[m] \in Nat
    BY LiveType DEF Sound, TypeOK
  <2>2. event_rows[m] + live + (IF Open(m) THEN 1 ELSE 0) <= excuses[m] + 1
    BY DEF Excused
  <2> HIDE DEF live
  <2> QED
    BY <2>1, <2>2
<1> QED
  BY <1>1, <1>2, <1>3, PTL DEF Spec

--------------------------------------------------------------------------------
(* Faults and failed attempts are remembered, and a row keeps its message.  *)
LEMMA ExcusesGrow ==
  ASSUME Sound, [Next]_vars, NEW m \in Message
  PROVE  excuses[m] \in Nat /\ excuses'[m] \in Nat /\ excuses'[m] >= excuses[m]
<1>1. excuses[m] \in Nat /\ excuses'[m] \in Nat
  BY SoundNext DEF Sound, TypeOK
<1>2. ASSUME NEW r \in Row, Processes(r)
      PROVE  excuses'[m] >= excuses[m]
  <2>1. excuses' = excuses \/ excuses' = [excuses EXCEPT ![message[r]] = @ + 1]
    BY <1>2
    DEF Processes, EnqueueEvent, DropUnexpected, DropFilteredPolicy, ResolveUser,
        ResolvePolicy, UpdateLevel
  <2> QED
    BY <1>1, <2>1 DEF Sound, TypeOK
<1>3. CASE excuses' = Repeats \/ excuses' = RepeatedBy(current)
  <2>1. Repeats[m] >= excuses[m] /\ RepeatedBy(current)[m] >= excuses[m]
    BY LeaveType DEF Sound
  <2> QED
    BY <1>1, <1>3, <2>1
<1>4. CASE Crash
  <2>1. excuses'[m] = Repeats[m] + RepeatedBy(current)[m] - excuses[m]
    BY <1>4 DEF Crash
  <2>2. /\ Repeats[m] \in Nat /\ Repeats[m] >= excuses[m]
        /\ RepeatedBy(current)[m] \in Nat /\ RepeatedBy(current)[m] >= excuses[m]
    BY LeaveType DEF Sound
  <2> QED
    BY <1>1, <2>1, <2>2
<1>5. CASE UNCHANGED excuses
  BY <1>1, <1>5
<1> QED
  BY <1>1, <1>2, <1>3, <1>4, <1>5, NextCases
  DEF Publish, QueueMessage, IgnoreMessage, AckWritten, Fetches, Fetch, RemoveRow, FinishPass,
      EditTimeout, SessionLost, QueueMessageError, AfterInsertError, LeaveSession,
      RemoveRowError, vars, historyVars

LEMMA RowsStay ==
  ASSUME Sound, [Next]_vars
  PROVE  \/ /\ UNCHANGED <<message, last_row>>
            /\ mqtt_queue' \subseteq mqtt_queue
         \/ \E k \in Message :
              /\ QueueMessage(k)
              /\ Open(k) /\ k \in 1..sent
              /\ \A n \in Undelivered : k <= n
              /\ last_row' = last_row + 1
              /\ mqtt_queue' = mqtt_queue \cup {last_row'}
              /\ message'[last_row'] = k
              /\ \A r \in 1..last_row : message'[r] = message[r]
<1>1. ASSUME NEW k \in Message, QueueMessage(k)
      PROVE  /\ Open(k) /\ k \in 1..sent
             /\ \A n \in Undelivered : k <= n
             /\ last_row' = last_row + 1
             /\ mqtt_queue' = mqtt_queue \cup {last_row'}
             /\ message'[last_row'] = k
             /\ \A r \in 1..last_row : message'[r] = message[r]
  <2>1. Open(k) /\ k \in 1..sent /\ \A n \in Undelivered : k <= n
    BY <1>1, UndeliveredFact DEF Sound, QueueMessage, Open
  <2>2. last_row' \in Row /\ last_row' = last_row + 1 /\ last_row \in Nat
    BY <1>1, MessageAssumption DEF Sound, TypeOK, QueueMessage, Row
  <2>3. message' = [message EXCEPT ![last_row'] = k] /\ message \in [Row -> 0..MaxMessages]
    BY <1>1 DEF Sound, TypeOK, QueueMessage
  <2>4. \A r \in 1..last_row : r \in Row /\ r # last_row'
    BY <2>2, MessageAssumption DEF Row
  <2>5. message'[last_row'] = k /\ \A r \in 1..last_row : message'[r] = message[r]
    BY <2>2, <2>3, <2>4
  <2>6. mqtt_queue' = mqtt_queue \cup {last_row'}
    BY <1>1 DEF QueueMessage
  <2> QED
    BY <2>1, <2>2, <2>5, <2>6
<1>2. ASSUME NEW r \in Row, Processes(r)
      PROVE  UNCHANGED tableVars
  BY <1>2, ProcessesShape
<1>3. CASE \E r \in Row : Processes(r)
  BY <1>2, <1>3 DEF tableVars
<1>4. CASE \E k \in Message : QueueMessage(k)
  BY <1>1, <1>4
<1>5. CASE UNCHANGED <<message, last_row>> /\ mqtt_queue' \subseteq mqtt_queue
  BY <1>5
<1> QED
  BY <1>3, <1>4, <1>5, NextCases
  DEF Publish, IgnoreMessage, AckWritten, Fetches, Fetch, RemoveRow, FinishPass, EditTimeout,
      SessionLost, QueueMessageError, RemoveRowError, Crash, vars, tableVars

LEMMA MessagesStay ==
  ASSUME Sound, [Next]_vars
  PROVE  \A r \in 1..last_row : r \in 1..last_row' /\ message'[r] = message[r]
<1>1. last_row \in Nat
  BY MessageAssumption DEF Sound, TypeOK
<1> QED
  BY <1>1, RowsStay

LEMMA DelayedStays ==
  ASSUME Sound, [Next]_vars, NEW m \in Message, Delayed(m)
  PROVE  Delayed(m)'
<1>1. failures \subseteq failures'
  <2>1. ASSUME NEW r \in Row, Processes(r)
        PROVE  failures \subseteq failures'
    BY <2>1, ProcessesShape DEF Settles, Defers, Proceeds
  <2> QED
    BY <2>1, NextCases
    DEF Publish, QueueMessage, IgnoreMessage, AckWritten, Fetches, Fetch, RemoveRow, FinishPass,
        EditTimeout, SessionLost, QueueMessageError, RemoveRowError, Crash, vars,
        historyVars
<1>2. \A r \in failures : message'[r] = message[r]
  BY MessagesStay DEF Sound, Numbered
<1>3. excuses[m] > 0 => excuses'[m] > 0
  BY ExcusesGrow
<1> QED
  BY <1>1, <1>2, <1>3 DEF Delayed

(* A message opens again, or a row may again cause an insertion, only at a  *)
(* fault that is recorded.                                                  *)
LEMMA OpensByFault ==
  ASSUME Sound, [Next]_vars, NEW m \in Message, Open(m)', ~Open(m)
  PROVE  excuses'[m] > 0
<1>1. m \in 1..sent /\ m \notin Undelivered
  BY MessageAssumption DEF Sound, TypeOK, Open, Message
<1>2. CASE Publish
  BY <1>1, <1>2, MessageAssumption
  DEF Sound, TypeOK, Publish, Open, Undelivered, sessionVars
<1>3. CASE /\ delivered' = {} /\ UNCHANGED <<sent, unacked>>
           /\ \/ excuses' = Repeats
              \/ Crash
  <2>1. m \in unacked \cap delivered
    BY <1>1, <1>3 DEF Sound, TypeOK, Open, Undelivered
  <2>2. Repeats[m] = excuses[m] + 1 /\ excuses[m] \in Nat
    BY <2>1 DEF Sound, TypeOK, Repeats
  <2>3. RepeatedBy(current)[m] \in Nat /\ RepeatedBy(current)[m] >= excuses[m]
    BY LeaveType DEF Sound
  <2>4. CASE excuses' = Repeats
    BY <2>2, <2>4
  <2>5. CASE Crash
    <3>1. excuses'[m] = Repeats[m] + RepeatedBy(current)[m] - excuses[m]
      BY <2>5 DEF Crash
    <3> QED
      BY <2>2, <2>3, <3>1
  <2> QED
    BY <1>3, <2>4, <2>5
<1>4. CASE UNCHANGED sent /\ unacked' \subseteq unacked /\ delivered \subseteq delivered'
  BY <1>4 DEF Open, Undelivered
<1>5. ASSUME NEW r \in Row, Processes(r)
      PROVE  UNCHANGED <<brokerVars, sessionVars>>
  BY <1>5, ProcessesShape
<1> QED
  BY <1>2, <1>3, <1>4, <1>5, NextCases
  DEF QueueMessage, IgnoreMessage, AckWritten, Fetches, Fetch, RemoveRow, FinishPass,
      EditTimeout, SessionLost, QueueMessageError, AfterInsertError, LeaveSession,
      RemoveRowError, Crash, vars, brokerVars, sessionVars

LEMMA LivesByFault ==
  ASSUME Sound, [Next]_vars, NEW m \in Message, ~Open(m), Live(m) = {}
  PROVE  Live(m)' = {} \/ excuses'[m] > 0
<1> SUFFICES ASSUME NEW r \in Live(m)' PROVE excuses'[m] > 0
  OBVIOUS
<1>1. r \in mqtt_queue' /\ r # current' /\ message'[r] = m
  BY DEF Live
<1>2. r \in mqtt_queue /\ message[r] = m
  <2>1. CASE UNCHANGED <<message, last_row>> /\ mqtt_queue' \subseteq mqtt_queue
    BY <1>1, <2>1
  <2>2. CASE \E k \in Message :
               /\ Open(k)
               /\ mqtt_queue' = mqtt_queue \cup {last_row'}
               /\ message'[last_row'] = k
               /\ \A q \in 1..last_row : message'[q] = message[q]
    BY <1>1, <2>2 DEF Sound, TypeOK
  <2> QED
    BY <2>1, <2>2, RowsStay
<1>3. r = current /\ current # current'
  BY <1>1, <1>2 DEF Live
<1>4. pc = "delete" /\ current # 0
  BY <1>2, <1>3 DEF Sound, TypeOK, Placed
<1>5. excuses[m] \in Nat
  BY DEF Sound, TypeOK
<1>6. RepeatedBy(current)[m] = excuses[m] + 1
  BY <1>2, <1>3, <1>4 DEF Sound, TypeOK, RepeatedBy
<1>7. CASE RemoveRow
  BY <1>1, <1>3, <1>7 DEF RemoveRow
<1>8. CASE RemoveRowError
  BY <1>5, <1>6, <1>8 DEF RemoveRowError
<1>9. CASE Crash
  <2>1. excuses'[m] = Repeats[m] + RepeatedBy(current)[m] - excuses[m]
    BY <1>9 DEF Crash
  <2>2. Repeats[m] \in Nat /\ Repeats[m] >= excuses[m]
    BY LeaveType DEF Sound
  <2> QED
    BY <1>5, <1>6, <2>1, <2>2
<1>10. ASSUME NEW q \in Row, Processes(q)
       PROVE  FALSE
  BY <1>4, <1>10, ProcessesShape
<1> QED
  BY <1>3, <1>4, <1>7, <1>8, <1>9, <1>10, NextCases
  DEF Publish, QueueMessage, IgnoreMessage, AckWritten, Fetches, Fetch, FinishPass,
      EditTimeout, SessionLost, QueueMessageError, vars, pollVars

(***************************************************************************)
(* Order.  Messages are queued in their order and rows are tried in        *)
(* theirs; whatever falls behind was delayed by a fault or by a failed      *)
(* attempt of its own.                                                      *)
(***************************************************************************)
LEMMA OrderNext ==
  ASSUME Sound, QueuedInOrder, [Next]_vars
  PROVE  /\ \A r \in 1..last_row : \A m \in Message :
              m < message[r] /\ Open(m)' => excuses'[m] > 0
         /\ \A s \in 1..last_row : \A r \in 1..s :
              message[s] < message[r] => excuses'[message[s]] > 0
<1>1. ASSUME NEW r \in 1..last_row, NEW m \in Message, m < message[r], Open(m)'
      PROVE  excuses'[m] > 0
  <2>1. CASE Open(m)
    <3>1. excuses[m] > 0
      BY <1>1, <2>1 DEF QueuedInOrder
    <3> QED
      BY <3>1, ExcusesGrow
  <2>2. CASE ~Open(m)
    BY <1>1, <2>2, OpensByFault
  <2> QED
    BY <2>1, <2>2
<1>2. ASSUME NEW s \in 1..last_row, NEW r \in 1..s, message[s] < message[r]
      PROVE  excuses'[message[s]] > 0
  <2>1. excuses[message[s]] > 0
    BY <1>2 DEF QueuedInOrder
  <2>2. message[s] \in Message
    BY MessageAssumption DEF Sound, TypeOK, Numbered, Message
  <2> QED
    BY <2>1, <2>2, ExcusesGrow
<1> QED
  BY <1>1, <1>2

LEMMA TriedInOrderNext ==
  ASSUME Sound, QueuedInOrder, [Next]_vars,
         NEW g \in items', NEW f \in mqtt_queue', f < g
  PROVE  f \in items' \/ Delayed(message[f])'
<1>1. SUFFICES ASSUME f \notin items' PROVE Delayed(message[f])'
  OBVIOUS
<1>2. CASE Fetches
  <2>1. f \in mqtt_queue
    BY <1>2 DEF Fetches, Fetch, tableVars
  <2> QED
    BY <1>1, <1>2, <2>1, FetchesFact DEF Sound
<1>3. CASE FinishPass \/ Crash
  BY <1>3 DEF FinishPass, Crash
<1>4. CASE g \in items /\ f \in mqtt_queue
  <2>1. f \in 1..last_row /\ message'[f] = message[f] /\ message[f] \in Message
    <3>1. f \in 1..last_row /\ message'[f] = message[f]
      BY <1>4, MessagesStay DEF Sound, TypeOK
    <3> QED
      BY <3>1, MessageAssumption DEF Sound, TypeOK, Numbered, Message
  <2>2. CASE f \notin items
    <3>1. Delayed(message[f])
      BY <1>4, <2>2 DEF QueuedInOrder
    <3>2. PICK m \in Message : m = message[f]
      BY <2>1
    <3>3. Delayed(m)'
      BY <3>1, <3>2, DelayedStays
    <3> QED
      BY <2>1, <3>2, <3>3
  <2>3. CASE f \in items
    <3>1. CASE \E r \in Row : Processes(r)
      <4>1. PICK r \in Row : Processes(r)
        BY <3>1
      <4>2. Defers(r) /\ f = r
        BY <1>1, <2>3, <4>1, ProcessesShape DEF Settles, Proceeds, GoDelete, Defers
      <4>3. f \in failures'
        BY <4>2 DEF Defers
      <4> QED
        BY <4>3 DEF Delayed
    <3>2. CASE RemoveRow
      BY <1>1, <2>3, <3>2 DEF RemoveRow
    <3>3. CASE RemoveRowError
      <4>1. f = current /\ current # 0
        BY <1>1, <2>1, <2>3, <3>3 DEF RemoveRowError
      <4>2. excuses'[message[f]] > 0
        BY <2>1, <3>3, <4>1 DEF Sound, TypeOK, RemoveRowError, RepeatedBy
      <4> QED
        BY <2>1, <4>2 DEF Delayed
    <3> QED
      BY <1>1, <1>2, <1>3, <2>3, <3>1, <3>2, <3>3, NextCases
      DEF Publish, QueueMessage, IgnoreMessage, AckWritten, EditTimeout, SessionLost,
          QueueMessageError, vars, pollVars
  <2> QED
    BY <2>2, <2>3
<1>5. CASE ~(Fetches \/ FinishPass \/ Crash)
  <2>1. items' \subseteq items
    <3>1. ASSUME NEW r \in Row, Processes(r)
          PROVE  items' \subseteq items
      BY <3>1, ProcessesShape DEF Settles, Defers, Proceeds, GoDelete
    <3> QED
      BY <1>5, <3>1, NextCases
      DEF Publish, QueueMessage, IgnoreMessage, AckWritten, RemoveRow, EditTimeout,
          SessionLost, QueueMessageError, RemoveRowError, vars, pollVars
  <2>2. g \in 1..last_row
    BY <2>1 DEF Sound, TypeOK, Placed
  <2>3. f \in mqtt_queue
    <3>1. last_row \in Nat
      BY MessageAssumption DEF Sound, TypeOK
    <3>2. f # last_row + 1
      <4>1. f \in Nat
        BY SoundNext DEF Sound, TypeOK
      <4> QED
        BY <2>2, <3>1, <4>1
    <3> QED
      BY <3>2, RowsStay
  <2> QED
    BY <1>4, <2>1, <2>3
<1> QED
  BY <1>2, <1>3, <1>5

LEMMA QueuedInOrderNext == Sound /\ QueuedInOrder /\ [Next]_vars => QueuedInOrder'
<1> SUFFICES ASSUME Sound, QueuedInOrder, [Next]_vars PROVE QueuedInOrder'
  OBVIOUS
<1>1. CASE UNCHANGED <<message, last_row>>
  BY <1>1, OrderNext, TriedInOrderNext DEF QueuedInOrder
<1>2. ASSUME NEW k \in Message, QueueMessage(k), Open(k), k \in 1..sent,
             \A n \in Undelivered : k <= n,
             last_row' = last_row + 1,
             message'[last_row'] = k,
             \A r \in 1..last_row : message'[r] = message[r]
      PROVE  QueuedInOrder'
  <2>1. last_row \in Nat /\ sent \in Nat
    BY MessageAssumption DEF Sound, TypeOK
  <2>2. \A r \in 1..last_row' : r = last_row' \/ r \in 1..last_row
    BY <1>2, <2>1
  <2>3. ASSUME NEW m \in Message, m < k, Open(m)'
        PROVE  excuses'[m] > 0
    <3>1. ~Open(m)
      BY <1>2, <2>1, <2>3 DEF Open, Message
    <3> QED
      BY <2>3, <3>1, OpensByFault
  <2>4. ASSUME NEW r \in 1..last_row, k < message[r]
        PROVE  excuses'[k] > 0
    <3>1. excuses[k] > 0
      BY <1>2, <2>4 DEF QueuedInOrder
    <3> QED
      BY <3>1, ExcusesGrow
  <2>5. \A r \in 1..last_row' : \A m \in Message :
          m < message'[r] /\ Open(m)' => excuses'[m] > 0
    BY <1>2, <2>2, <2>3, OrderNext
  <2>6. \A s \in 1..last_row' : \A r \in 1..s :
          message'[s] < message'[r] => excuses'[message'[s]] > 0
    <3> SUFFICES ASSUME NEW s \in 1..last_row', NEW r \in 1..s, message'[s] < message'[r]
                 PROVE  excuses'[message'[s]] > 0
      OBVIOUS
    <3>1. CASE s \in 1..last_row
      <4>1. r \in 1..last_row
        BY <2>1, <3>1
      <4> QED
        BY <1>2, <3>1, <4>1, OrderNext
    <3>2. CASE s = last_row'
      <4>1. CASE r = last_row'
        BY <1>2, <3>2, <4>1 DEF Message
      <4>2. CASE r \in 1..last_row
        BY <1>2, <2>4, <3>2, <4>2
      <4> QED
        BY <1>2, <2>1, <3>2, <4>1, <4>2
    <3> QED
      BY <2>2, <3>1, <3>2
  <2> QED
    BY <2>5, <2>6, TriedInOrderNext DEF QueuedInOrder
<1> QED
  BY <1>1, <1>2, RowsStay

LEMMA NewestAppliedNext ==
  Sound /\ QueuedInOrder /\ NewestApplied /\ [Next]_vars => NewestApplied'
<1> SUFFICES ASSUME Sound, QueuedInOrder, NewestApplied, [Next]_vars,
                    NEW m \in Message, m < remote'.user, ~Delayed(m)'
             PROVE  ~Open(m)' /\ Live(m)' = {}
  BY DEF NewestApplied
<1>1. ~Delayed(m) /\ excuses[m] \in Nat /\ ~(excuses[m] > 0) /\ ~(excuses'[m] > 0)
  <2>1. ~Delayed(m)
    BY DelayedStays
  <2>2. ~(excuses'[m] > 0)
    BY DEF Delayed
  <2> QED
    BY <2>1, <2>2, ExcusesGrow DEF Delayed
<1>2. ~Open(m) /\ Live(m) = {}
  <2>1. CASE m < remote.user
    BY <1>1, <2>1 DEF NewestApplied
  <2>2. CASE ~(m < remote.user)
    <3>1. ~EditTimeout
      BY <2>2 DEF Sound, TypeOK, EditTimeout
    <3>2. remote' # remote
      BY <2>2
    <3>3. PICK r \in Row : /\ pc = "update"
                           /\ r \in items /\ r = First(items)
                           /\ remote'.user = message[r]
      BY <3>1, <3>2, RemoteChanges
    <3>4. r \in 1..last_row /\ current = 0 /\ last_row \in Nat
      BY <3>3, MessageAssumption DEF Sound, TypeOK, Placed
    <3>5. ~Open(m)
      BY <1>1, <3>3, <3>4 DEF QueuedInOrder
    <3>6. ASSUME NEW f \in Live(m) PROVE FALSE
      <4>1. f \in mqtt_queue /\ message[f] = m /\ f \in 1..last_row
        BY <3>6 DEF Sound, TypeOK, Live
      <4>2. CASE f < r
        <5>1. f \in items
          BY <1>1, <3>3, <4>1, <4>2 DEF QueuedInOrder
        <5>2. items \in SUBSET Nat
          BY DEF Sound, TypeOK, Row
        <5>3. First(items) <= f
          BY <5>1, <5>2, FirstFact
        <5> QED
          BY <3>3, <3>4, <4>1, <4>2, <5>3
      <4>3. CASE ~(f < r)
        <5>1. r \in 1..f
          BY <3>4, <4>1, <4>3
        <5> QED
          BY <1>1, <3>3, <4>1, <5>1 DEF QueuedInOrder
      <4> QED
        BY <4>2, <4>3
    <3> QED
      BY <3>5, <3>6
  <2> QED
    BY <2>1, <2>2
<1>3. ~Open(m)'
  BY <1>1, <1>2, OpensByFault
<1>4. Live(m)' = {}
  BY <1>1, <1>2, LivesByFault
<1> QED
  BY <1>3, <1>4

(* The user of a policy message gives way to that of an older one only when *)
(* the older one failed an attempt before or was delivered twice: the table *)
(* is read in the order of insertion, and rows are taken from a batch in     *)
(* theirs (poll.rs:245-370, db.rs:356-370).                                  *)
THEOREM OlderNeedsFailure == Spec => OlderWinsOnlyAfterFailure
<1> DEFINE Delays == \A m \in Message :
                       remote'.user = m /\ m < remote.user
                         => excuses[m] > 0 \/ \E r \in failures : message[r] = m
<1>1. Init => Sound /\ QueuedInOrder /\ NewestApplied
  <2> SUFFICES ASSUME Init PROVE QueuedInOrder /\ NewestApplied
    BY TypeInit DEF Sound
  <2>1. last_row = 0 /\ items = {} /\ remote.user = 0
    BY DEF Init
  <2> QED
    BY <2>1 DEF QueuedInOrder, NewestApplied, Message
<1>2. Sound /\ QueuedInOrder /\ NewestApplied /\ [Next]_vars
        => (Sound /\ QueuedInOrder /\ NewestApplied)'
  BY SoundNext, QueuedInOrderNext, NewestAppliedNext
<1>3. Sound /\ QueuedInOrder /\ NewestApplied /\ [Next]_vars => [Delays]_vars
  <2> SUFFICES ASSUME Sound, NewestApplied, [Next]_vars,
                      NEW m \in Message, remote'.user = m, m < remote.user
               PROVE  Delayed(m)
    BY DEF Delayed
  <2>1. m \in Nat
    BY MessageAssumption DEF Message
  <2>2. remote'.user # remote.user
    BY <2>1
  <2>3. ~EditTimeout
    BY <2>2 DEF Sound, TypeOK, EditTimeout
  <2>4. PICK r \in Row : pc = "update" /\ r \in items /\ remote'.user = message[r]
    BY <2>2, <2>3, RemoteChanges
  <2>5. r \in Live(m)
    BY <2>4 DEF Sound, TypeOK, Placed, Live
  <2> QED
    BY <2>5 DEF NewestApplied
<1> QED
  BY <1>1, <1>2, <1>3, PTL DEF Spec, OlderWinsOnlyAfterFailure

================================================================================
