--------------------------- MODULE EventQueueProofs ---------------------------
(***************************************************************************)
(* What EventQueue promises for every number of events, every batch size,  *)
(* retry limit and poll interval and any number of faults.                 *)
(***************************************************************************)
EXTENDS EventQueue, FiniteSetTheorems, TLAPS

(* The retry limit as a count is positive, and Increment stays below it. *)
LEMMA CountCapType == CountCap \in Nat \ {0}
  BY LimitAssumption DEF CountCap

LEMMA IncrementType ==
  ASSUME NEW n \in 0..CountCap
  PROVE  /\ Increment(n) \in 0..CountCap
         /\ Increment(n) >= n
         /\ Increment(n) > 0
  BY CountCapType DEF Increment

(* An attempt ends with verdicts of the known kinds. *)
LEMMA JudgementType ==
  ASSUME NEW a
  PROVE  Judgement(a) \subseteq Verdicts
  BY DEF Judgement, Verdicts

(* Doubling keeps the interval between its bounds, and at least doubles the *)
(* shortest one.                                                            *)
LEMMA BackoffType ==
  ASSUME interval_ms \in PollMin..PollRetryMax
  PROVE  /\ Backoff \in PollMin..PollRetryMax
         /\ Backoff >= 2 * PollMin
  BY IntervalAssumption DEF Backoff

(* A batch is made of rows of the table, and leaves out no older row. *)
LEMMA OldestRowsFact ==
  ASSUME NEW S, NEW B \in OldestRows(S)
  PROVE  /\ B \subseteq S
         /\ \A e \in B, f \in S \ B : Older(e, f)
  BY DEF OldestRows

(* A batch cut short is the front of one, and leaves out no older row either. *)
LEMMA CutShortFact ==
  ASSUME TypeOK, FetchCutShort
  PROVE  /\ items' \subseteq event_items
         /\ \A e \in items', f \in event_items \ items' : Older(e, f)
         /\ items' \cup left_out' \in OldestRows(event_items)
         /\ left_out' \subseteq event_items
<1>1. PICK batch \in OldestRows(event_items) : \E unread \in batch :
        /\ items' = {e \in batch : Older(e, unread)}
        /\ left_out' = batch \ items'
  BY DEF FetchCutShort
<1>2. batch \subseteq event_items /\ \A e \in batch, f \in event_items \ batch : Older(e, f)
  BY OldestRowsFact
<1>3. \A e \in items', f \in batch \ items' : Older(e, f)
  BY <1>1, <1>2 DEF TypeOK, Older
<1>4. items' \cup left_out' = batch
  BY <1>1
<1> QED
  BY <1>1, <1>2, <1>3, <1>4

--------------------------------------------------------------------------------
(* Every variable keeps its type: in particular the poll interval stays in *)
(* its bounds through any sequence of backoffs (poll.rs:46, 57), and the   *)
(* retry counters never pass the limit.                                    *)
LEMMA TypeInit == Init => TypeOK
<1> SUFFICES ASSUME Init PROVE TypeOK
  OBVIOUS
<1>1. had_failures \in BOOLEAN
  BY Zenon DEF Init
<1>2. 0 \in 0..CountCap /\ 0 \in 0..MaxFaults /\ PollMax \in PollMin..PollRetryMax
  BY CountCapType, LimitAssumption, IntervalAssumption
<1> QED
  BY <1>1, <1>2 DEF Init, TypeOK, Replies

LEMMA TypeHttp ==
  ASSUME TypeOK, NEW e \in Event,
         \/ PostEventInvalid(e) \/ PostEventInsert(e) \/ PostEventInsertFails(e)
         \/ PostEventSelect(e) \/ PostEventSelectFails(e) \/ EnqueueEvent(e)
  PROVE  TypeOK'
  BY LimitAssumption
  DEF TypeOK, PostEventInvalid, PostEventInsert, PostEventInsertFails,
      PostEventSelect, PostEventSelectFails, EnqueueEvent, InsertRow, Fault,
      Replies, tableVars, httpVars, pollVars, historyVars

LEMMA TypeSend ==
  ASSUME TypeOK, NEW e \in Event, NEW a, SendEvent(e, a)
  PROVE  TypeOK'
<1>1. /\ Attempt(e, a)
      /\ retry_counts[e] \in 0..CountCap
      /\ failures[e] \in 0..CountCap
      /\ verdicts[e] \in SUBSET Verdicts
  BY DEF TypeOK, SendEvent, SendSettled, SendExhausted, SendRetry, SendFailed
<1>2. /\ event_items' \subseteq Event
      /\ inserted_at' \in [Event -> Nat]
      /\ last_insert' \in Nat
      /\ container' \in Event \cup {NoEvent}
      /\ reply' \in [Event -> Replies]
      /\ interval_ms' \in PollMin..PollRetryMax
  BY <1>1 DEF TypeOK, Attempt, tableVars, httpVars
<1>3. /\ accepts' \in [Event -> Nat]
      /\ excuses' \in [Event -> Nat]
      /\ faults' \in 0..MaxFaults
  BY <1>1, LimitAssumption DEF TypeOK, Attempt, Fault
<1>7. left_out' \subseteq Event
  BY <1>1 DEF TypeOK, Attempt
<1>4. had_failures' \in BOOLEAN
  BY Zenon DEF TypeOK, SendEvent, SendSettled, SendExhausted, SendRetry, HadFailures
<1>5. /\ 0 \in 0..CountCap
      /\ Increment(retry_counts[e]) \in 0..CountCap
      /\ Increment(failures[e]) \in 0..CountCap
      /\ Judgement(a) \subseteq Verdicts
      /\ "exhausted" \in Verdicts
  BY <1>1, IncrementType, JudgementType, CountCapType DEF Verdicts
<1>6. /\ pc' \in {"sleep", "process", "delete"}
      /\ items' \subseteq Event
      /\ current' \in Event \cup {NoEvent}
      /\ retry_counts' \in [Event -> 0..CountCap]
      /\ failures' \in [Event -> 0..CountCap]
      /\ verdicts' \in [Event -> SUBSET Verdicts]
  <2>1. CASE SendSettled(e, a)
    BY <2>1, <1>5, <1>1 DEF TypeOK, SendSettled, GoDelete
  <2>2. CASE SendExhausted(e, a)
    BY <2>2, <1>5, <1>1 DEF TypeOK, SendExhausted, SendFailed, GoDelete
  <2>3. CASE SendRetry(e, a)
    BY <2>3, <1>5, <1>1 DEF TypeOK, SendRetry, SendFailed, RestOfBatch
  <2> QED
    BY <2>1, <2>2, <2>3 DEF SendEvent
<1> QED
  BY <1>2, <1>3, <1>4, <1>6, <1>7 DEF TypeOK

LEMMA TypeNext == TypeOK /\ [Next]_vars => TypeOK'
<1> SUFFICES ASSUME TypeOK, [Next]_vars PROVE TypeOK'
  OBVIOUS
<1>1. ASSUME NEW e \in Event,
             \/ PostEventInvalid(e) \/ PostEventInsert(e) \/ PostEventInsertFails(e)
             \/ PostEventSelect(e) \/ PostEventSelectFails(e) \/ EnqueueEvent(e)
      PROVE  TypeOK'
  BY <1>1, TypeHttp
<1>2. ASSUME NEW e \in Event, NEW a \in AnswersTo(e), SendEvent(e, a)
      PROVE  TypeOK'
  BY <1>2, TypeSend
<1>3. CASE FetchEvents
  <2>1. items' \subseteq Event /\ had_failures' = FALSE
    BY <1>3, OldestRowsFact DEF TypeOK, FetchEvents
  <2> QED
    BY <1>3, <2>1 DEF TypeOK, FetchEvents, tableVars, httpVars, historyVars
<1>4. CASE FetchNothing
  BY <1>4, IntervalAssumption
  DEF TypeOK, FetchNothing, tableVars, httpVars, historyVars
<1>5. CASE FetchUnreadable
  BY <1>5, IntervalAssumption, LimitAssumption
  DEF TypeOK, FetchUnreadable, Fault, tableVars, httpVars, historyVars
<1>6. CASE FetchError
  BY <1>6, BackoffType, LimitAssumption
  DEF TypeOK, FetchError, Fault, tableVars, httpVars, historyVars
<1>7. CASE RemoveEvent
  BY <1>7 DEF TypeOK, RemoveEvent, httpVars, historyVars
<1>8. CASE RemoveEventError
  <2>1. excuses' \in [Event -> Nat] /\ faults' \in 0..MaxFaults
    <3>1. faults' \in 0..MaxFaults
      BY <1>8, LimitAssumption DEF TypeOK, RemoveEventError, Fault
    <3>2. excuses' = [e \in Event |->
                        IF e = current THEN excuses[e] + 1 ELSE excuses[e]]
      BY <1>8 DEF TypeOK, RemoveEventError
    <3> QED
      BY <3>1, <3>2 DEF TypeOK
  <2> QED
    BY <1>8, <2>1 DEF TypeOK, RemoveEventError, tableVars, httpVars
<1>9. CASE FinishPass
  <2>1. NextInterval \in PollMin..PollRetryMax
    BY BackoffType, IntervalAssumption DEF TypeOK, NextInterval
  <2> QED
    BY <1>9, <2>1 DEF TypeOK, FinishPass, tableVars, httpVars, historyVars
<1>10. CASE Crash
  <2>1. /\ had_failures' \in BOOLEAN
        /\ retry_counts' \in [Event -> 0..CountCap]
        /\ interval_ms' \in PollMin..PollRetryMax
        /\ faults' \in 0..MaxFaults
    <3>1. had_failures' \in BOOLEAN
      BY <1>10, Zenon DEF Crash
    <3> QED
      BY <1>10, <3>1, CountCapType, IntervalAssumption, LimitAssumption
      DEF TypeOK, Crash, Fault
  <2>2. reply' \in [Event -> Replies] /\ excuses' \in [Event -> Nat]
    BY <1>10 DEF TypeOK, Crash, Replies
  <2> QED
    BY <1>10, <2>1, <2>2 DEF TypeOK, Crash, tableVars
<1>11. CASE UNCHANGED vars
  BY <1>11 DEF TypeOK, vars, tableVars, httpVars, pollVars, historyVars
<1>12. CASE FetchCutShort
  <2>1. items' \subseteq Event /\ left_out' \subseteq Event
    BY <1>12, CutShortFact DEF TypeOK
  <2>2. /\ faults' \in 0..MaxFaults
        /\ had_failures' = FALSE /\ pc' = "process"
        /\ UNCHANGED <<tableVars, httpVars, current, retry_counts, interval_ms,
                       historyVars>>
    BY <1>12, LimitAssumption DEF TypeOK, FetchCutShort, Fault
  <2> QED
    BY <2>1, <2>2 DEF TypeOK, tableVars, httpVars, historyVars
<1> QED
  BY <1>1, <1>2, <1>3, <1>4, <1>5, <1>6, <1>7, <1>8, <1>9, <1>10, <1>11, <1>12
  DEF Next, PollJob

THEOREM TypeCorrect == Spec => []TypeOK
  BY TypeInit, TypeNext, PTL DEF Spec

--------------------------------------------------------------------------------
(***************************************************************************)
(* The inductive invariant, in five parts.  Where the poll job is decides  *)
(* what it still owes: between fetch and FinishPass its batch consists of  *)
(* rows of the table, and it stands before a DELETE only with a verdict.   *)
(***************************************************************************)
Placed ==
  /\ items \subseteq event_items
  /\ pc = "sleep" => items = {}
  /\ pc = "delete" => current \in items /\ verdicts[current] # {}
  /\ pc # "delete" => current = NoEvent

Accounted ==
  /\ \A e \in event_items : Inserted(e)
  /\ \A e \in Event : reply[e] = "200" => Inserted(e)
  /\ \A e \in Event : Inserted(e) => e \in event_items \/ verdicts[e] # {}

(* The API has an unexcused acceptance only of the row about to be deleted. *)
AcceptedOnce ==
  \A e \in Event :
    /\ ~Inserted(e) => accepts[e] = 0
    /\ accepts[e] <= excuses[e] + 1
    /\ e \in event_items /\ e # current => accepts[e] <= excuses[e]

(* The counter the limit is compared with never runs ahead of the failures. *)
CountedRight ==
  \A e \in Event :
    /\ retry_counts[e] <= failures[e]
    /\ "exhausted" \in verdicts[e] => MaxRetries > 0 /\ failures[e] >= MaxRetries

(* A row is older than one of the batch only if it is, or was, tried first. *)
InOrder ==
  /\ \A e \in Event : inserted_at[e] <= last_insert
  /\ \A e \in items, f \in event_items :
       Older(f, e) => f \in items \/ failures[f] > 0 \/ verdicts[f] # {}

(* Every answer that is not retried settles the event. *)
LEMMA SettledIsJudged ==
  ASSUME NEW e \in Event, NEW a \in AnswersTo(e), ~ShouldRetry(a)
  PROVE  Judgement(a) # {}
<1>1. a \in AllAnswers \cup {"unparsable"}
  BY EventAssumption DEF AnswersTo, AllAnswers
<1> QED
  BY <1>1 DEF AllAnswers, ShouldRetry, Judgement

(* An answer that is retried and was an acceptance is a lost reply. *)
LEMMA RetriedAcceptance ==
  ASSUME NEW a, ShouldRetry(a), "accepted" \in Judgement(a)
  PROVE  a = "reply_lost"
  BY DEF ShouldRetry, Judgement

LEMMA SettledNotExhausted ==
  ASSUME NEW a
  PROVE  "exhausted" \notin Judgement(a)
  BY DEF Judgement

(* Where the poll job is: inductive by itself. *)
LEMMA PlacedNext == TypeOK /\ Placed /\ [Next]_vars => Placed'
<1> SUFFICES ASSUME TypeOK, Placed, [Next]_vars PROVE Placed'
  OBVIOUS
<1>1. ASSUME NEW e \in Event,
             \/ PostEventInvalid(e) \/ PostEventInsert(e) \/ PostEventInsertFails(e)
             \/ PostEventSelect(e) \/ PostEventSelectFails(e) \/ EnqueueEvent(e)
      PROVE  Placed'
  BY <1>1
  DEF Placed, PostEventInvalid, PostEventInsert, PostEventInsertFails,
      PostEventSelect, PostEventSelectFails, EnqueueEvent, InsertRow,
      tableVars, pollVars, historyVars
<1>2. ASSUME NEW e \in Event, NEW a \in AnswersTo(e), SendEvent(e, a)
      PROVE  Placed'
  <2>1. /\ pc = "process" /\ e \in items /\ current = NoEvent
        /\ event_items' = event_items
        /\ verdicts[e] \subseteq Verdicts
    BY <1>2 DEF TypeOK, Placed, SendEvent, SendSettled, SendExhausted, SendRetry,
                SendFailed, Attempt, tableVars
  <2>2. CASE SendSettled(e, a)
    BY <2>1, <2>2, SettledIsJudged DEF TypeOK, Placed, SendSettled, GoDelete
  <2>3. CASE SendExhausted(e, a)
    BY <2>1, <2>3 DEF TypeOK, Placed, SendExhausted, GoDelete
  <2>4. CASE SendRetry(e, a)
    BY <2>1, <2>4 DEF TypeOK, Placed, SendRetry, RestOfBatch
  <2> QED
    BY <1>2, <2>2, <2>3, <2>4 DEF SendEvent
<1>3. CASE FetchEvents
  BY <1>3, OldestRowsFact DEF Placed, FetchEvents, tableVars, historyVars
<1>4. CASE FetchNothing \/ FetchUnreadable \/ FetchError
  BY <1>4 DEF Placed, FetchNothing, FetchUnreadable, FetchError, tableVars, historyVars
<1>5. CASE RemoveEvent \/ RemoveEventError
  BY <1>5 DEF Placed, RemoveEvent, RemoveEventError, tableVars, historyVars
<1>6. CASE FinishPass
  BY <1>6 DEF Placed, FinishPass, tableVars, historyVars
<1>7. CASE Crash
  BY <1>7 DEF Placed, Crash, tableVars
<1>8. CASE UNCHANGED vars
  BY <1>8 DEF Placed, vars, tableVars, pollVars, historyVars
<1>9. CASE FetchCutShort
  BY <1>9, CutShortFact DEF Placed, FetchCutShort, tableVars, historyVars
<1> QED
  BY <1>1, <1>2, <1>3, <1>4, <1>5, <1>6, <1>7, <1>8, <1>9 DEF Next, PollJob

(* What every step does to the table: rows are added by an insertion of an *)
(* event that had none, and removed by RemoveEvent alone.                  *)
LEMMA AccountedNext == TypeOK /\ Placed /\ Accounted /\ [Next]_vars => Accounted'
<1> SUFFICES ASSUME TypeOK, Placed, Accounted, [Next]_vars PROVE Accounted'
  OBVIOUS
<1>1. ASSUME NEW e \in Event, PostEventInsert(e) \/ EnqueueEvent(e)
      PROVE  Accounted'
  BY <1>1 DEF TypeOK, Accounted, Inserted, PostEventInsert, EnqueueEvent, InsertRow,
              httpVars, historyVars
<1>2. ASSUME NEW e \in Event,
             \/ PostEventInvalid(e) \/ PostEventInsertFails(e)
             \/ PostEventSelect(e) \/ PostEventSelectFails(e)
      PROVE  Accounted'
  BY <1>2
  DEF TypeOK, Accounted, Inserted, PostEventInvalid, PostEventInsertFails,
      PostEventSelect, PostEventSelectFails, tableVars, historyVars
<1>3. ASSUME NEW e \in Event, NEW a \in AnswersTo(e), SendEvent(e, a)
      PROVE  Accounted'
  <2>1. UNCHANGED <<tableVars, httpVars>>
    BY <1>3 DEF SendEvent, SendSettled, SendExhausted, SendRetry, SendFailed, Attempt
  <2>2. \A f \in Event : verdicts[f] \subseteq verdicts'[f]
    BY <1>3 DEF TypeOK, SendEvent, SendSettled, SendExhausted, SendRetry
  <2> QED
    BY <2>1, <2>2 DEF TypeOK, Accounted, Inserted, tableVars, httpVars
<1>4. CASE RemoveEvent
  BY <1>4 DEF TypeOK, Placed, Accounted, Inserted, RemoveEvent, httpVars, historyVars
<1>5. CASE Crash
  BY <1>5 DEF TypeOK, Accounted, Inserted, Crash, tableVars
<1>6. CASE \/ FetchEvents \/ FetchCutShort \/ FetchNothing \/ FetchUnreadable
           \/ FetchError \/ RemoveEventError \/ FinishPass \/ UNCHANGED vars
  BY <1>6
  DEF Accounted, Inserted, FetchEvents, FetchCutShort, FetchNothing, FetchUnreadable,
      FetchError, RemoveEventError, FinishPass, vars, tableVars, httpVars, historyVars
<1> QED
  BY <1>1, <1>2, <1>3, <1>4, <1>5, <1>6 DEF Next, PollJob

(* Whoever was told "200" is not forgotten: for any number of events and   *)
(* faults, a row that was inserted is in the table or has a verdict.        *)
THEOREM NothingLostSilently == Spec => []NoSilentLoss
<1>1. Init => TypeOK /\ Placed /\ Accounted
  BY TypeInit DEF Init, Placed, Accounted, Inserted
<1>2. TypeOK /\ Placed /\ Accounted /\ [Next]_vars
        => (TypeOK /\ Placed /\ Accounted)'
  BY TypeNext, PlacedNext, AccountedNext
<1>3. Accounted => NoSilentLoss
  BY DEF Accounted, NoSilentLoss
<1> QED
  BY <1>1, <1>2, <1>3, PTL DEF Spec

--------------------------------------------------------------------------------
(* Acceptances are paid for one by one: the row about to be deleted has one *)
(* in hand, and a fault that keeps such a row is counted as its excuse.     *)
LEMMA AcceptedOnceNext ==
  TypeOK /\ Placed /\ Accounted /\ AcceptedOnce /\ [Next]_vars => AcceptedOnce'
<1> SUFFICES ASSUME TypeOK, Placed, Accounted, AcceptedOnce, [Next]_vars
             PROVE  AcceptedOnce'
  OBVIOUS
<1>1. ASSUME NEW e \in Event, PostEventInsert(e) \/ EnqueueEvent(e)
      PROVE  AcceptedOnce'
  <2>1. /\ ~Inserted(e)
        /\ InsertRow(e)
        /\ UNCHANGED <<accepts, excuses, current>>
    BY <1>1 DEF PostEventInsert, EnqueueEvent, Unanswered, pollVars, historyVars
  <2>2. \A f \in Event : f # e => inserted_at'[f] = inserted_at[f]
    BY <2>1 DEF TypeOK, InsertRow
  <2> QED
    BY <2>1, <2>2 DEF TypeOK, AcceptedOnce, Inserted, InsertRow
<1>2. ASSUME NEW e \in Event,
             \/ PostEventInvalid(e) \/ PostEventInsertFails(e)
             \/ PostEventSelect(e) \/ PostEventSelectFails(e)
      PROVE  AcceptedOnce'
  BY <1>2
  DEF AcceptedOnce, Inserted, PostEventInvalid, PostEventInsertFails,
      PostEventSelect, PostEventSelectFails, tableVars, pollVars, historyVars
<1>3. ASSUME NEW e \in Event, NEW a \in AnswersTo(e), SendEvent(e, a)
      PROVE  AcceptedOnce'
  <2>1. /\ Attempt(e, a)
        /\ e \in event_items
        /\ Inserted(e)
        /\ current = NoEvent
        /\ e # NoEvent
        /\ UNCHANGED <<event_items, inserted_at>>
    BY <1>3, EventAssumption
    DEF Placed, Accounted, SendEvent, SendSettled, SendExhausted, SendRetry,
        SendFailed, Attempt, tableVars
  <2>2. current' \in {NoEvent, e}
    BY <1>3, <2>1 DEF SendEvent, SendSettled, SendExhausted, SendRetry, GoDelete
  <2>3. /\ accepts[e] \in Nat /\ excuses[e] \in Nat
        /\ accepts[e] <= excuses[e]
    BY <2>1 DEF TypeOK, AcceptedOnce
  <2>4. \A f \in Event : f # e => accepts'[f] = accepts[f] /\ excuses'[f] = excuses[f]
    BY <2>1 DEF TypeOK, Attempt
  <2>5. /\ accepts'[e] <= excuses'[e] + 1
        /\ current' # e => accepts'[e] <= excuses'[e]
    <3>1. CASE a = "reply_lost"
      BY <2>1, <2>3, <3>1 DEF TypeOK, Attempt
    <3>2. CASE a # "reply_lost" /\ "accepted" \in Judgement(a)
      <4>1. SendSettled(e, a)
        BY <1>3, <3>2, RetriedAcceptance
        DEF SendEvent, SendExhausted, SendRetry, SendFailed
      <4> QED
        BY <2>1, <2>3, <3>2, <4>1 DEF TypeOK, Attempt, SendSettled, GoDelete
    <3>3. CASE a # "reply_lost" /\ "accepted" \notin Judgement(a)
      BY <2>1, <2>3, <3>3 DEF TypeOK, Attempt
    <3> QED
      BY <3>1, <3>2, <3>3
  <2> QED
    BY <2>1, <2>2, <2>4, <2>5, EventAssumption DEF AcceptedOnce, Inserted
<1>4. CASE RemoveEvent
  BY <1>4 DEF TypeOK, Placed, AcceptedOnce, Inserted, RemoveEvent, historyVars
<1>5. CASE RemoveEventError \/ Crash
  <2>1. \A f \in Event :
          excuses'[f] = IF f = current THEN excuses[f] + 1 ELSE excuses[f]
    BY <1>5 DEF TypeOK, RemoveEventError, Crash
  <2>2. UNCHANGED <<tableVars, accepts>>
    BY <1>5 DEF RemoveEventError, Crash
  <2> QED
    BY <2>1, <2>2 DEF TypeOK, AcceptedOnce, Inserted, tableVars
<1>6. CASE \/ FetchEvents \/ FetchCutShort \/ FetchNothing \/ FetchUnreadable
           \/ FetchError \/ FinishPass \/ UNCHANGED vars
  BY <1>6
  DEF AcceptedOnce, Inserted, FetchEvents, FetchCutShort, FetchNothing,
      FetchUnreadable, FetchError, FinishPass, vars, tableVars, pollVars, historyVars
<1> QED
  BY <1>1, <1>2, <1>3, <1>4, <1>5, <1>6 DEF Next, PollJob

(* For any number of faults, the API has accepted an event at most once    *)
(* more often than faults kept the agent from noting an acceptance of it.   *)
THEOREM DuplicatesNeedFaults == Spec => []DuplicateNeedsFault
<1>1. Init => TypeOK /\ Placed /\ Accounted /\ AcceptedOnce
  BY TypeInit DEF Init, Placed, Accounted, AcceptedOnce, Inserted
<1>2. TypeOK /\ Placed /\ Accounted /\ AcceptedOnce /\ [Next]_vars
        => (TypeOK /\ Placed /\ Accounted /\ AcceptedOnce)'
  BY TypeNext, PlacedNext, AccountedNext, AcceptedOnceNext
<1>3. AcceptedOnce => DuplicateNeedsFault
  BY DEF AcceptedOnce, DuplicateNeedsFault
<1> QED
  BY <1>1, <1>2, <1>3, PTL DEF Spec

--------------------------------------------------------------------------------
(* The retry counter follows the failures from below, through restarts. *)
LEMMA CountedRightNext ==
  TypeOK /\ CountedRight /\ [Next]_vars => CountedRight'
<1> SUFFICES ASSUME TypeOK, CountedRight, [Next]_vars PROVE CountedRight'
  OBVIOUS
<1>1. ASSUME NEW e \in Event, NEW a \in AnswersTo(e), SendEvent(e, a)
      PROVE  CountedRight'
  <2>1. /\ retry_counts[e] \in 0..CountCap
        /\ failures[e] \in 0..CountCap
        /\ CountCap \in Nat
        /\ retry_counts[e] <= failures[e]
    BY CountCapType DEF TypeOK, CountedRight
  <2>2. /\ Increment(retry_counts[e]) <= Increment(failures[e])
        /\ failures[e] <= Increment(failures[e])
        /\ Increment(failures[e]) \in 0..CountCap
    BY <2>1 DEF Increment
  <2>3. CASE SendSettled(e, a)
    BY <2>1, <2>3, SettledNotExhausted DEF TypeOK, CountedRight, SendSettled, GoDelete
  <2>4. CASE SendExhausted(e, a)
    <3>1. MaxRetries > 0 /\ Increment(failures[e]) >= MaxRetries
      BY <2>1, <2>2, <2>4, LimitAssumption
      DEF SendExhausted, Exhausted, Increment
    <3> QED
      BY <2>1, <2>2, <2>4, <3>1
      DEF TypeOK, CountedRight, SendExhausted, SendFailed, GoDelete
  <2>5. CASE SendRetry(e, a)
    BY <2>1, <2>2, <2>5, LimitAssumption, SettledNotExhausted
    DEF TypeOK, CountedRight, SendRetry, SendFailed
  <2> QED
    BY <1>1, <2>3, <2>4, <2>5 DEF SendEvent
<1>2. CASE Crash
  BY <1>2 DEF TypeOK, CountedRight, Crash
<1>3. CASE ~Crash /\ UNCHANGED <<retry_counts, failures, verdicts>>
  BY <1>3 DEF CountedRight
<1> QED
  BY <1>1, <1>2, <1>3
  DEF Next, PollJob, PostEventInvalid, PostEventInsert, PostEventInsertFails,
      PostEventSelect, PostEventSelectFails, EnqueueEvent, FetchEvents, FetchCutShort,
      FetchNothing, FetchUnreadable, FetchError, RemoveEvent, RemoveEventError, FinishPass,
      vars, pollVars, historyVars

(* Whatever max_retries is, an event is given up only after that many      *)
(* failed attempts, and never when it is 0.                                 *)
THEOREM ExhaustedWasTried == Spec => []ExhaustedMeansTried
<1>1. Init => TypeOK /\ CountedRight
  BY TypeInit DEF Init, CountedRight
<1>2. TypeOK /\ CountedRight /\ [Next]_vars => (TypeOK /\ CountedRight)'
  BY TypeNext, CountedRightNext
<1>3. CountedRight => ExhaustedMeansTried
  BY DEF CountedRight, ExhaustedMeansTried
<1> QED
  BY <1>1, <1>2, <1>3, PTL DEF Spec

--------------------------------------------------------------------------------
(* An older row is in the batch, or was when the batch was fetched. *)
LEMMA InOrderNext ==
  TypeOK /\ Placed /\ Accounted /\ InOrder /\ [Next]_vars => InOrder'
<1> SUFFICES ASSUME TypeOK, Placed, Accounted, InOrder, [Next]_vars PROVE InOrder'
  OBVIOUS
<1>1. ASSUME NEW e \in Event, PostEventInsert(e) \/ EnqueueEvent(e)
      PROVE  InOrder'
  <2>1. InsertRow(e) /\ ~Inserted(e) /\ UNCHANGED <<items, failures, verdicts>>
    BY <1>1 DEF PostEventInsert, EnqueueEvent, Unanswered, pollVars, historyVars
  <2>2. \A f \in Event : f # e => inserted_at'[f] = inserted_at[f]
    BY <2>1 DEF TypeOK, InsertRow
  <2>3. inserted_at'[e] = last_insert + 1 /\ last_insert' = last_insert + 1
    BY <2>1 DEF TypeOK, InsertRow
  <2>4. \A f \in Event : inserted_at'[f] <= last_insert'
    BY <2>2, <2>3 DEF TypeOK, InOrder
  <2>5. \A f \in Event : inserted_at'[f] >= inserted_at[f]
    BY <2>2, <2>3 DEF TypeOK, InOrder
  <2>6. ASSUME NEW g \in items', NEW f \in event_items', Older(f, g)'
        PROVE  f \in items' \/ failures'[f] > 0 \/ verdicts'[f] # {}
    <3>1. f \in Event /\ g \in Event /\ g \in items
      BY <2>1, <2>6 DEF TypeOK, InsertRow
    <3>2. g # e
      BY <2>1, <3>1 DEF Placed, Accounted
    <3>3. f # e
      BY <2>2, <2>3, <2>6, <3>1, <3>2 DEF TypeOK, InOrder, Older
    <3> QED
      BY <2>1, <2>2, <2>6, <3>1, <3>2, <3>3 DEF InOrder, Older, InsertRow
  <2> QED
    BY <2>4, <2>6 DEF InOrder
<1>2. ASSUME NEW e \in Event, NEW a \in AnswersTo(e), SendEvent(e, a)
      PROVE  InOrder'
  <2>1. UNCHANGED tableVars /\ e \in items
    BY <1>2 DEF SendEvent, SendSettled, SendExhausted, SendRetry, SendFailed, Attempt
  <2>2. \A f \in Event : verdicts[f] \subseteq verdicts'[f]
    BY <1>2 DEF TypeOK, SendEvent, SendSettled, SendExhausted, SendRetry
  <2>3. /\ failures[e] \in Nat
        /\ Increment(failures[e]) > 0
        /\ failures[e] <= Increment(failures[e])
    BY IncrementType, CountCapType DEF TypeOK
  <2>4. \A f \in Event : failures[f] > 0 => failures'[f] > 0
    <3>1. CASE UNCHANGED failures
      BY <3>1
    <3>2. CASE failures' = [failures EXCEPT ![e] = Increment(@)]
      BY <2>3, <3>2 DEF TypeOK
    <3> QED
      BY <1>2, <3>1, <3>2 DEF SendEvent, SendSettled, SendExhausted, SendRetry, SendFailed
  <2>5. /\ items' \subseteq items
        /\ \A f \in items : f \in items' \/ failures'[f] > 0
    <3>1. CASE UNCHANGED items
      BY <3>1
    <3>2. CASE /\ items' = items \ {e}
               /\ failures' = [failures EXCEPT ![e] = Increment(@)]
      BY <2>3, <3>2 DEF TypeOK
    <3> QED
      BY <1>2, <3>1, <3>2
      DEF SendEvent, SendSettled, SendExhausted, SendRetry, SendFailed, GoDelete, RestOfBatch
  <2> QED
    BY <2>1, <2>2, <2>4, <2>5 DEF TypeOK, InOrder, Older, tableVars
<1>3. CASE FetchEvents
  <2>1. items' \subseteq event_items
    BY <1>3, OldestRowsFact DEF FetchEvents
  <2>2. \A g \in items', f \in event_items \ items' : Older(g, f)
    BY <1>3, OldestRowsFact DEF FetchEvents
  <2> QED
    BY <1>3, <2>1, <2>2
    DEF TypeOK, InOrder, Older, FetchEvents, tableVars, historyVars
<1>4. CASE RemoveEvent
  BY <1>4 DEF TypeOK, Placed, InOrder, Older, RemoveEvent, historyVars
<1>5. CASE RemoveEventError
  BY <1>5 DEF TypeOK, Placed, InOrder, Older, RemoveEventError, tableVars
<1>6. CASE Crash
  BY <1>6 DEF InOrder, Crash, tableVars
<1>7. ASSUME UNCHANGED <<tableVars, items, failures, verdicts>>
      PROVE  InOrder'
  BY <1>7 DEF InOrder, Older, tableVars
<1>8. ASSUME NEW e \in Event,
             \/ PostEventInvalid(e) \/ PostEventInsertFails(e)
             \/ PostEventSelect(e) \/ PostEventSelectFails(e)
      PROVE  InOrder'
  BY <1>7, <1>8
  DEF PostEventInvalid, PostEventInsertFails, PostEventSelect, PostEventSelectFails,
      pollVars, historyVars
<1>9. CASE \/ FetchNothing \/ FetchUnreadable \/ FetchError
           \/ FinishPass \/ UNCHANGED vars
  BY <1>7, <1>9
  DEF FetchNothing, FetchUnreadable, FetchError, FinishPass, vars, pollVars, historyVars
<1>10. CASE FetchCutShort
  <2>1. /\ items' \subseteq event_items
        /\ \A g \in items', f \in event_items \ items' : Older(g, f)
    BY <1>10, CutShortFact
  <2>2. UNCHANGED <<tableVars, historyVars>>
    BY <1>10 DEF FetchCutShort
  <2> QED
    BY <2>1, <2>2 DEF TypeOK, InOrder, Older, tableVars, historyVars
<1> QED
  BY <1>1, <1>2, <1>3, <1>4, <1>5, <1>6, <1>8, <1>9, <1>10 DEF Next, PollJob

(* In every execution the API accepts an event only when each older row    *)
(* still in the table has failed an attempt or been judged before.          *)
THEOREM FirstInFirstTried == Spec => NoOvertaking
<1> DEFINE Overtake ==
      \A e \in Event, f \in event_items :
        accepts'[e] # accepts[e] /\ Older(f, e) => failures[f] > 0 \/ verdicts[f] # {}
<1>1. Init => TypeOK /\ Placed /\ Accounted /\ InOrder
  BY TypeInit DEF Init, Placed, Accounted, InOrder, Inserted
<1>2. TypeOK /\ Placed /\ Accounted /\ InOrder /\ [Next]_vars
        => (TypeOK /\ Placed /\ Accounted /\ InOrder)'
  BY TypeNext, PlacedNext, AccountedNext, InOrderNext
<1>3. TypeOK /\ Placed /\ InOrder /\ [Next]_vars => [Overtake]_vars
  <2> SUFFICES ASSUME TypeOK, Placed, InOrder, [Next]_vars,
                      NEW e \in Event, NEW f \in event_items,
                      accepts'[e] # accepts[e], Older(f, e)
               PROVE  failures[f] > 0 \/ verdicts[f] # {}
    BY DEF Overtake
  <2>1. PICK g \in Event : \E a \in AnswersTo(g) : SendEvent(g, a)
    BY DEF Next, PollJob, PostEventInvalid, PostEventInsert, PostEventInsertFails,
           PostEventSelect, PostEventSelectFails, EnqueueEvent, FetchEvents,
           FetchCutShort, FetchNothing, FetchUnreadable, FetchError, RemoveEvent, RemoveEventError,
           FinishPass, Crash, vars, historyVars
  <2>2. PICK a \in AnswersTo(g) : Attempt(g, a)
    BY <2>1 DEF SendEvent, SendSettled, SendExhausted, SendRetry, SendFailed
  <2>3. e = g
    BY <2>2 DEF TypeOK, Attempt
  <2>4. f \in Event /\ ~Older(e, f)
    BY DEF TypeOK, Older
  <2> QED
    BY <2>2, <2>3, <2>4 DEF InOrder, Attempt, TypeOK, Older
<1> QED
  BY <1>1, <1>2, <1>3, PTL DEF Spec, NoOvertaking

--------------------------------------------------------------------------------
(* A step of the queue is one of the relay, or invisible to it. *)
LEMMA RelayStep ==
  ASSUME TypeOK, Placed, Accounted, [Next]_vars
  PROVE  [R!Next]_(R!relayVars)
<1> DEFINE seen == {f \in Event : Inserted(f)}
<1>1. ASSUME NEW e \in Event, PostEventInsert(e) \/ EnqueueEvent(e)
      PROVE  R!Accept(e)
  <2>1. InsertRow(e) /\ ~Inserted(e) /\ UNCHANGED verdicts
    BY <1>1 DEF PostEventInsert, EnqueueEvent, Unanswered, historyVars
  <2>2. seen' = seen \cup {e}
    BY <2>1 DEF TypeOK, InsertRow, Inserted
  <2> QED
    BY <2>1, <2>2 DEF R!Accept, InsertRow
<1>2. ASSUME NEW e \in Event, NEW a \in AnswersTo(e), SendEvent(e, a)
      PROVE  \E V \in SUBSET Verdicts : R!Judge(e, V)
  <2>1. UNCHANGED <<event_items, inserted_at>> /\ e \in event_items
    BY <1>2 DEF Placed, SendEvent, SendSettled, SendExhausted, SendRetry, SendFailed,
                Attempt, tableVars
  <2>2. seen' = seen
    BY <2>1 DEF Inserted
  <2>3. \E V \in SUBSET Verdicts : verdicts' = [verdicts EXCEPT ![e] = @ \cup V]
    <3>1. CASE verdicts' = [verdicts EXCEPT ![e] = @ \cup Judgement(a)]
      BY <3>1, JudgementType
    <3>2. CASE verdicts' = [verdicts EXCEPT ![e] = @ \cup Judgement(a) \cup {"exhausted"}]
      <4>1. Judgement(a) \cup {"exhausted"} \in SUBSET Verdicts
        BY JudgementType DEF Verdicts
      <4>2. verdicts' = [verdicts EXCEPT ![e] = @ \cup (Judgement(a) \cup {"exhausted"})]
        BY <3>2 DEF TypeOK
      <4> QED
        BY <4>1, <4>2
    <3> QED
      BY <1>2, <3>1, <3>2 DEF SendEvent, SendSettled, SendExhausted, SendRetry
  <2> QED
    BY <2>1, <2>2, <2>3 DEF R!Judge
<1>3. CASE RemoveEvent
  <2>1. current \in event_items /\ verdicts[current] # {}
    BY <1>3 DEF Placed, RemoveEvent
  <2>2. seen' = seen
    BY <1>3 DEF RemoveEvent, Inserted
  <2>3. {current} \in SUBSET Event /\ R!Release({current})
    BY <1>3, <2>1, <2>2 DEF TypeOK, RemoveEvent, R!Release, historyVars
  <2> QED
    BY <2>3 DEF R!Next
<1>4. ASSUME UNCHANGED <<inserted_at, event_items, verdicts>>
      PROVE  UNCHANGED R!relayVars
  BY <1>4 DEF R!relayVars, Inserted
<1>5. ASSUME NEW e \in Event,
             \/ PostEventInvalid(e) \/ PostEventInsertFails(e)
             \/ PostEventSelect(e) \/ PostEventSelectFails(e)
      PROVE  UNCHANGED R!relayVars
  BY <1>4, <1>5
  DEF PostEventInvalid, PostEventInsertFails, PostEventSelect, PostEventSelectFails,
      tableVars, historyVars
<1>6. CASE \/ FetchEvents \/ FetchCutShort \/ FetchNothing \/ FetchUnreadable
           \/ FetchError \/ RemoveEventError \/ FinishPass \/ Crash \/ UNCHANGED vars
  BY <1>4, <1>6
  DEF FetchEvents, FetchCutShort, FetchNothing, FetchUnreadable, FetchError,
      RemoveEventError, FinishPass, Crash, vars, tableVars, historyVars
<1> QED
  BY <1>1, <1>2, <1>3, <1>5, <1>6 DEF Next, PollJob, R!Next

(* The event queue implements Relay: SQLite holds every event from the     *)
(* INSERT to a verdict, in every execution and for every constant.          *)
THEOREM QueueIsRelay == Spec => RefinesRelay
<1>1. Init => TypeOK /\ Placed /\ Accounted
  BY TypeInit DEF Init, Placed, Accounted, Inserted
<1>2. TypeOK /\ Placed /\ Accounted /\ [Next]_vars
        => (TypeOK /\ Placed /\ Accounted)'
  BY TypeNext, PlacedNext, AccountedNext
<1>3. Init => R!Init
  BY DEF Init, R!Init, Inserted
<1>4. TypeOK /\ Placed /\ Accounted /\ [Next]_vars => [R!Next]_(R!relayVars)
  BY RelayStep
<1> QED
  BY <1>1, <1>2, <1>3, <1>4, PTL DEF Spec, RefinesRelay, R!Spec

--------------------------------------------------------------------------------
(***************************************************************************)
(* Why the backoff is in force.  An event with a failed attempt is found   *)
(* again in every batch: at most BatchSize rows, itself among them, are not *)
(* younger, rows only leave from before it and come after it.  So while it  *)
(* waits it is either still to be tried in this pass, or this pass has       *)
(* noted a failure, or it was left out because the SELECT failed before it. *)
(***************************************************************************)
Ahead(e) == {f \in event_items : ~Older(e, f)}

AtFront ==
  /\ IsFiniteSet(event_items)
  /\ \A e \in Event :
       e \in items \/ retry_counts[e] > 0 =>
         e \in event_items /\ Cardinality(Ahead(e)) <= BatchSize

FailureNoted ==
  /\ pc = "delete" => retry_counts[current] = 0
  /\ pc # "sleep" => \A e \in Event :
       retry_counts[e] > 0 => e \in items \/ had_failures \/ e \in left_out

(* No row of a batch has more rows before it than the batch has places. *)
LEMMA BatchIsInFront ==
  ASSUME IsFiniteSet(event_items), NEW B \in OldestRows(event_items), NEW e \in B
  PROVE  Cardinality(Ahead(e)) <= BatchSize
<1>1. /\ B \in SUBSET event_items
      /\ Cardinality(B) = IF BatchSize < Cardinality(event_items)
                          THEN BatchSize ELSE Cardinality(event_items)
      /\ \A f \in event_items \ B : Older(e, f)
  BY DEF OldestRows
<1>2. Ahead(e) \in SUBSET B
  BY <1>1 DEF Ahead
<1>3. IsFiniteSet(B) /\ Cardinality(event_items) \in Nat
  BY <1>1, FS_Subset, FS_CardinalityType
<1>4. Cardinality(Ahead(e)) <= Cardinality(B) /\ Cardinality(Ahead(e)) \in Nat
  BY <1>2, <1>3, FS_Subset, FS_CardinalityType
<1> DEFINE b == Cardinality(B)
           n == Cardinality(event_items)
           a == Cardinality(Ahead(e))
<1>5. /\ b = IF BatchSize < n THEN BatchSize ELSE n
      /\ a <= b /\ a \in Nat /\ n \in Nat
  BY <1>1, <1>3, <1>4
<1> HIDE DEF a, b, n
<1>6. a <= BatchSize
  BY <1>5, LimitAssumption
<1> QED
  BY <1>6 DEF a

(* Conversely, a row with so few before it is in every batch. *)
LEMMA FrontIsFetched ==
  ASSUME TypeOK, IsFiniteSet(event_items), NEW B \in OldestRows(event_items),
         NEW e \in event_items, Cardinality(Ahead(e)) <= BatchSize
  PROVE  e \in B
<1> SUFFICES ASSUME e \notin B PROVE FALSE
  OBVIOUS
<1>1. /\ B \in SUBSET event_items
      /\ Cardinality(B) = IF BatchSize < Cardinality(event_items)
                          THEN BatchSize ELSE Cardinality(event_items)
      /\ \A f \in B : Older(f, e)
  BY DEF OldestRows
<1>2. /\ IsFiniteSet(B)
      /\ Cardinality(event_items) \in Nat
      /\ Cardinality(B) <= Cardinality(event_items)
      /\ Cardinality(B) # Cardinality(event_items)
  BY <1>1, FS_Subset, FS_CardinalityType
<1>3. B \cup {e} \in SUBSET Ahead(e)
  <2>1. \A f \in B : ~Older(e, f)
    BY <1>1 DEF TypeOK, Older
  <2>2. ~Older(e, e)
    BY DEF TypeOK, Older
  <2> QED
    BY <1>1, <2>1, <2>2 DEF Ahead
<1>4. IsFiniteSet(Ahead(e))
  <2>1. Ahead(e) \in SUBSET event_items
    BY DEF Ahead
  <2> QED
    BY <2>1, FS_Subset
<1>5. Cardinality(B \cup {e}) = Cardinality(B) + 1
  BY <1>2, FS_AddElement
<1>6. Cardinality(B \cup {e}) <= Cardinality(Ahead(e))
  BY <1>3, <1>4, FS_Subset
<1> DEFINE b == Cardinality(B)
           n == Cardinality(event_items)
           a == Cardinality(Ahead(e))
<1>7. /\ b = IF BatchSize < n THEN BatchSize ELSE n
      /\ b # n /\ b + 1 <= a /\ a <= BatchSize
  BY <1>1, <1>2, <1>5, <1>6
<1>8. a \in Nat
  BY <1>4, FS_CardinalityType
<1> HIDE DEF a, b, n
<1> QED
  BY <1>7, <1>8, LimitAssumption

(* Rows that leave make no queue longer. *)
LEMMA AheadShrinks ==
  ASSUME NEW e \in Event, IsFiniteSet(event_items),
         event_items' \subseteq event_items, inserted_at' = inserted_at,
         Cardinality(Ahead(e)) <= BatchSize
  PROVE  Cardinality(Ahead(e)') <= BatchSize
<1>1. Ahead(e)' \in SUBSET Ahead(e) /\ Ahead(e) \in SUBSET event_items
  BY DEF Ahead, Older
<1>2. IsFiniteSet(Ahead(e))
  BY <1>1, FS_Subset
<1>3. /\ Cardinality(Ahead(e)') <= Cardinality(Ahead(e))
      /\ Cardinality(Ahead(e)') \in Nat /\ Cardinality(Ahead(e)) \in Nat
  BY <1>1, <1>2, FS_Subset, FS_CardinalityType
<1> DEFINE a == Cardinality(Ahead(e))
           b == Cardinality(Ahead(e)')
<1>4. b <= a /\ a <= BatchSize /\ a \in Nat /\ b \in Nat
  BY <1>3
<1> HIDE DEF a, b
<1>5. b <= BatchSize
  BY <1>4, LimitAssumption
<1> QED
  BY <1>5 DEF b

(* An insertion puts its row behind all others, with no failure yet. *)
LEMMA InsertBehind ==
  ASSUME TypeOK, Placed, Accounted, InOrder, AtFront, NEW e \in Event,
         ~Inserted(e), InsertRow(e), UNCHANGED <<items, retry_counts>>
  PROVE  AtFront'
<1>1. /\ event_items' = event_items \cup {e}
      /\ inserted_at'[e] = last_insert + 1
      /\ \A f \in Event : f # e => inserted_at'[f] = inserted_at[f]
  BY DEF TypeOK, InsertRow
<1>2. e \notin event_items
  BY DEF Accounted
<1>3. IsFiniteSet(event_items')
  BY <1>1, FS_AddElement DEF AtFront
<1>4. ASSUME NEW f \in Event, f \in items \/ retry_counts[f] > 0
      PROVE  f \in event_items' /\ Cardinality(Ahead(f)') <= BatchSize
  <2>1. f \in event_items /\ Cardinality(Ahead(f)) <= BatchSize
    BY <1>4 DEF AtFront
  <2>2. Older(f, e)'
    BY <1>1, <1>2, <2>1 DEF TypeOK, InOrder, Older
  <2>3. Ahead(f)' = Ahead(f)
    BY <1>1, <1>2, <2>1, <2>2 DEF TypeOK, Ahead, Older
  <2> QED
    BY <1>1, <2>1, <2>3
<1> QED
  BY <1>3, <1>4 DEF AtFront

(* Without an insertion it is enough that the events concerned remain so. *)
LEMMA FrontStays ==
  ASSUME AtFront, event_items' \subseteq event_items, inserted_at' = inserted_at,
         \A e \in Event : e \in items' \/ retry_counts'[e] > 0 =>
           e \in event_items' /\ (e \in items \/ retry_counts[e] > 0)
  PROVE  AtFront'
<1>1. IsFiniteSet(event_items')
  BY FS_Subset DEF AtFront
<1>2. ASSUME NEW e \in Event, e \in items' \/ retry_counts'[e] > 0
      PROVE  e \in event_items' /\ Cardinality(Ahead(e)') <= BatchSize
  <2>1. e \in event_items' /\ Cardinality(Ahead(e)) <= BatchSize
    BY <1>2 DEF AtFront
  <2> QED
    BY <2>1, AheadShrinks DEF AtFront
<1> QED
  BY <1>1, <1>2 DEF AtFront

LEMMA AtFrontNext ==
  TypeOK /\ Placed /\ Accounted /\ InOrder /\ AtFront /\ FailureNoted /\ [Next]_vars
    => AtFront'
<1> SUFFICES ASSUME TypeOK, Placed, Accounted, InOrder, AtFront, FailureNoted,
                    [Next]_vars
             PROVE  AtFront'
  OBVIOUS
<1>0. \A e \in Event : e \in items \/ retry_counts[e] > 0 => e \in event_items
  BY DEF AtFront
<1>1. ASSUME NEW e \in Event, PostEventInsert(e) \/ EnqueueEvent(e)
      PROVE  AtFront'
  BY <1>1, InsertBehind DEF PostEventInsert, EnqueueEvent, Unanswered, pollVars
<1>2. ASSUME NEW e \in Event, NEW a \in AnswersTo(e), SendEvent(e, a)
      PROVE  AtFront'
  <2>1. /\ UNCHANGED tableVars /\ e \in items
        /\ items' \subseteq items
        /\ \A f \in Event : f # e => retry_counts'[f] = retry_counts[f]
    BY <1>2
    DEF TypeOK, SendEvent, SendSettled, SendExhausted, SendRetry, SendFailed,
        Attempt, GoDelete, RestOfBatch
  <2> QED
    BY <1>0, <2>1, FrontStays DEF tableVars
<1>3. CASE FetchEvents
  <2>1. /\ items' \in OldestRows(event_items)
        /\ UNCHANGED <<event_items, inserted_at, retry_counts>>
    BY <1>3 DEF FetchEvents, tableVars
  <2>2. ASSUME NEW e \in Event, e \in items' \/ retry_counts'[e] > 0
        PROVE  e \in event_items' /\ Cardinality(Ahead(e)') <= BatchSize
    <3>1. Ahead(e)' = Ahead(e)
      BY <2>1 DEF Ahead, Older
    <3>2. CASE e \in items'
      BY <2>1, <3>1, <3>2, BatchIsInFront, OldestRowsFact DEF AtFront
    <3>3. CASE retry_counts'[e] > 0
      BY <2>1, <3>1, <3>3 DEF AtFront
    <3> QED
      BY <2>2, <3>2, <3>3
  <2> QED
    BY <2>1, <2>2 DEF AtFront
<1>4. CASE RemoveEvent
  <2>1. /\ event_items' = event_items \ {current} /\ items' = items \ {current}
        /\ UNCHANGED <<inserted_at, retry_counts>>
        /\ retry_counts[current] = 0
    BY <1>4 DEF RemoveEvent, FailureNoted
  <2> QED
    BY <1>0, <2>1, FrontStays
<1>5. CASE Crash
  <2>1. /\ UNCHANGED tableVars /\ items' = {}
        /\ \A e \in Event : retry_counts'[e] = 0
    BY <1>5 DEF Crash
  <2> QED
    BY <2>1, FrontStays DEF tableVars
<1>6. CASE /\ UNCHANGED <<event_items, inserted_at, retry_counts>>
           /\ items' \subseteq items
  BY <1>0, <1>6, FrontStays
<1>7. ASSUME NEW e \in Event,
             \/ PostEventInvalid(e) \/ PostEventInsertFails(e)
             \/ PostEventSelect(e) \/ PostEventSelectFails(e)
      PROVE  AtFront'
  BY <1>6, <1>7
  DEF PostEventInvalid, PostEventInsertFails, PostEventSelect, PostEventSelectFails,
      tableVars, pollVars
<1>8. CASE \/ FetchNothing \/ FetchUnreadable \/ FetchError \/ RemoveEventError
           \/ FinishPass \/ UNCHANGED vars
  BY <1>6, <1>8
  DEF FetchNothing, FetchUnreadable, FetchError, RemoveEventError, FinishPass, vars,
      tableVars, pollVars
<1>9. CASE FetchCutShort
  <2>1. /\ items' \cup left_out' \in OldestRows(event_items)
        /\ UNCHANGED <<event_items, inserted_at, retry_counts>>
    BY <1>9, CutShortFact DEF FetchCutShort, tableVars
  <2>2. ASSUME NEW e \in Event, e \in items' \/ retry_counts'[e] > 0
        PROVE  e \in event_items' /\ Cardinality(Ahead(e)') <= BatchSize
    <3>1. Ahead(e)' = Ahead(e)
      BY <2>1 DEF Ahead, Older
    <3>2. CASE e \in items'
      <4>1. e \in items' \cup left_out' /\ e \in event_items
        BY <1>9, <3>2, CutShortFact
      <4>2. Cardinality(Ahead(e)) <= BatchSize
        BY <2>1, <4>1, BatchIsInFront DEF AtFront
      <4> QED
        BY <2>1, <3>1, <4>1, <4>2
    <3>3. CASE retry_counts'[e] > 0
      BY <2>1, <3>1, <3>3 DEF AtFront
    <3> QED
      BY <2>2, <3>2, <3>3
  <2> QED
    BY <2>1, <2>2 DEF AtFront
<1> QED
  BY <1>1, <1>2, <1>3, <1>4, <1>5, <1>7, <1>8, <1>9 DEF Next, PollJob

LEMMA FailureNotedNext ==
  TypeOK /\ Placed /\ AtFront /\ FailureNoted /\ [Next]_vars => FailureNoted'
<1> SUFFICES ASSUME TypeOK, Placed, AtFront, FailureNoted, [Next]_vars
             PROVE  FailureNoted'
  OBVIOUS
<1>1. ASSUME NEW e \in Event, NEW a \in AnswersTo(e), SendEvent(e, a)
      PROVE  FailureNoted'
  <2>1. /\ pc = "process" /\ e \in items
        /\ \A f \in Event :
             retry_counts[f] > 0 => f \in items \/ had_failures \/ f \in left_out
        /\ left_out' = left_out
    BY <1>1 DEF FailureNoted, SendEvent, SendSettled, SendExhausted, SendRetry,
                SendFailed, Attempt
  <2>2. CASE SendSettled(e, a) \/ SendExhausted(e, a)
    <3>1. /\ GoDelete(e)
          /\ had_failures' = had_failures
      BY <2>2, Zenon DEF TypeOK, SendSettled, SendExhausted, HadFailures
    <3>2. /\ retry_counts'[e] = 0 /\ current' = e /\ items' = items
          /\ \A f \in Event : f # e => retry_counts'[f] = retry_counts[f]
      BY <3>1 DEF TypeOK, GoDelete
    <3> QED
      BY <2>1, <3>1, <3>2 DEF FailureNoted
  <2>3. CASE SendRetry(e, a)
    <3>1. had_failures'
      BY <2>3, Zenon DEF SendRetry, HadFailures
    <3>2. pc' = "process"
      BY <2>1, <2>3 DEF SendRetry
    <3> QED
      BY <3>1, <3>2 DEF FailureNoted
  <2> QED
    BY <1>1, <2>2, <2>3 DEF SendEvent
<1>2. CASE FetchEvents
  <2>1. /\ items' \in OldestRows(event_items) /\ pc' = "process"
        /\ UNCHANGED retry_counts
    BY <1>2 DEF FetchEvents
  <2>2. ASSUME NEW e \in Event, retry_counts'[e] > 0
        PROVE  e \in items'
    BY <2>1, <2>2, FrontIsFetched DEF AtFront
  <2> QED
    BY <2>1, <2>2 DEF FailureNoted
<1>3. CASE RemoveEvent \/ RemoveEventError
  <2>1. /\ pc = "delete" /\ pc' = "process" /\ items' = items \ {current}
        /\ UNCHANGED <<retry_counts, had_failures, left_out>>
    BY <1>3 DEF RemoveEvent, RemoveEventError
  <2> QED
    BY <2>1 DEF FailureNoted
<1>4. CASE FinishPass
  BY <1>4 DEF FailureNoted, FinishPass
<1>5. CASE Crash
  BY <1>5 DEF FailureNoted, Crash
<1>6. CASE UNCHANGED <<pc, items, current, retry_counts, had_failures, left_out>>
  BY <1>6 DEF FailureNoted
<1>7. ASSUME NEW e \in Event,
             \/ PostEventInvalid(e) \/ PostEventInsert(e) \/ PostEventInsertFails(e)
             \/ PostEventSelect(e) \/ PostEventSelectFails(e) \/ EnqueueEvent(e)
      PROVE  FailureNoted'
  BY <1>6, <1>7
  DEF PostEventInvalid, PostEventInsert, PostEventInsertFails, PostEventSelect,
      PostEventSelectFails, EnqueueEvent, pollVars
<1>8. CASE FetchNothing \/ FetchUnreadable \/ FetchError \/ UNCHANGED vars
  BY <1>6, <1>8 DEF FetchNothing, FetchUnreadable, FetchError, vars, pollVars
<1>9. CASE FetchCutShort
  <2>1. /\ items' \cup left_out' \in OldestRows(event_items) /\ pc' = "process"
        /\ UNCHANGED retry_counts
    BY <1>9, CutShortFact DEF FetchCutShort
  <2>2. ASSUME NEW e \in Event, retry_counts'[e] > 0
        PROVE  e \in items' \/ e \in left_out'
    <3>1. e \in items' \cup left_out'
      BY <2>1, <2>2, FrontIsFetched DEF AtFront
    <3> QED
      BY <3>1
  <2> QED
    BY <2>1, <2>2 DEF FailureNoted
<1> QED
  BY <1>1, <1>2, <1>3, <1>4, <1>5, <1>7, <1>8, <1>9 DEF Next, PollJob

LEMMA BackoffNext ==
  TypeOK /\ Placed /\ AtFront /\ FailureNoted /\ BackoffInForce /\ [Next]_vars
    => BackoffInForce'
<1> SUFFICES ASSUME TypeOK, Placed, AtFront, FailureNoted, BackoffInForce,
                    [Next]_vars,
                    pc' = "sleep", NEW e \in event_items' \ left_out',
                    retry_counts'[e] > 0
             PROVE  interval_ms' >= 2 * PollMin
  BY DEF BackoffInForce
<1>1. PollMax >= 2 * PollMin /\ Backoff >= 2 * PollMin
  BY IntervalAssumption, BackoffType DEF TypeOK
<1>2. CASE FetchNothing \/ FetchUnreadable \/ FetchError
  BY <1>1, <1>2 DEF FetchNothing, FetchUnreadable, FetchError
<1>3. CASE FinishPass
  <2>1. /\ e \in Event \ left_out /\ retry_counts[e] > 0 /\ pc # "sleep" /\ items = {}
        /\ interval_ms' = NextInterval
    BY <1>3 DEF TypeOK, FinishPass, tableVars
  <2>2. had_failures
    BY <2>1 DEF FailureNoted
  <2> QED
    BY <1>1, <2>1, <2>2 DEF NextInterval
<1>4. CASE Crash
  BY <1>1, <1>4 DEF Crash
<1>5. ASSUME NEW f \in Event, PostEventInsert(f) \/ EnqueueEvent(f)
      PROVE  interval_ms' >= 2 * PollMin
  <2>1. UNCHANGED <<pc, retry_counts, interval_ms, left_out>> /\ e \in Event
    BY <1>5 DEF TypeOK, PostEventInsert, EnqueueEvent, InsertRow, pollVars
  <2>2. e \in event_items
    BY <2>1 DEF AtFront
  <2> QED
    BY <2>1, <2>2 DEF BackoffInForce
<1>6. ASSUME UNCHANGED <<event_items, pc, retry_counts, interval_ms, left_out>>
      PROVE  interval_ms' >= 2 * PollMin
  BY <1>6 DEF BackoffInForce
<1>7. ASSUME NEW f \in Event,
             \/ PostEventInvalid(f) \/ PostEventInsertFails(f)
             \/ PostEventSelect(f) \/ PostEventSelectFails(f)
      PROVE  interval_ms' >= 2 * PollMin
  BY <1>6, <1>7
  DEF PostEventInvalid, PostEventInsertFails, PostEventSelect, PostEventSelectFails,
      tableVars, pollVars
<1>8. CASE UNCHANGED vars
  BY <1>6, <1>8 DEF vars, tableVars, pollVars
<1>9. ASSUME NEW f \in Event, NEW a \in AnswersTo(f), SendEvent(f, a)
      PROVE  FALSE
  BY <1>9
  DEF SendEvent, SendSettled, SendExhausted, SendRetry, SendFailed, Attempt, GoDelete
<1>10. ~FetchEvents /\ ~FetchCutShort /\ ~RemoveEvent /\ ~RemoveEventError
  BY DEF FetchEvents, FetchCutShort, RemoveEvent, RemoveEventError
<1> QED
  BY <1>2, <1>3, <1>4, <1>5, <1>7, <1>8, <1>9, <1>10 DEF Next, PollJob

(* Whatever the batch size and the intervals: the poll job sleeps for the   *)
(* short interval while an event that failed in this life of the process    *)
(* waits in the table only when its last SELECT failed before that row      *)
(* (poll.rs:40-59, db.rs:288-301).                                          *)
THEOREM BackoffIsKept == Spec => []BackoffInForce
<1> DEFINE Inv == /\ TypeOK /\ Placed /\ Accounted /\ InOrder
                  /\ AtFront /\ FailureNoted /\ BackoffInForce
<1>1. Init => Inv
  <2> SUFFICES ASSUME Init PROVE Inv
    OBVIOUS
  <2>1. TypeOK
    BY TypeInit
  <2>2. IsFiniteSet(event_items)
    BY FS_EmptySet DEF Init
  <2> QED
    BY <2>1, <2>2
    DEF Init, Placed, Accounted, InOrder, Inserted, AtFront, FailureNoted, BackoffInForce
<1>2. Inv /\ [Next]_vars => Inv'
  BY TypeNext, PlacedNext, AccountedNext, InOrderNext, AtFrontNext, FailureNotedNext,
     BackoffNext
<1>3. Inv => BackoffInForce
  OBVIOUS
<1> QED
  BY <1>1, <1>2, <1>3, PTL DEF Spec
================================================================================
