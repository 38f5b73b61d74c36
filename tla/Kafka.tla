-------------------------------- MODULE Kafka --------------------------------
(***************************************************************************)
(* The Kafka path (kafka.rs): no table, the offset the consumer group has  *)
(* committed says what has been dealt with.  Agents of one group consume   *)
(* one partition of the event topic; a message is sent to the ilert API    *)
(* as it is received, committed asynchronously when it needs no retry, and *)
(* otherwise the process ends so that it is read again.                    *)
(*                                                                         *)
(* Broker, group coordinator and librdkafka are external: at most one      *)
(* agent owns the partition, only its commits are accepted, one that       *)
(* handles a message can lose the partition but takes part in no new       *)
(* assignment, and a group without an offset starts at the end of the log  *)
(* (auto.offset.reset is not set).                                         *)
(***************************************************************************)
EXTENDS Naturals

CONSTANTS
  Agent,           \* the agents of the group
  NoAgent,         \* not an agent
  MaxMessages,     \* bound on the messages produced
  GroupHasOffset,  \* the group has committed before
  MaxFaults        \* bound on crashes, rebalances and lost replies

Message == 1..MaxMessages

(* How an attempt to send may end.  "settled" is every case without a retry: 202, client errors, messages    *)
(* that do not parse or are filtered.  "failed" is 429, a server or network *)
(* error; in "reply_lost" the network error hides that the API accepted.     *)
Answers == {"settled", "failed", "reply_lost"}

ASSUME KafkaAssumption ==
  /\ NoAgent \notin Agent
  /\ MaxMessages \in Nat
  /\ GroupHasOffset \in BOOLEAN
  /\ MaxFaults \in Nat

VARIABLES
  log,        \* messages 1..log have been produced
  committed,  \* messages 1..committed are behind the offset of the group
  has_offset, \* the group has an offset
  owner,      \* the agent the partition is assigned to
  position,   \* [Agent -> Nat], the last message received
  pc,         \* [Agent -> where run_kafka_job is]
  pending,    \* [Agent -> Nat], commit on its way, 0 if none
  outcome,    \* history: [Message -> SUBSET Answers], how attempts ended
  faults      \* faults so far

groupVars == <<committed, has_offset, owner>>
vars == <<log, groupVars, position, pc, pending, outcome, faults>>

(* The message needs no more attempts, whether or not the agent knows. *)
Taken(m) == outcome[m] \cap {"settled", "reply_lost"} # {}

TypeOK ==
  /\ log \in 0..MaxMessages
  /\ committed \in 0..log
  /\ has_offset \in BOOLEAN
  /\ owner \in Agent \cup {NoAgent}
  /\ position \in [Agent -> 0..log]
  /\ pc \in [Agent -> {"down", "recv", "send", "commit", "panic"}]
  /\ pending \in [Agent -> 0..log]
  /\ outcome \in [Message -> SUBSET Answers]
  /\ faults \in 0..MaxFaults

Init ==
  /\ log = 0
  /\ committed = 0
  /\ has_offset = GroupHasOffset
  /\ owner = NoAgent
  /\ position = [a \in Agent |-> 0]
  /\ pc = [a \in Agent |-> "down"]
  /\ pending = [a \in Agent |-> 0]
  /\ outcome = [m \in Message |-> {}]
  /\ faults = 0

Fault ==
  /\ faults < MaxFaults
  /\ faults' = faults + 1

Produce ==
  /\ log < MaxMessages
  /\ log' = log + 1
  /\ UNCHANGED <<groupVars, position, pc, pending, outcome, faults>>

(* The consumer is created and subscribed. *)
Start(a) ==
  /\ pc[a] = "down"
  /\ pc' = [pc EXCEPT ![a] = "recv"]
  /\ UNCHANGED <<log, groupVars, position, pending, outcome, faults>>

Assign(a) ==
  /\ owner = NoAgent
  /\ pc[a] = "recv"
  /\ owner' = a
  /\ position' = [position EXCEPT ![a] = IF has_offset THEN committed ELSE log]
  /\ UNCHANGED <<log, committed, has_offset, pc, pending, outcome, faults>>

(* The partition is taken away: the session of the agent timed out. *)
Revoke ==
  /\ owner # NoAgent
  /\ Fault
  /\ pending' = [pending EXCEPT ![owner] = 0]
  /\ owner' = NoAgent
  /\ UNCHANGED <<log, committed, has_offset, position, pc, outcome>>

Receive(a) ==
  /\ pc[a] = "recv"
  /\ owner = a
  /\ position[a] < log
  /\ position' = [position EXCEPT ![a] = @ + 1]
  /\ pc' = [pc EXCEPT ![a] = "send"]
  /\ UNCHANGED <<log, groupVars, pending, outcome, faults>>

(* A Kafka error, or the look at the running flag: the loop goes round. *)
ReceiveNothing(a) ==
  /\ pc[a] = "recv"
  /\ UNCHANGED vars

(* Mutant: a message that failed is passed over. *)
NeverRetry(ans) == FALSE

ShouldRetry(ans) == ans # "settled"

Send(a, ans) ==
  /\ pc[a] = "send"
  /\ IF ans = "reply_lost" THEN Fault ELSE UNCHANGED faults
  /\ outcome' = [outcome EXCEPT ![position[a]] = @ \cup {ans}]
  /\ pc' = [pc EXCEPT ![a] = IF ShouldRetry(ans) THEN "panic" ELSE "commit"]
  /\ UNCHANGED <<log, groupVars, position, pending>>

(* Mutant: the position of the consumer is committed, whoever owns it. *)
CommitUnowned(a) == [pending EXCEPT ![a] = position[a]]

(* Mutant: the offset after the next message is committed. *)
CommitNext(a) == [pending EXCEPT ![a] = IF owner = a THEN position[a] + 1 ELSE @]

(* The broker refuses the commit of an agent that lost the partition, which *)
(* commit_callback only logs.                                                *)
CommitOf(a) == [pending EXCEPT ![a] = IF owner = a THEN position[a] ELSE @]

CommitMessage(a) ==
  /\ pc[a] = "commit"
  /\ pending' = CommitOf(a)
  /\ pc' = [pc EXCEPT ![a] = "recv"]
  /\ UNCHANGED <<log, groupVars, position, outcome, faults>>

CommitArrives(a) ==
  /\ pending[a] # 0
  /\ committed' = pending[a]
  /\ has_offset' = TRUE
  /\ pending' = [pending EXCEPT ![a] = 0]
  /\ UNCHANGED <<log, owner, position, pc, outcome, faults>>

Exit(a) ==
  /\ pc' = [pc EXCEPT ![a] = "down"]
  /\ pending' = [pending EXCEPT ![a] = 0]
  /\ owner' = IF owner = a THEN NoAgent ELSE owner
  /\ UNCHANGED <<log, committed, has_offset, position, outcome>>

(* Five seconds after a failed message, the panic hook ends the process. *)
Panic(a) ==
  /\ pc[a] = "panic"
  /\ Exit(a)
  /\ UNCHANGED faults

Crash(a) ==
  /\ pc[a] # "down"
  /\ Fault
  /\ Exit(a)

Work(a) ==
  \/ Start(a)
  \/ Receive(a)
  \/ ReceiveNothing(a)
  \/ \E ans \in Answers \ {"reply_lost"} : Send(a, ans)
  \/ CommitMessage(a)
  \/ CommitArrives(a)
  \/ Panic(a)

Next ==
  \/ Produce
  \/ \E a \in Agent :
       \/ Work(a)
       \/ Assign(a)
       \/ Send(a, "reply_lost")
       \/ Crash(a)
  \/ Revoke

Spec == Init /\ [][Next]_vars

(* Whoever supervises the process starts it again, the coordinator assigns *)
(* the partition, an agent that can take a step takes it, and the API does  *)
(* not refuse for ever a message that is offered again and again.           *)
FairSpec ==
  /\ Spec
  /\ WF_vars(\E a \in Agent : Assign(a))
  /\ \A a \in Agent : WF_vars(Work(a))
  /\ \A m \in Message :
       SF_vars(\E a \in Agent : position[a] = m /\ Send(a, "settled"))

--------------------------------------------------------------------------------
(* The API takes the messages of the partition in order: one is taken for  *)
(* the first time only when all before it have been, through panics,       *)
(* restarts, rebalances and late answers to an agent that lost the         *)
(* partition.                                                              *)
FirstTakenInOrder ==
  \A m \in Message : Taken(m) => \A k \in 1..m : Taken(k)

(* The offset of the group never moves back, also when an agent that lost  *)
(* the partition commits what it was handling.                             *)
OffsetGrows == [][committed' >= committed]_vars

(* Each message is taken in the end, over failures, panics and rebalances. *)
EveryMessageTaken == \A m \in Message : m <= log ~> Taken(m)

(* The partition is a relay: it holds what is not behind the offset of the *)
(* group, and lets go of it when the API has taken it.                     *)
R == INSTANCE Relay WITH
       Message <- Message,
       Verdict <- {"taken"},
       seen <- 1..log,
       held <- committed + 1..log,
       verdicts <- [m \in Message |-> IF Taken(m) THEN {"taken"} ELSE {}]

RefinesRelay == R!Spec
================================================================================
