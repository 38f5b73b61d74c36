----------------------------- MODULE KafkaProofs -----------------------------
(***************************************************************************)
(* What the Kafka path promises for every number of agents, messages and   *)
(* faults.  Beyond the types, everything rests on the group having an      *)
(* offset: Kafka_first shows what happens when it has none.                *)
(***************************************************************************)
EXTENDS Kafka, TLAPS

LEMMA TypeInit == Init => TypeOK
  BY KafkaAssumption DEF Init, TypeOK

LEMMA TypeNext == TypeOK /\ [Next]_vars => TypeOK'
<1> SUFFICES ASSUME TypeOK, [Next]_vars PROVE TypeOK'
  OBVIOUS
<1>1. CASE Produce
  BY <1>1, KafkaAssumption DEF TypeOK, groupVars, Produce
<1>2. CASE Revoke
  BY <1>2, KafkaAssumption DEF TypeOK, groupVars, Revoke, Fault
<1>3. ASSUME NEW a \in Agent, Start(a) \/ Receive(a) \/ ReceiveNothing(a)
      PROVE  TypeOK'
  BY <1>3, KafkaAssumption DEF TypeOK, groupVars, Start, Receive, ReceiveNothing, vars
<1>4. ASSUME NEW a \in Agent, Assign(a)
      PROVE  TypeOK'
  <2>1. position' \in [Agent -> 0..log]
    BY <1>4, KafkaAssumption DEF TypeOK, groupVars, Assign
  <2> QED
    BY <1>4, <2>1, KafkaAssumption DEF TypeOK, groupVars, Assign
<1>5. ASSUME NEW a \in Agent, NEW ans \in Answers, Send(a, ans)
      PROVE  TypeOK'
  <2>1. outcome' \in [Message -> SUBSET Answers]
    BY <1>5, KafkaAssumption DEF TypeOK, groupVars, Send
  <2>2. faults' \in 0..MaxFaults
    BY <1>5, KafkaAssumption DEF TypeOK, groupVars, Send, Fault
  <2> QED
    BY <1>5, <2>1, <2>2, KafkaAssumption DEF TypeOK, groupVars, Send
<1>6. ASSUME NEW a \in Agent, CommitMessage(a) \/ CommitArrives(a)
      PROVE  TypeOK'
  <2>1. CASE CommitMessage(a)
    <3>1. pending' \in [Agent -> 0..log]
      BY <2>1 DEF TypeOK, CommitMessage, CommitOf
    <3> QED
      BY <2>1, <3>1 DEF TypeOK, groupVars, CommitMessage
  <2>2. CASE CommitArrives(a)
    BY <2>2 DEF TypeOK, CommitArrives
  <2> QED
    BY <1>6, <2>1, <2>2
<1>7. ASSUME NEW a \in Agent, Panic(a) \/ Crash(a)
      PROVE  TypeOK'
  BY <1>7, KafkaAssumption DEF TypeOK, groupVars, Panic, Crash, Exit, Fault
<1>8. CASE UNCHANGED vars
  BY <1>8, KafkaAssumption DEF TypeOK, groupVars, vars
<1>9. ASSUME NEW a \in Agent, Work(a)
      PROVE  TypeOK'
  BY <1>3, <1>5, <1>6, <1>7, <1>9 DEF Work
<1> QED
  BY <1>1, <1>2, <1>4, <1>5, <1>7, <1>8, <1>9 DEF Next, Answers

(* Every variable keeps its type: an agent's position and its commits stay *)
(* within the log, whatever it lost in the meantime (kafka.rs:113-191).     *)
THEOREM TypeCorrect == Spec => []TypeOK
<1> QED
  BY TypeInit, TypeNext, PTL DEF Spec

--------------------------------------------------------------------------------
(* The last message an agent needs no more attempts on. *)
Handled(a) == IF pc[a] \in {"send", "panic"} THEN position[a] - 1 ELSE position[a]

(* The agent handles a message or may be handed one. *)
Engaged(a) == pc[a] \in {"send", "commit", "panic"} \/ owner = a

TakenUpTo(n) == \A m \in 1..n : Taken(m)

(* Whether the group has an offset or not: the owner is never behind it and *)
(* only its commits are on their way, each between the offset and what it    *)
(* has left behind.                                                         *)
Forward ==
  /\ ~has_offset => committed = 0
  /\ \A a \in Agent :
       /\ pc[a] \in {"send", "commit", "panic"} => position[a] > 0
       /\ owner = a => pc[a] # "down" /\ committed <= Handled(a)
       /\ pending[a] # 0 =>
            owner = a /\ committed <= pending[a] /\ pending[a] <= Handled(a)

(* For a group that has one, in addition: everything behind the offset has  *)
(* been taken, and so has everything an engaged agent has left behind.      *)
Behind ==
  /\ Forward
  /\ has_offset
  /\ TakenUpTo(committed)
  /\ \A a \in Agent : Engaged(a) => TakenUpTo(Handled(a))

LEMMA ForwardNext == TypeOK /\ Forward /\ [Next]_vars => Forward'
<1> SUFFICES ASSUME TypeOK, Forward, [Next]_vars PROVE Forward'
  OBVIOUS
<1> USE DEF Forward, Handled
<1>1. /\ committed \in 0..MaxMessages
      /\ \A a \in Agent : /\ position[a] \in 0..MaxMessages
                          /\ pending[a] \in 0..MaxMessages
                          /\ Handled(a) \in 0..MaxMessages
  BY KafkaAssumption DEF TypeOK
<1>2. CASE Produce \/ UNCHANGED vars
  BY <1>2 DEF Produce, groupVars, vars
<1>3. CASE Revoke
  BY <1>1, <1>3, KafkaAssumption DEF TypeOK, Revoke
<1>4. ASSUME NEW a \in Agent, Start(a) \/ Receive(a) \/ CommitMessage(a)
      PROVE  Forward'
  BY <1>1, <1>4 DEF TypeOK, Start, Receive, CommitMessage, CommitOf, groupVars
<1>5. ASSUME NEW a \in Agent, Assign(a)
      PROVE  Forward'
  BY <1>1, <1>5, KafkaAssumption DEF TypeOK, Assign
<1>6. ASSUME NEW a \in Agent, NEW ans \in Answers, Send(a, ans)
      PROVE  Forward'
  BY <1>1, <1>6 DEF TypeOK, Send, groupVars
<1>7. ASSUME NEW a \in Agent, CommitArrives(a)
      PROVE  Forward'
  BY <1>1, <1>7 DEF TypeOK, CommitArrives
<1>8. ASSUME NEW a \in Agent, Exit(a)
      PROVE  Forward'
  BY <1>1, <1>8, KafkaAssumption DEF TypeOK, Exit
<1> QED
  BY <1>2, <1>3, <1>4, <1>5, <1>6, <1>7, <1>8
  DEF Next, Work, Panic, Crash, ReceiveNothing, Answers

(* The offset of the group never moves back, although commits travel        *)
(* asynchronously and are refused or lost when the partition moves          *)
(* (kafka.rs:180-183), and whether or not it had one before.                *)
THEOREM OffsetNeverBack == Spec => OffsetGrows
<1>1. Init => TypeOK /\ Forward
  BY TypeInit, KafkaAssumption DEF Init, Forward, Handled
<1>2. TypeOK /\ Forward /\ [Next]_vars => (TypeOK /\ Forward)'
  BY TypeNext, ForwardNext
<1>3. TypeOK /\ Forward /\ [Next]_vars => [committed' >= committed]_vars
  <2>1. ASSUME NEW a \in Agent, TypeOK, Forward, CommitArrives(a)
        PROVE  committed' >= committed
    BY <2>1 DEF TypeOK, Forward, CommitArrives
  <2>2. ASSUME TypeOK, UNCHANGED committed
        PROVE  committed' >= committed
    BY <2>2, KafkaAssumption DEF TypeOK
  <2> QED
    BY <2>1, <2>2 DEF Next, Work, Produce, Revoke, Start, Assign, Receive,
       ReceiveNothing, Send, CommitMessage, Panic, Crash, Exit, groupVars, vars
<1> QED
  BY <1>1, <1>2, <1>3, PTL DEF Spec, OffsetGrows

--------------------------------------------------------------------------------
(* What has been taken stays taken. *)
LEMMA TakenStays ==
  ASSUME TypeOK, [Next]_vars, NEW m \in Message, Taken(m)
  PROVE  Taken(m)'
<1>1. ASSUME NEW a \in Agent, NEW ans \in Answers, Send(a, ans)
      PROVE  Taken(m)'
  BY <1>1 DEF TypeOK, Send, Taken
<1>2. CASE UNCHANGED outcome
  BY <1>2 DEF Taken
<1> QED
  BY <1>1, <1>2 DEF Next, Work, Produce, Revoke, Start, Assign, Receive,
     ReceiveNothing, CommitMessage, CommitArrives, Panic, Crash, Exit, vars, Answers

(* An attempt that is not repeated took its message, or lost the reply. *)
LEMMA SentIsTaken ==
  ASSUME TypeOK, NEW a \in Agent, NEW ans \in Answers, Send(a, ans),
         position[a] > 0, ~ShouldRetry(ans)
  PROVE  Taken(position[a])'
<1>1. position[a] \in Message /\ ans = "settled"
  BY KafkaAssumption DEF TypeOK, Message, ShouldRetry
<1> QED
  BY <1>1 DEF TypeOK, Send, Taken

LEMMA BehindInit == ASSUME GroupHasOffset PROVE Init => Behind
  BY KafkaAssumption DEF Init, Behind, Forward, TakenUpTo, Engaged, Handled

LEMMA BehindNext == TypeOK /\ Behind /\ [Next]_vars => Behind'
<1> SUFFICES ASSUME TypeOK, Behind, [Next]_vars PROVE Behind'
  OBVIOUS
<1> USE DEF Behind, Forward, TakenUpTo, Engaged, Handled
<1>1. \A m \in Message : Taken(m) => Taken(m)'
  BY TakenStays
<1>2. \A n \in 0..MaxMessages : 1..n \subseteq Message
  BY KafkaAssumption DEF Message
<1>3. /\ committed \in 0..MaxMessages
      /\ \A a \in Agent : /\ position[a] \in 0..MaxMessages
                          /\ pending[a] \in 0..MaxMessages
                          /\ Handled(a) \in 0..MaxMessages
  BY KafkaAssumption DEF TypeOK
<1>4. CASE Produce
  BY <1>1, <1>2, <1>3, <1>4 DEF Produce, groupVars
<1>5. CASE Revoke
  BY <1>1, <1>2, <1>3, <1>5, KafkaAssumption DEF TypeOK, Revoke
<1>6. ASSUME NEW a \in Agent, Start(a)
      PROVE  Behind'
  BY <1>1, <1>2, <1>3, <1>6 DEF TypeOK, Start, groupVars
<1>7. ASSUME NEW a \in Agent, Assign(a)
      PROVE  Behind'
  BY <1>1, <1>2, <1>3, <1>7, KafkaAssumption DEF TypeOK, Assign
<1>8. ASSUME NEW a \in Agent, Receive(a)
      PROVE  Behind'
  BY <1>1, <1>2, <1>3, <1>8 DEF TypeOK, Receive, groupVars
<1>9. ASSUME NEW a \in Agent, NEW ans \in Answers, Send(a, ans)
      PROVE  Behind'
  <2>1. ~ShouldRetry(ans) => Taken(position[a])'
    BY <1>9, SentIsTaken DEF Send
  <2>2. \A b \in Agent \ {a} : pc'[b] = pc[b]
    BY <1>9 DEF TypeOK, Send
  <2> QED
    BY <1>1, <1>2, <1>3, <1>9, <2>1, <2>2 DEF TypeOK, Send, groupVars
<1>10. ASSUME NEW a \in Agent, CommitMessage(a)
       PROVE  Behind'
  BY <1>1, <1>2, <1>3, <1>10 DEF TypeOK, CommitMessage, CommitOf, groupVars
<1>11. ASSUME NEW a \in Agent, CommitArrives(a)
       PROVE  Behind'
  BY <1>1, <1>2, <1>3, <1>11 DEF TypeOK, CommitArrives
<1>12. ASSUME NEW a \in Agent, Exit(a)
       PROVE  Behind'
  BY <1>1, <1>2, <1>3, <1>12, KafkaAssumption DEF TypeOK, Exit
<1>13. CASE UNCHANGED vars
  BY <1>1, <1>2, <1>3, <1>13 DEF vars, groupVars
<1> QED
  BY <1>4, <1>5, <1>6, <1>7, <1>8, <1>9, <1>10, <1>11, <1>12, <1>13
  DEF Next, Work, Panic, Crash, ReceiveNothing, Answers

--------------------------------------------------------------------------------
LEMMA OrderNext ==
  ASSUME TypeOK, Behind, FirstTakenInOrder, [Next]_vars
  PROVE  FirstTakenInOrder'
<1>1. \A m \in Message : Taken(m) => Taken(m)'
  BY TakenStays
<1>2. ASSUME NEW a \in Agent, NEW ans \in Answers, Send(a, ans)
      PROVE  FirstTakenInOrder'
  <2>1. /\ position[a] \in Message
        /\ TakenUpTo(position[a] - 1)
    BY <1>2, KafkaAssumption DEF TypeOK, Behind, Forward, Engaged, Handled, Send, Message
  <2>2. \A m \in Message \ {position[a]} : Taken(m)' => Taken(m)
    BY <1>2, <2>1 DEF TypeOK, Send, Taken
  <2> QED
    BY <1>1, <2>1, <2>2, KafkaAssumption DEF FirstTakenInOrder, TakenUpTo, Message
<1>3. CASE UNCHANGED outcome
  BY <1>3 DEF FirstTakenInOrder, Taken
<1> QED
  BY <1>2, <1>3 DEF Next, Work, Produce, Revoke, Start, Assign, Receive,
     ReceiveNothing, CommitMessage, CommitArrives, Panic, Crash, Exit, vars, Answers

(* The API takes the messages of the partition in order for the first time, *)
(* whoever owns it and however often an agent ends (kafka.rs:166-190).      *)
THEOREM TakenInOrder == ASSUME GroupHasOffset PROVE Spec => []FirstTakenInOrder
<1>1. Init => TypeOK /\ Behind /\ FirstTakenInOrder
  BY TypeInit, BehindInit DEF Init, FirstTakenInOrder, Taken
<1>2. TypeOK /\ Behind /\ FirstTakenInOrder /\ [Next]_vars
        => (TypeOK /\ Behind /\ FirstTakenInOrder)'
  BY TypeNext, BehindNext, OrderNext
<1> QED
  BY <1>1, <1>2, PTL DEF Spec

--------------------------------------------------------------------------------
(* A step of the Kafka path is one of the relay, or invisible to it. *)
LEMMA RelayStep ==
  ASSUME TypeOK, Behind, [Next]_vars
  PROVE  [R!Next]_(R!relayVars)
<1> DEFINE taken(m) == IF Taken(m) THEN {"taken"} ELSE {}
<1>1. CASE Produce
  <2>1. /\ log + 1 \in Message
        /\ 1..log' = 1..log \cup {log + 1}
        /\ committed' + 1..log' = (committed + 1..log) \cup {log + 1}
        /\ log + 1 \notin 1..log
    BY <1>1, KafkaAssumption DEF TypeOK, Produce, Message, groupVars
  <2>2. \A m \in Message : taken(m)' = taken(m)
    BY <1>1 DEF Produce, Taken
  <2>3. R!Accept(log + 1)
    BY <2>1, <2>2 DEF R!Accept
  <2> QED
    BY <2>1, <2>3 DEF R!Next
<1>2. ASSUME NEW a \in Agent, NEW ans \in Answers, Send(a, ans)
      PROVE  [R!Next]_(R!relayVars)
  <2>1. PICK p \in Message : p = position[a] /\ p \in 1..log
    BY <1>2, KafkaAssumption DEF TypeOK, Behind, Forward, Send, Message
  <2>2. UNCHANGED <<log, committed>>
    BY <1>2 DEF Send, groupVars
  <2>3. \A m \in Message \ {p} : taken(m)' = taken(m)
    BY <1>2, <2>1 DEF TypeOK, Send, Taken
  <2>4. CASE Taken(p)
    <3>1. \A m \in Message : taken(m)' = taken(m)
      BY <2>3, <2>4, TakenStays
    <3> QED
      BY <2>2, <3>1 DEF R!relayVars
  <2>5. CASE ~Taken(p)
    <3>1. p \in committed + 1..log
      BY <2>1, <2>5 DEF TypeOK, Behind, TakenUpTo
    <3>2. taken(p) = {} /\ taken(p)' \in SUBSET {"taken"}
      BY <2>5
    <3> HIDE DEF taken
    <3>3. \A m \in Message :
            taken(m)' = IF m = p THEN taken(p) \cup taken(p)' ELSE taken(m)
      BY <2>3, <3>2
    <3>4. [m \in Message |-> taken(m)]'
            = [[m \in Message |-> taken(m)] EXCEPT ![p] = @ \cup taken(p)']
      BY <3>3
    <3> USE DEF taken
    <3>5. R!Judge(p, taken(p)')
      BY <2>2, <3>1, <3>4 DEF R!Judge
    <3> QED
      BY <3>2, <3>5 DEF R!Next
  <2> QED
    BY <2>4, <2>5
<1>3. ASSUME NEW a \in Agent, CommitArrives(a)
      PROVE  [R!Next]_(R!relayVars)
  <2> DEFINE M == committed + 1..pending[a]
  <2>1. /\ committed <= pending[a]
        /\ pending[a] \in 0..log
        /\ \A m \in 1..pending[a] : Taken(m)
    BY <1>3 DEF TypeOK, Behind, Forward, CommitArrives, Engaged, TakenUpTo, Handled
  <2>2. /\ M \in SUBSET Message
        /\ M \subseteq committed + 1..log
        /\ committed' + 1..log' = (committed + 1..log) \ M
    BY <1>3, <2>1, KafkaAssumption DEF TypeOK, CommitArrives, Message
  <2>3. \A m \in Message : taken(m)' = taken(m)
    BY <1>3 DEF CommitArrives, Taken
  <2>4. \A m \in M : taken(m) # {}
    BY <2>1 DEF TypeOK
  <2>5. R!Release(M)
    BY <1>3, <2>2, <2>3, <2>4 DEF R!Release, CommitArrives
  <2> QED
    BY <2>2, <2>5 DEF R!Next
<1>4. CASE UNCHANGED <<log, committed, outcome>>
  BY <1>4 DEF R!relayVars, Taken
<1> QED
  BY <1>1, <1>2, <1>3, <1>4 DEF Next, Work, Revoke, Start, Assign, Receive,
     ReceiveNothing, CommitMessage, Panic, Crash, Exit, groupVars, vars, Answers

(* The Kafka path implements Relay: once a message is in the partition, it *)
(* stays in front of the offset until the API has taken it.                 *)
THEOREM PartitionIsRelay == ASSUME GroupHasOffset PROVE Spec => RefinesRelay
<1>1. Init => TypeOK /\ Behind
  BY TypeInit, BehindInit
<1>2. TypeOK /\ Behind /\ [Next]_vars => (TypeOK /\ Behind)'
  BY TypeNext, BehindNext
<1>3. Init => R!Init
  BY DEF Init, R!Init, Taken
<1>4. TypeOK /\ Behind /\ [Next]_vars => [R!Next]_(R!relayVars)
  BY RelayStep
<1> QED
  BY <1>1, <1>2, <1>3, <1>4, PTL DEF Spec, RefinesRelay, R!Spec
================================================================================
