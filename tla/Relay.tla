--------------------------------- MODULE Relay ---------------------------------
(***************************************************************************)
(* What every path through ilagent promises to whoever hands it a message: *)
(* once the message has been taken over it is held by something that       *)
(* survives a crash until ilert (or the configured retry limit) has given  *)
(* a verdict on it.  A message may be judged more than once (delivery is   *)
(* at least once), but it is never let go without a verdict.               *)
(*                                                                         *)
(* The detailed modules implement this one: see the refinement mapping at  *)
(* the end of each of them.                                                *)
(***************************************************************************)
CONSTANTS
  Message,  \* the messages handed to the agent
  Verdict   \* what may end the agent's responsibility for a message

VARIABLES
  seen,     \* messages the agent has taken over
  held,     \* messages some durable store still keeps
  verdicts  \* [Message -> SUBSET Verdict], the verdicts given so far

relayVars == <<seen, held, verdicts>>

Init ==
  /\ seen = {}
  /\ held = {}
  /\ verdicts = [m \in Message |-> {}]

(* The agent becomes responsible for m. *)
Accept(m) ==
  /\ m \notin seen
  /\ seen' = seen \cup {m}
  /\ held' = held \cup {m}
  /\ UNCHANGED verdicts

(* An attempt on a message that is still held ends with the verdicts V: one *)
(* attempt can be accepted and still be the last one the retry limit allows. *)
Judge(m, V) ==
  /\ m \in held
  /\ verdicts' = [verdicts EXCEPT ![m] = @ \cup V]
  /\ UNCHANGED <<seen, held>>

(* The durable store lets go of messages that have been judged. *)
Release(M) ==
  /\ M \subseteq held
  /\ \A m \in M : verdicts[m] # {}
  /\ held' = held \ M
  /\ UNCHANGED <<seen, verdicts>>

Next ==
  \/ \E m \in Message : Accept(m) \/ \E V \in SUBSET Verdict : Judge(m, V)
  \/ \E M \in SUBSET Message : Release(M)

Spec == Init /\ [][Next]_relayVars
================================================================================
