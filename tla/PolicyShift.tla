------------------------------ MODULE PolicyShift ------------------------------
(***************************************************************************)
(* The arithmetic of an escalation level (policy.rs): a shift is read as   *)
(* i64, moved by --shift_offset, used as index of the rule whose timeout   *)
(* is kept, and cast to i32 for the URL of the level that is written.      *)
(***************************************************************************)
EXTENDS Integers, Sequences

CONSTANTS
  LongHalf,  \* i64 holds -LongHalf .. LongHalf - 1
  IntHalf    \* i32 holds -IntHalf .. IntHalf - 1

ASSUME WidthAssumption ==
  /\ LongHalf \in Nat
  /\ IntHalf \in Nat \ {0}
  /\ IntHalf < LongHalf

Long == -LongHalf..LongHalf - 1

Int32 == -IntHalf..IntHalf - 1

(* Two's complement: a release build wraps, and so does a cast. *)
Wrap(x, half) == ((x + half) % (2 * half)) - half

(* extract_shift *)
Shift(raw, offset) ==
  LET adjusted == Wrap(raw + offset, LongHalf)
  IN IF adjusted < 0 THEN 0 ELSE adjusted

(* Mutant: levels are counted from one. *)
PutLevelFromOne(shift) == Wrap(shift + 1, IntHalf)

(* Mutant: the cast is forgotten. *)
PutLevelUncast(shift) == shift

(* update_policy_level: shift as i32 *)
PutLevel(shift) == Wrap(shift, IntHalf)

(* handle_policy_update: the timeout of the rule at the shift, or 1.  The   *)
(* rules are the sequence of their timeouts, level 0 first.                 *)
TimeoutAt(rules, shift) ==
  IF shift + 1 \in DOMAIN rules THEN rules[shift + 1] ELSE 1

(* The sums that reach the level they name, or level 0 from below. *)
InReach(raw, offset) == raw + offset \in -LongHalf..IntHalf - 1
================================================================================
