--------------------------- MODULE PrefixSequence ---------------------------
(***************************************************************************)
(* src/platform/prefix_sequence.c: a prefix key (a shift or Alpha) is      *)
(* pressed for some polls and released; when the ROM shows that it latched *)
(* the prefix, or after the last attempt, the action key is pressed.       *)
(***************************************************************************)
EXTENDS Naturals

CONSTANTS
  PrefixCodes, ActionCodes,
  PREFIX_HOLD_POLLS, PREFIX_LATCH_WAIT_POLLS, PREFIX_MAX_ATTEMPTS

ASSUME PrefixAssumption ==
  /\ {PREFIX_HOLD_POLLS, PREFIX_LATCH_WAIT_POLLS} \subseteq Nat
  /\ PREFIX_MAX_ATTEMPTS \in Nat \ {0}

VARIABLE prefix   \* prefix_sequence_t

NoCode == "0xffff"

Idle == [stage |-> "IDLE", prefix_code |-> NoCode, action_code |-> NoCode,
         wait_polls |-> 0, attempts |-> 0]

Sequences(stage, polls) ==
  [stage : {stage}, prefix_code : PrefixCodes, action_code : ActionCodes,
   wait_polls : 0 .. polls, attempts : 1 .. PREFIX_MAX_ATTEMPTS]

PrefixTypeOK ==
  \/ prefix = Idle
  \/ prefix \in Sequences("HOLD", PREFIX_HOLD_POLLS)
  \/ prefix \in Sequences("WAIT_LATCH", PREFIX_LATCH_WAIT_POLLS)

prefix_sequence_active == prefix.stage # "IDLE"

prefix_sequence_reset == prefix' = Idle

FirstHold(prefix_code, action_code) ==
  [stage |-> "HOLD", prefix_code |-> prefix_code, action_code |-> action_code,
   wait_polls |-> 0, attempts |-> 1]

(* The caller presses prefix_code.                                         *)
prefix_sequence_start(prefix_code, action_code) ==
  ~prefix_sequence_active /\ prefix' = FirstHold(prefix_code, action_code)

Enter(stage) == [prefix EXCEPT !.stage = stage, !.wait_polls = 0]

KeepWaiting(polls) ==
  /\ prefix.wait_polls < polls
  /\ prefix' = [prefix EXCEPT !.wait_polls = @ + 1]

(* One poll; transition is what the caller does to the key matrix.  Once   *)
(* idle the codes are not read again, so the model forgets them.           *)
Hold(transition) ==
  /\ prefix.stage = "HOLD"
  /\ \/ KeepWaiting(PREFIX_HOLD_POLLS) /\ transition = "NONE"
     \/ /\ prefix.wait_polls >= PREFIX_HOLD_POLLS
        /\ transition = "RELEASE_PREFIX" /\ prefix' = Enter("WAIT_LATCH")

WaitedInVain(latched) ==
  ~latched /\ prefix.wait_polls >= PREFIX_LATCH_WAIT_POLLS

(* Mutant: a retry is not counted.                                         *)
RetryPrefixUncounted(latched, transition) ==
  /\ WaitedInVain(latched) /\ prefix.attempts < PREFIX_MAX_ATTEMPTS
  /\ transition = "PRESS_PREFIX" /\ prefix' = Enter("HOLD")

RetryPrefix(latched, transition) ==
  /\ WaitedInVain(latched) /\ prefix.attempts < PREFIX_MAX_ATTEMPTS
  /\ transition = "PRESS_PREFIX"
  /\ prefix' = [Enter("HOLD") EXCEPT !.attempts = @ + 1]

WaitLatch(latched, transition) ==
  /\ prefix.stage = "WAIT_LATCH"
  /\ \/ ~latched /\ KeepWaiting(PREFIX_LATCH_WAIT_POLLS) /\ transition = "NONE"
     \/ RetryPrefix(latched, transition)
     \/ /\ latched \/ (WaitedInVain(latched) /\ prefix.attempts >= PREFIX_MAX_ATTEMPTS)
        /\ transition = "PRESS_ACTION" /\ prefix' = Idle

prefix_sequence_advance(latched, transition) ==
  Hold(transition) \/ WaitLatch(latched, transition)

Transitions == {"NONE", "PRESS_PREFIX", "RELEASE_PREFIX", "PRESS_ACTION"}
=============================================================================
