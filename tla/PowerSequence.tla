--------------------------- MODULE PowerSequence ---------------------------
(***************************************************************************)
(* The OFF sequence of src/platform/power_sequence.c: teal down, teal up,  *)
(* ON down, ON up, then wait for the HP's LCD to go off, with at most      *)
(* three attempts.  It is a state machine without keys or power: its       *)
(* caller passes the time and the LCD and carries out the action it        *)
(* returns (PowerOff).                                                     *)
(*                                                                         *)
(* Time is a millisecond counter that wraps (uint32_t in the code, 2^32);  *)
(* time_reached compares by the sign of the difference.                    *)
(***************************************************************************)
EXTENDS Integers

CONSTANTS
  Wrap,            \* the clock counts modulo Wrap
  START_SETTLE_MS, TEAL_HOLD_MS, PREFIX_SETTLE_MS, ON_HOLD_MS,
  HP_OFF_TIMEOUT_MS,
  MAX_ATTEMPTS

HP_OFF_STABLE_MS == 0
CONFIRM_VISIBLE_MS == 0

(* No delay reaches half the clock's range, so a target is never mistaken  *)
(* for a past one while it is being waited for.                            *)
ASSUME DelayAssumption ==
  /\ Wrap \in Nat /\ Wrap > 1
  /\ {START_SETTLE_MS, TEAL_HOLD_MS, PREFIX_SETTLE_MS, ON_HOLD_MS,
      HP_OFF_TIMEOUT_MS} \subseteq {d \in Nat : 2 * d < Wrap}
  /\ MAX_ATTEMPTS \in Nat \ {0}

Times == 0 .. Wrap - 1

Stages == {"IDLE", "PRESS_TEAL", "RELEASE_TEAL", "PRESS_ON", "RELEASE_ON",
           "WAIT_FOR_HP_OFF", "VERIFY_HP_OFF", "CONFIRMED_VISIBLE",
           "FINISHED"}

Actions == {"NONE", "PRESS_TEAL", "RELEASE_TEAL", "PRESS_ON", "RELEASE_ON",
            "HP_OFF_DETECTED", "HP_OFF_REAWAKENED", "HP_OFF_CONFIRMED",
            "REQUEST_SYSTEM_OFF", "REQUEST_SYSTEM_OFF_UNCONFIRMED"}

VARIABLES
  stage, attempts, next_ms, deadline_ms     \* power_sequence_t

sequence == <<stage, attempts, next_ms, deadline_ms>>

SequenceTypeOK ==
  /\ stage \in Stages
  /\ attempts \in 0 .. MAX_ATTEMPTS
  /\ next_ms \in Times
  /\ deadline_ms \in Times

After(now, delay) == (now + delay) % Wrap

(* Mutant: the comparison of two times that do not wrap.                   *)
time_passed(now, target) == now >= target

time_reached(now, target) == 2 * ((now - target) % Wrap) < Wrap

SequenceInit == stage = "IDLE" /\ attempts = 0 /\ next_ms = 0 /\ deadline_ms = 0

power_sequence_reset ==
  stage' = "IDLE" /\ attempts' = 0 /\ next_ms' = 0 /\ deadline_ms' = 0

power_sequence_start(now) ==
  /\ stage' = "PRESS_TEAL" /\ attempts' = 1
  /\ next_ms' = After(now, START_SETTLE_MS) /\ deadline_ms' = 0

power_sequence_active == stage \notin {"IDLE", "FINISHED"}

(* The steps of power_sequence_poll: each says when it is taken, what it   *)
(* returns and how the struct changes.  The code's POWER_STAGE_FAILED is   *)
(* the default of a switch over the four key stages, so it is never set.   *)
Enter(to, next) ==
  stage' = to /\ next_ms' = next /\ UNCHANGED <<attempts, deadline_ms>>

Finish == stage' = "FINISHED" /\ UNCHANGED <<attempts, next_ms, deadline_ms>>

(* Mutant: a retry is not counted.                                         *)
RetryUncounted(to, next) ==
  stage' = to /\ next_ms' = next /\ UNCHANGED <<attempts, deadline_ms>>

Retry(to, next) ==
  /\ attempts' = attempts + 1
  /\ stage' = to /\ next_ms' = next /\ UNCHANGED deadline_ms

WaitForHpOff(now, lcdOn, action) ==
  /\ stage = "WAIT_FOR_HP_OFF"
  /\ \/ /\ ~lcdOn /\ action = "HP_OFF_DETECTED"
        /\ Enter("VERIFY_HP_OFF", After(now, HP_OFF_STABLE_MS))
     \/ /\ lcdOn /\ time_reached(now, deadline_ms)
        /\ \/ /\ attempts >= MAX_ATTEMPTS
              /\ action = "REQUEST_SYSTEM_OFF_UNCONFIRMED" /\ Finish
           \/ /\ attempts < MAX_ATTEMPTS
              /\ action = "PRESS_TEAL"
              /\ Retry("RELEASE_TEAL", After(now, TEAL_HOLD_MS))

VerifyHpOff(now, lcdOn, action) ==
  /\ stage \in {"VERIFY_HP_OFF", "CONFIRMED_VISIBLE"}
  /\ \/ /\ lcdOn /\ attempts >= MAX_ATTEMPTS
        /\ action = "REQUEST_SYSTEM_OFF_UNCONFIRMED" /\ Finish
     \/ /\ lcdOn /\ attempts < MAX_ATTEMPTS
        /\ action = "HP_OFF_REAWAKENED"
        /\ Retry("PRESS_TEAL", After(now, START_SETTLE_MS))
     \/ /\ ~lcdOn /\ time_reached(now, next_ms) /\ stage = "VERIFY_HP_OFF"
        /\ action = "HP_OFF_CONFIRMED"
        /\ Enter("CONFIRMED_VISIBLE", After(now, CONFIRM_VISIBLE_MS))
     \/ /\ ~lcdOn /\ time_reached(now, next_ms) /\ stage = "CONFIRMED_VISIBLE"
        /\ action = "REQUEST_SYSTEM_OFF" /\ Finish

KeyStep(now, action) ==
  /\ stage \in {"PRESS_TEAL", "RELEASE_TEAL", "PRESS_ON", "RELEASE_ON"}
  /\ time_reached(now, next_ms)
  /\ action = stage
  /\ \/ stage = "PRESS_TEAL" /\ Enter("RELEASE_TEAL", After(now, TEAL_HOLD_MS))
     \/ stage = "RELEASE_TEAL" /\ Enter("PRESS_ON", After(now, PREFIX_SETTLE_MS))
     \/ stage = "PRESS_ON" /\ Enter("RELEASE_ON", After(now, ON_HOLD_MS))
     \/ /\ stage = "RELEASE_ON" /\ stage' = "WAIT_FOR_HP_OFF"
        /\ deadline_ms' = After(now, HP_OFF_TIMEOUT_MS)
        /\ UNCHANGED <<attempts, next_ms>>

(* When a poll returns POWER_ACTION_NONE and changes nothing.              *)
NothingDue(now, lcdOn) ==
  \/ ~power_sequence_active
  \/ stage = "WAIT_FOR_HP_OFF" /\ lcdOn /\ ~time_reached(now, deadline_ms)
  \/ /\ stage \in {"VERIFY_HP_OFF", "CONFIRMED_VISIBLE"}
     /\ ~lcdOn /\ ~time_reached(now, next_ms)
  \/ /\ stage \in {"PRESS_TEAL", "RELEASE_TEAL", "PRESS_ON", "RELEASE_ON"}
     /\ ~time_reached(now, next_ms)

power_sequence_poll(now, lcdOn, action) ==
  \/ NothingDue(now, lcdOn) /\ action = "NONE" /\ UNCHANGED sequence
  \/ WaitForHpOff(now, lcdOn, action)
  \/ VerifyHpOff(now, lcdOn, action)
  \/ KeyStep(now, action)
=============================================================================
