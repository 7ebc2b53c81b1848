--------------------------- MODULE PowerOffProofs ---------------------------
(***************************************************************************)
(* Proofs about PowerOff: the invariant PowerInv and what follows from it  *)
(* for the keys, the saved state and the hold times, for every clock, every *)
(* delay below half its range and every number of attempts and requests.   *)
(***************************************************************************)
EXTENDS PowerOff, TLAPS

-----------------------------------------------------------------------------
(* The wrapping clock.                                                     *)

(* A remainder is a time, and what it is within one turn of the clock.     *)
LEMMA Residue ==
  /\ \A a \in Int : a % Wrap \in Times
  /\ \A a \in 0 .. Wrap - 1 : a % Wrap = a
  /\ \A a \in Wrap .. 2 * Wrap - 1 : a % Wrap = a - Wrap
  /\ \A a \in -Wrap .. -1 : a % Wrap = a + Wrap
<1> USE DelayAssumption DEF Times
<1>1. ASSUME NEW a \in Int PROVE a % Wrap \in 0 .. Wrap - 1
  OBVIOUS
<1>2. ASSUME NEW a \in 0 .. Wrap - 1 PROVE a % Wrap = a
  OBVIOUS
<1>3. ASSUME NEW a \in Wrap .. 2 * Wrap - 1 PROVE a % Wrap = a - Wrap
  OBVIOUS
<1>4. ASSUME NEW a \in -Wrap .. -1 PROVE a % Wrap = a + Wrap
  OBVIOUS
<1> QED
  BY <1>1, <1>2, <1>3, <1>4

(* Two numbers a turn apart have the same remainder.                       *)
LEMMA Congruent ==
  ASSUME NEW a \in 0 .. Wrap - 1, NEW b \in {a, a - Wrap, a + Wrap}
  PROVE  b % Wrap = a
<1> USE DelayAssumption
<1>1. CASE b = a
  BY <1>1, Residue
<1>2. CASE b = a - Wrap
  <2>1. b \in -Wrap .. -1
    BY <1>2
  <2> QED
    BY <1>2, <2>1, Residue
<1>3. CASE b = a + Wrap
  <2>1. b \in Wrap .. 2 * Wrap - 1
    BY <1>3
  <2> QED
    BY <1>3, <2>1, Residue
<1> QED
  BY <1>1, <1>2, <1>3

(* The delays are less than half a turn; so are the gaps between polls.    *)
LEMMA Delays ==
  /\ Wrap \in Nat /\ Wrap > 1
  /\ START_SETTLE_MS \in Nat /\ 2 * START_SETTLE_MS < Wrap
  /\ TEAL_HOLD_MS \in Nat /\ 2 * TEAL_HOLD_MS < Wrap
  /\ PREFIX_SETTLE_MS \in Nat /\ 2 * PREFIX_SETTLE_MS < Wrap
  /\ ON_HOLD_MS \in Nat /\ 2 * ON_HOLD_MS < Wrap
  /\ HP_OFF_TIMEOUT_MS \in Nat /\ 2 * HP_OFF_TIMEOUT_MS < Wrap
  /\ Saturation \in Nat
  /\ \A gap \in 1 .. MaxGap : gap \in Nat /\ gap > 0 /\ 2 * gap < Wrap
BY DelayAssumption, GapAssumption DEF Saturation

(* A time some ms after a time is a time.                                  *)
LEMMA AfterIsTime ==
  ASSUME NEW t \in Times, NEW d \in Nat
  PROVE  After(t, d) \in Times
BY Residue, Delays DEF Times, After

(* When a delay starts, all of it is left.                                 *)
LEMMA Started ==
  ASSUME NEW t \in Times, NEW d \in Nat, 2 * d < Wrap
  PROVE  (After(t, d) - t) % Wrap = d
<1> USE Delays DEF Times
<1>1. CASE t + d < Wrap
  <2>1. After(t, d) = t + d
    BY <1>1, Residue DEF After
  <2>2. After(t, d) - t = d /\ d \in 0 .. Wrap - 1
    BY <2>1
  <2> QED
    BY Zenon, <2>2, Residue
<1>2. CASE t + d >= Wrap
  <2>1. After(t, d) = t + d - Wrap
    BY <1>2, Residue DEF After
  <2>2. After(t, d) - t \in -Wrap .. -1
    BY <2>1
  <2> QED
    BY <2>1, <2>2, Residue
<1> QED
  BY <1>1, <1>2

(* A poll finds a target reached exactly when the gap since the last poll  *)
(* covers what was left then; otherwise the gap is taken off what is left. *)
LEMMA Polled ==
  ASSUME NEW t \in Times, NEW target \in Times, NEW gap \in 1 .. MaxGap,
         2 * ((target - t) % Wrap) < Wrap
  PROVE  /\ time_reached(After(t, gap), target) <=> gap >= (target - t) % Wrap
         /\ gap < (target - t) % Wrap =>
              (target - After(t, gap)) % Wrap = ((target - t) % Wrap) - gap
<1> DEFINE left == (target - t) % Wrap
           late == (After(t, gap) - target) % Wrap
<1> USE Delays DEF Times
<1>1. left \in Nat /\ 2 * left < Wrap
  BY Residue
<1>2. target = t + left \/ target = t + left - Wrap
  BY Residue
<1>3. After(t, gap) = t + gap \/ After(t, gap) = t + gap - Wrap
  <2>1. t + gap \in 0 .. 2 * Wrap - 1
    OBVIOUS
  <2> QED
    BY <2>1, Residue DEF After
<1>4. CASE gap >= left
  <2>1. gap - left \in 0 .. Wrap - 1 /\ 2 * (gap - left) < Wrap
    BY <1>1, <1>4
  <2>2. After(t, gap) - target
          \in {gap - left, gap - left - Wrap, gap - left + Wrap}
    BY <1>1, <1>2, <1>3
  <2>3. late = gap - left
    BY ONLY <2>1, <2>2, Congruent
  <2> QED
    BY <1>1, <1>4, <2>1, <2>3 DEF time_reached
<1>5. CASE gap < left
  <2>1. left - gap \in 0 .. Wrap - 1 /\ 2 * (left - gap) < Wrap
    BY <1>1, <1>5
  <2>2. Wrap - (left - gap) \in 0 .. Wrap - 1
    BY <1>1, <1>5
  <2>3. After(t, gap) - target
          \in {Wrap - (left - gap), Wrap - (left - gap) - Wrap,
               Wrap - (left - gap) + Wrap}
    <3>1. After(t, gap) - target > -Wrap
      BY AfterIsTime
    <3> QED
      BY <1>1, <1>2, <1>3, <1>5, <3>1
  <2>4. late = Wrap - (left - gap)
    BY ONLY <2>2, <2>3, Congruent
  <2>5. target - After(t, gap)
          \in {left - gap, left - gap - Wrap, left - gap + Wrap}
    BY <1>1, <1>2, <1>3
  <2>6. (target - After(t, gap)) % Wrap = left - gap
    BY ONLY <2>1, <2>5, Congruent
  <2>7. ~time_reached(After(t, gap), target)
    BY <2>1, <2>4 DEF time_reached
  <2> QED
    BY <1>1, <1>5, <2>6, <2>7
<1> QED
  BY <1>1, <1>4, <1>5

-----------------------------------------------------------------------------
(* The steps of the sequence.                                              *)

(* Where a poll can take the sequence, with what it returns: the shape the *)
(* proofs about keys and times need, attempts left aside.                  *)
LEMMA PollCases ==
  ASSUME NEW t, NEW lit, NEW action, power_sequence_poll(t, lit, action)
  PROVE  \/ action = "NONE" /\ UNCHANGED sequence /\ NothingDue(t, lit)
         \/ /\ stage = "PRESS_TEAL" /\ action = "PRESS_TEAL"
            /\ stage' = "RELEASE_TEAL" /\ next_ms' = After(t, TEAL_HOLD_MS)
         \/ /\ stage = "RELEASE_TEAL" /\ action = "RELEASE_TEAL"
            /\ time_reached(t, next_ms)
            /\ stage' = "PRESS_ON" /\ next_ms' = After(t, PREFIX_SETTLE_MS)
         \/ /\ stage = "PRESS_ON" /\ action = "PRESS_ON"
            /\ time_reached(t, next_ms)
            /\ stage' = "RELEASE_ON" /\ next_ms' = After(t, ON_HOLD_MS)
         \/ /\ stage = "RELEASE_ON" /\ action = "RELEASE_ON"
            /\ time_reached(t, next_ms)
            /\ stage' = "WAIT_FOR_HP_OFF"
         \/ /\ stage = "WAIT_FOR_HP_OFF" /\ action = "PRESS_TEAL"
            /\ stage' = "RELEASE_TEAL" /\ next_ms' = After(t, TEAL_HOLD_MS)
         \/ /\ stage \in {"WAIT_FOR_HP_OFF", "VERIFY_HP_OFF",
                           "CONFIRMED_VISIBLE"}
            /\ action \in {"HP_OFF_DETECTED", "HP_OFF_REAWAKENED",
                            "HP_OFF_CONFIRMED", "REQUEST_SYSTEM_OFF",
                            "REQUEST_SYSTEM_OFF_UNCONFIRMED"}
            /\ stage' \in {"PRESS_TEAL", "VERIFY_HP_OFF", "CONFIRMED_VISIBLE",
                            "FINISHED"}
<1>1. CASE NothingDue(t, lit) /\ action = "NONE" /\ UNCHANGED sequence
  BY Zenon, <1>1
<1>2. CASE WaitForHpOff(t, lit, action)
  BY Zenon, <1>2 DEF WaitForHpOff, Enter, Finish, Retry
<1>3. CASE VerifyHpOff(t, lit, action)
  BY Zenon, <1>3 DEF VerifyHpOff, Enter, Finish, Retry
<1>4. CASE KeyStep(t, action)
  BY <1>4 DEF KeyStep, Enter
<1> QED
  BY Zenon, <1>1, <1>2, <1>3, <1>4 DEF power_sequence_poll

(* A poll keeps the struct well typed: a retry is counted only below the   *)
(* limit.                                                                  *)
LEMMA PollTyped ==
  ASSUME SequenceTypeOK, NEW t \in Times, NEW lit, NEW action,
         power_sequence_poll(t, lit, action)
  PROVE  SequenceTypeOK'
<1> USE DEF SequenceTypeOK, Stages
<1>1. \A d \in {START_SETTLE_MS, TEAL_HOLD_MS, PREFIX_SETTLE_MS, ON_HOLD_MS,
                HP_OFF_TIMEOUT_MS, HP_OFF_STABLE_MS, CONFIRM_VISIBLE_MS} :
        After(t, d) \in Times
  BY Delays, AfterIsTime DEF HP_OFF_STABLE_MS, CONFIRM_VISIBLE_MS
<1>2. attempts < MAX_ATTEMPTS => attempts + 1 \in 0 .. MAX_ATTEMPTS
  BY DelayAssumption
<1>3. CASE NothingDue(t, lit) /\ action = "NONE" /\ UNCHANGED sequence
  BY <1>3 DEF sequence
<1>4. CASE WaitForHpOff(t, lit, action)
  BY <1>1, <1>2, <1>4 DEF WaitForHpOff, Enter, Finish, Retry
<1>5. CASE VerifyHpOff(t, lit, action)
  BY <1>1, <1>2, <1>5 DEF VerifyHpOff, Enter, Finish, Retry
<1>6. CASE KeyStep(t, action)
  BY <1>1, <1>6 DEF KeyStep, Enter
<1> QED
  BY <1>3, <1>4, <1>5, <1>6 DEF power_sequence_poll

-----------------------------------------------------------------------------
(* The inductive invariant.                                                *)

(* The calculator is started with no sequence under way and both keys up.  *)
LEMMA InitPower == PowerInit => PowerInv
<1> SUFFICES ASSUME PowerInit PROVE PowerInv
  OBVIOUS
<1>1. SequenceTypeOK
  BY DelayAssumption
     DEF PowerInit, SequenceInit, SequenceTypeOK, Stages, Times
<1>2. {lcd, teal, on, powered, disturbed} \subseteq BOOLEAN
  BY Zenon DEF PowerInit
<1>3. starts \in 0 .. MaxStarts /\ since \in 0 .. Saturation
  BY GapAssumption, Delays DEF PowerInit
<1>4. PowerTypeOK
  BY Zenon, <1>1, <1>2, <1>3 DEF PowerTypeOK, PowerInit
<1>5. KeyInv /\ SnapshotInv /\ TimeInv
  BY Zenon DEF PowerInit, SequenceInit, KeyInv, SnapshotInv, TimeInv
<1> QED
  BY <1>4, <1>5 DEF PowerInv

(* A start and a reset of the struct are well typed.                       *)
LEMMA RestartTyped ==
  ASSUME NEW t \in Times, power_sequence_start(t) \/ power_sequence_reset
  PROVE  SequenceTypeOK'
<1>1. After(t, START_SETTLE_MS) \in Times /\ 0 \in Times
  BY Delays, AfterIsTime DEF Times
<1> QED
  BY <1>1, DelayAssumption
     DEF power_sequence_start, power_sequence_reset, SequenceTypeOK, Stages

(* Every step keeps the flags Boolean.                                     *)
LEMMA StepFlags ==
  ASSUME PowerTypeOK, [PowerNext]_powerVars
  PROVE  {lcd, teal, on, powered, disturbed}' \subseteq BOOLEAN
<1> USE DEF PowerTypeOK, powerVars, PollAt, EventPoll, OffRequest
<1>1. ASSUME NEW gap \in 1 .. MaxGap, Advance(gap)
      PROVE  {lcd, teal, on, powered, disturbed}' \subseteq BOOLEAN
  BY Zenon, <1>1 DEF Advance, SetKeys
<1>2. ASSUME NEW gap \in 1 .. MaxGap, start_graceful_poweroff(gap)
      PROVE  {lcd, teal, on, powered, disturbed}' \subseteq BOOLEAN
  BY Zenon, <1>2 DEF start_graceful_poweroff, ReleaseBoth
<1>3. ASSUME NEW gap \in 1 .. MaxGap, DrawnPowerOff(gap)
      PROVE  {lcd, teal, on, powered, disturbed}' \subseteq BOOLEAN
  BY Zenon, <1>3 DEF DrawnPowerOff, ReleaseBoth
<1>4. ASSUME NEW gap \in 1 .. MaxGap, UserKey(gap)
      PROVE  {lcd, teal, on, powered, disturbed}' \subseteq BOOLEAN
  BY Zenon, <1>4 DEF UserKey
<1>5. ASSUME NEW gap \in 1 .. MaxGap, Reset(gap)
      PROVE  {lcd, teal, on, powered, disturbed}' \subseteq BOOLEAN
  BY Zenon, <1>5 DEF Reset
<1>6. CASE request_system_poweroff
  BY Zenon, <1>6 DEF request_system_poweroff
<1>7. CASE PoweredOff \/ UNCHANGED powerVars
  BY Zenon, <1>7 DEF PoweredOff
<1> QED
  BY Zenon, <1>1, <1>2, <1>3, <1>4, <1>5, <1>6, <1>7 DEF PowerNext

(* Every step keeps the sequence, the clock and the counters in their sets. *)
LEMMA StepData ==
  ASSUME PowerTypeOK, [PowerNext]_powerVars
  PROVE  /\ SequenceTypeOK' /\ now' \in Times
         /\ snapshot' \in {"saved", "refused", "canceled", "cleared"}
         /\ starts' \in 0 .. MaxStarts /\ since' \in 0 .. Saturation
<1> USE DEF PollAt, EventPoll, OffRequest
<1> DEFINE Typed == /\ SequenceTypeOK' /\ now' \in Times
                    /\ snapshot' \in {"saved", "refused", "canceled", "cleared"}
                    /\ starts' \in 0 .. MaxStarts /\ since' \in 0 .. Saturation
<1>0. /\ SequenceTypeOK /\ now \in Times
      /\ snapshot \in {"saved", "refused", "canceled", "cleared"}
      /\ starts \in 0 .. MaxStarts /\ since \in 0 .. Saturation
  BY Zenon DEF PowerTypeOK
<1>1. \A gap \in 1 .. MaxGap :
        After(now, gap) \in Times /\ Saturating(since + gap) \in 0 .. Saturation
  BY <1>0, Delays, AfterIsTime DEF Saturating
<1>2. 0 \in 0 .. Saturation
  BY Delays
<1>3. starts < MaxStarts => starts + 1 \in 0 .. MaxStarts
  BY <1>0, GapAssumption
<1>4. UNCHANGED sequence => SequenceTypeOK'
  BY <1>0 DEF SequenceTypeOK, sequence
<1>5. ASSUME NEW gap \in 1 .. MaxGap, Advance(gap) PROVE Typed
  <2>1. SequenceTypeOK'
    BY Zenon, <1>0, <1>1, <1>5, PollTyped DEF Advance
  <2> QED
    BY Zenon, <2>1, <1>0, <1>1, <1>2, <1>5 DEF Advance
<1>6. ASSUME NEW gap \in 1 .. MaxGap, start_graceful_poweroff(gap) PROVE Typed
  <2>1. SequenceTypeOK'
    BY Zenon, <1>1, <1>6, RestartTyped DEF start_graceful_poweroff, SaveAndStart
  <2> QED
    BY Zenon, <2>1, <1>1, <1>2, <1>3, <1>6
       DEF start_graceful_poweroff, ReleaseBoth, SaveAndStart
<1>7. ASSUME NEW gap \in 1 .. MaxGap, DrawnPowerOff(gap) PROVE Typed
  <2>1. SequenceTypeOK'
    BY Zenon, <1>1, <1>7, RestartTyped DEF DrawnPowerOff
  <2> QED
    BY Zenon, <2>1, <1>1, <1>2, <1>3, <1>7
       DEF DrawnPowerOff, ReleaseBoth
<1>8. ASSUME NEW gap \in 1 .. MaxGap, UserKey(gap) PROVE Typed
  BY Zenon, <1>0, <1>1, <1>2, <1>4, <1>8 DEF UserKey
<1>9. ASSUME NEW gap \in 1 .. MaxGap, Reset(gap) PROVE Typed
  BY Zenon, <1>0, <1>1, <1>4, <1>9 DEF Reset
<1>10. CASE request_system_poweroff
  <2>1. SequenceTypeOK'
    BY Zenon, <1>0, <1>4, <1>10, RestartTyped DEF request_system_poweroff
  <2> QED
    BY Zenon, <2>1, <1>0, <1>10 DEF request_system_poweroff
<1>11. CASE PoweredOff \/ UNCHANGED powerVars
  BY Zenon, <1>0, <1>4, <1>11 DEF PoweredOff, powerVars
<1> QED
  BY Zenon, <1>5, <1>6, <1>7, <1>8, <1>9, <1>10, <1>11 DEF PowerNext

(* Undisturbed, the keys are those of the stage while a sequence is under  *)
(* way.                                                                    *)
LEMMA StageKeys ==
  ASSUME PowerInv, ~disturbed, stage # "IDLE"
  PROVE  teal = (stage = "RELEASE_TEAL") /\ on = (stage = "RELEASE_ON")
BY DEF PowerInv, KeyInv, SnapshotInv

(* Nothing is due when no sequence is under way.                           *)
LEMMA IdleAdvance ==
  ASSUME PowerTypeOK, stage = "IDLE", NEW gap \in 1 .. MaxGap, Advance(gap)
  PROVE  UNCHANGED sequence /\ teal' = teal /\ on' = on
<1>1. PICK action \in Actions :
        power_sequence_poll(now', lcd, action) /\ SetKeys(action)
  BY Zenon DEF Advance
<1>2. action = "NONE" /\ UNCHANGED sequence
  BY <1>1, PollCases
<1>3. {teal, on} \subseteq BOOLEAN
  BY Zenon DEF PowerTypeOK
<1> QED
  BY <1>1, <1>2, <1>3 DEF SetKeys, Releases

(* Undisturbed, a poll presses and releases the keys with its stage.       *)
LEMMA AdvanceKeys ==
  ASSUME PowerInv, NEW gap \in 1 .. MaxGap, Advance(gap)
  PROVE  KeyInv'
<1>1. PowerTypeOK /\ KeyInv /\ disturbed' = disturbed /\ snapshot' = snapshot
  BY Zenon DEF PowerInv, Advance
<1>2. CASE stage = "IDLE"
  <2>1. UNCHANGED <<stage, teal, on>>
    BY Zenon, <1>1, <1>2, IdleAdvance DEF sequence
  <2> QED
    BY ONLY Zenon, <1>1, <2>1 DEF KeyInv
<1>3. CASE stage # "IDLE"
  <2> SUFFICES ASSUME ~disturbed
               PROVE  /\ teal' = (stage' = "RELEASE_TEAL")
                      /\ on' = (stage' = "RELEASE_ON")
    BY <1>1 DEF KeyInv
  <2>1. teal = (stage = "RELEASE_TEAL") /\ on = (stage = "RELEASE_ON")
    BY <1>3, StageKeys
  <2>2. PICK action \in Actions :
          power_sequence_poll(now', lcd, action) /\ SetKeys(action)
    BY Zenon DEF Advance
  <2> QED
    BY <2>1, <2>2, PollCases DEF SetKeys, Releases, sequence
<1> QED
  BY <1>2, <1>3

(* Every step keeps the keys with their stages, as far as undisturbed.     *)
LEMMA StepKeys == PowerInv /\ [PowerNext]_powerVars => KeyInv'
<1> SUFFICES ASSUME PowerInv, [PowerNext]_powerVars PROVE KeyInv'
  OBVIOUS
<1> USE DEF OffRequest, EventPoll, PollAt
<1>0. KeyInv /\ {teal, on, disturbed} \subseteq BOOLEAN
  BY Zenon DEF PowerInv, PowerTypeOK
<1>1. ASSUME NEW gap \in 1 .. MaxGap, Advance(gap) PROVE KeyInv'
  BY Zenon, <1>1, AdvanceKeys
<1>2. ASSUME NEW gap \in 1 .. MaxGap, start_graceful_poweroff(gap) PROVE KeyInv'
  BY <1>2 DEF start_graceful_poweroff, SaveAndStart, ReleaseBoth,
     power_sequence_start, power_sequence_reset, KeyInv
<1>3. ASSUME NEW gap \in 1 .. MaxGap, DrawnPowerOff(gap) PROVE KeyInv'
  <2>1. CASE snapshot' = "saved" /\ power_sequence_start(now') /\ ReleaseBoth
    BY <2>1 DEF ReleaseBoth, power_sequence_start, KeyInv
  <2>2. CASE snapshot' = "canceled" /\ UNCHANGED <<teal, on, disturbed>>
    <3>1. ~disturbed => ~(teal /\ on)
      BY DEF PowerInv, KeyInv
    <3> QED
      BY <2>2, <3>1 DEF KeyInv
  <2> QED
    BY Zenon, <1>3, <2>1, <2>2 DEF DrawnPowerOff
<1>4. ASSUME NEW gap \in 1 .. MaxGap, UserKey(gap) PROVE KeyInv'
  <2>1. CASE disturbed' = TRUE
    BY <2>1 DEF KeyInv
  <2>2. CASE UNCHANGED <<teal, on, disturbed, snapshot, stage>>
    BY Zenon, <1>0, <2>2 DEF KeyInv
  <2> QED
    BY Zenon, <1>4, <2>1, <2>2 DEF UserKey, sequence
<1>5. ASSUME NEW gap \in 1 .. MaxGap, Reset(gap) PROVE KeyInv'
  <2> SUFFICES ASSUME ~disturbed'
               PROVE  /\ teal' = (stage' = "RELEASE_TEAL")
                      /\ on' = (stage' = "RELEASE_ON")
    BY <1>5 DEF KeyInv, Reset
  <2>1. ~disturbed /\ ~teal /\ ~on
    BY Zenon, <1>0, <1>5 DEF Reset
  <2>2. stage \notin {"RELEASE_TEAL", "RELEASE_ON"}
    BY <1>0, <2>1, StageKeys
  <2> QED
    BY <1>5, <2>2 DEF Reset, sequence
<1>6. CASE request_system_poweroff
  <2>1. stage = "FINISHED" /\ UNCHANGED <<snapshot, teal, on, disturbed>>
        /\ stage' \in {"FINISHED", "IDLE"}
    BY <1>6 DEF request_system_poweroff, power_sequence_reset, sequence
  <2>2. snapshot # "canceled"
    BY <2>1 DEF PowerInv, SnapshotInv
  <2> SUFFICES ASSUME ~disturbed'
               PROVE  /\ teal' = (stage' = "RELEASE_TEAL")
                      /\ on' = (stage' = "RELEASE_ON")
    BY <2>1, <2>2 DEF KeyInv
  <2>3. ~disturbed
    BY <2>1
  <2> QED
    BY <2>1, <2>3, StageKeys
<1>7. CASE PoweredOff \/ UNCHANGED powerVars
  BY Zenon, <1>0, <1>7 DEF PoweredOff, powerVars, sequence, KeyInv
<1> QED
  BY Zenon, <1>1, <1>2, <1>3, <1>4, <1>5, <1>6, <1>7 DEF PowerNext

(* Only a request that saved the state leaves a sequence under way, and    *)
(* only a request whose save failed forgets that it was saved.             *)
LEMMA StepSnapshot == PowerInv /\ [PowerNext]_powerVars => SnapshotInv'
<1> SUFFICES ASSUME PowerInv, [PowerNext]_powerVars PROVE SnapshotInv'
  OBVIOUS
<1> USE DEF SnapshotInv, OffRequest, EventPoll, PollAt
<1>0. SnapshotInv
  BY DEF PowerInv
<1>1. ASSUME NEW gap \in 1 .. MaxGap, Advance(gap) PROVE SnapshotInv'
  <2>1. stage = "IDLE" => stage' = "IDLE"
    <3>1. PICK action \in Actions : power_sequence_poll(now', lcd, action)
      BY Zenon, <1>1 DEF Advance
    <3> QED
      BY <3>1, PollCases DEF sequence
  <2> QED
    BY Zenon, <1>0, <1>1, <2>1 DEF Advance
<1>2. ASSUME NEW gap \in 1 .. MaxGap, start_graceful_poweroff(gap)
      PROVE  SnapshotInv'
  BY <1>2 DEF start_graceful_poweroff, SaveAndStart, power_sequence_reset
<1>3. ASSUME NEW gap \in 1 .. MaxGap, DrawnPowerOff(gap) PROVE SnapshotInv'
  BY <1>3 DEF DrawnPowerOff, power_sequence_reset
<1>4. ASSUME NEW gap \in 1 .. MaxGap, UserKey(gap) PROVE SnapshotInv'
  BY <1>0, <1>4 DEF UserKey, sequence
<1>5. ASSUME NEW gap \in 1 .. MaxGap, Reset(gap) PROVE SnapshotInv'
  BY <1>5 DEF Reset
<1>6. CASE request_system_poweroff
  BY <1>0, <1>6 DEF request_system_poweroff, power_sequence_reset, sequence
<1>7. CASE PoweredOff \/ UNCHANGED powerVars
  BY <1>0, <1>7 DEF PoweredOff, powerVars, sequence
<1> QED
  BY Zenon, <1>1, <1>2, <1>3, <1>4, <1>5, <1>6, <1>7 DEF PowerNext

-----------------------------------------------------------------------------
(* The hold times.                                                         *)

HoldStages == {"RELEASE_TEAL", "PRESS_ON", "RELEASE_ON"}

(* While a key is held, a poll that finds the delay over finds all of it   *)
(* elapsed, and one that does not leaves the rest to wait.                 *)
LEMMA Waited ==
  ASSUME PowerInv, ~disturbed, stage \in HoldStages, NEW gap \in 1 .. MaxGap
  PROVE  /\ time_reached(After(now, gap), next_ms) => since + gap >= Delay
         /\ ~time_reached(After(now, gap), next_ms) =>
              Saturating(since + gap) + ((next_ms - After(now, gap)) % Wrap)
                = Delay
<1> DEFINE left == (next_ms - now) % Wrap
<1>1. now \in Times /\ next_ms \in Times /\ since \in 0 .. Saturation
  BY Zenon DEF PowerInv, PowerTypeOK, SequenceTypeOK
<1>2. since + left = Delay
  BY Zenon DEF PowerInv, TimeInv, HoldStages
<1>3. Delay \in {TEAL_HOLD_MS, PREFIX_SETTLE_MS, ON_HOLD_MS}
  BY DEF Delay, HoldStages
<1>4. Delay \in Nat /\ 2 * Delay < Wrap /\ Delay <= Saturation
  BY <1>3, Delays DEF Saturation
<1>5. left \in Nat
  BY <1>1, Delays, Residue DEF Times
<1>6. 2 * left < Wrap
  BY <1>1, <1>2, <1>4, <1>5, Delays
<1>7. /\ time_reached(After(now, gap), next_ms) <=> gap >= left
      /\ gap < left => (next_ms - After(now, gap)) % Wrap = left - gap
  BY <1>1, <1>6, Polled
<1>8. CASE gap >= left
  BY <1>1, <1>2, <1>5, <1>7, <1>8, Delays
<1>9. CASE gap < left
  <2>1. Saturating(since + gap) = since + gap
    BY <1>1, <1>2, <1>4, <1>5, <1>9, Delays DEF Saturating
  <2> QED
    BY <1>1, <1>2, <1>5, <1>7, <1>9, <2>1, Delays
<1> QED
  BY <1>5, <1>8, <1>9, Delays

(* A poll with nothing due that leaves the sequence and, if the user has   *)
(* not touched them, the keys alone counts the gap towards the delay.      *)
LEMMA Counted ==
  ASSUME PowerInv, NEW gap \in 1 .. MaxGap, EventPoll(gap),
         UNCHANGED sequence, disturbed => disturbed',
         ~disturbed' => since' = Saturating(since + gap)
  PROVE  TimeInv'
<1> SUFFICES ASSUME ~disturbed', stage' \in HoldStages
             PROVE  since' + ((next_ms' - now') % Wrap) = Delay'
  BY Zenon DEF TimeInv, HoldStages
<1>1. ~disturbed /\ stage' = stage /\ next_ms' = next_ms /\ Delay' = Delay
  BY DEF sequence, Delay
<1>2. now' = After(now, gap) /\ ~time_reached(now', next_ms)
  BY <1>1 DEF EventPoll, PollAt, NothingDue, power_sequence_active, HoldStages
<1>3. Saturating(since + gap) + ((next_ms - After(now, gap)) % Wrap) = Delay
  BY Zenon, <1>1, <1>2, Waited
<1> QED
  BY <1>1, <1>2, <1>3

(* A poll that enters a stage starts its delay at the very transition.     *)
LEMMA AdvanceTime ==
  ASSUME PowerInv, NEW gap \in 1 .. MaxGap, Advance(gap)
  PROVE  TimeInv'
<1> SUFFICES ASSUME ~disturbed', stage' \in HoldStages
             PROVE  since' + ((next_ms' - now') % Wrap) = Delay'
  BY Zenon DEF TimeInv, HoldStages
<1>1. PICK action \in Actions :
        power_sequence_poll(now', lcd, action) /\ SetKeys(action)
  BY Zenon DEF Advance
<1>2. ~disturbed
  BY Zenon DEF Advance
<1>3. now' = After(now, gap) /\ now' \in Times
  <2>1. now \in Times
    BY Zenon DEF PowerInv, PowerTypeOK
  <2> QED
    BY <2>1, Delays, AfterIsTime DEF Advance, PollAt
<1>4. since' = IF teal' # teal \/ on' # on THEN 0 ELSE Saturating(since + gap)
  BY Zenon DEF Advance
<1>5. CASE action = "NONE" /\ UNCHANGED sequence /\ NothingDue(now', lcd)
  <2>1. teal' = teal /\ on' = on
    <3>1. {teal, on} \subseteq BOOLEAN
      BY Zenon DEF PowerInv, PowerTypeOK
    <3> QED
      BY <1>1, <1>5, <3>1 DEF SetKeys, Releases
  <2>2. since' = Saturating(since + gap)
    BY Zenon, <1>4, <2>1
  <2>3. EventPoll(gap)
    BY Zenon, <1>5 DEF Advance, EventPoll
  <2> QED
    BY Zenon, <1>2, <1>5, <2>2, <2>3, Counted DEF TimeInv, HoldStages, Advance
<1>6. CASE /\ action \in {"PRESS_TEAL", "RELEASE_TEAL", "PRESS_ON"}
           /\ stage \in {"PRESS_TEAL", "WAIT_FOR_HP_OFF", "RELEASE_TEAL",
                         "PRESS_ON"}
           /\ \/ /\ stage \in {"PRESS_TEAL", "WAIT_FOR_HP_OFF"}
                 /\ action = "PRESS_TEAL"
                 /\ stage' = "RELEASE_TEAL" /\ next_ms' = After(now', TEAL_HOLD_MS)
              \/ /\ stage = "RELEASE_TEAL" /\ action = "RELEASE_TEAL"
                 /\ stage' = "PRESS_ON" /\ next_ms' = After(now', PREFIX_SETTLE_MS)
              \/ /\ stage = "PRESS_ON" /\ action = "PRESS_ON"
                 /\ stage' = "RELEASE_ON" /\ next_ms' = After(now', ON_HOLD_MS)
  <2>1. teal' # teal \/ on' # on
    <3>1. teal = (stage = "RELEASE_TEAL") /\ on = (stage = "RELEASE_ON")
      BY <1>2, <1>6, StageKeys
    <3> QED
      BY <1>1, <1>6, <3>1 DEF SetKeys, Releases
  <2>2. since' = 0
    BY Zenon, <1>4, <2>1
  <2>3. next_ms' = After(now', Delay')
    BY <1>6 DEF Delay
  <2>4. Delay' \in {TEAL_HOLD_MS, PREFIX_SETTLE_MS, ON_HOLD_MS}
    BY DEF Delay, HoldStages
  <2>5. Delay' \in Nat /\ 2 * Delay' < Wrap
    BY <2>4, Delays
  <2>6. (After(now', Delay') - now') % Wrap = Delay'
    BY <1>3, <2>5, Started
  <2> QED
    BY <2>2, <2>3, <2>5, <2>6
<1> QED
  BY <1>1, <1>5, <1>6, PollCases DEF HoldStages

(* Every step keeps the time elapsed and the time left in balance.         *)
LEMMA StepTime == PowerInv /\ [PowerNext]_powerVars => TimeInv'
<1> SUFFICES ASSUME PowerInv, [PowerNext]_powerVars PROVE TimeInv'
  OBVIOUS
<1>1. ASSUME NEW gap \in 1 .. MaxGap, Advance(gap) PROVE TimeInv'
  BY Zenon, <1>1, AdvanceTime
<1>2. ASSUME stage' \notin HoldStages PROVE TimeInv'
  BY Zenon, <1>2 DEF TimeInv, HoldStages
<1>3. ASSUME NEW gap \in 1 .. MaxGap,
             start_graceful_poweroff(gap) \/ DrawnPowerOff(gap)
      PROVE  TimeInv'
  BY <1>2, <1>3 DEF start_graceful_poweroff, DrawnPowerOff, SaveAndStart,
     power_sequence_start, power_sequence_reset, HoldStages
<1>4. ASSUME NEW gap \in 1 .. MaxGap, UserKey(gap) PROVE TimeInv'
  <2>1. CASE teal' = teal /\ on' = on
    <3>1. since' = Saturating(since + gap) /\ disturbed' = disturbed
      BY Zenon, <1>4, <2>1 DEF UserKey
    <3>2. disturbed => disturbed'
      BY ONLY Zenon, <3>1
    <3> QED
      BY Zenon, <1>4, <3>1, <3>2, Counted DEF UserKey
  <2>2. CASE ~(teal' = teal /\ on' = on)
    BY Zenon, <1>4, <2>2 DEF UserKey, TimeInv
  <2> QED
    BY <2>1, <2>2
<1>5. ASSUME NEW gap \in 1 .. MaxGap, Reset(gap) PROVE TimeInv'
  <2>1. disturbed \in BOOLEAN
    BY Zenon DEF PowerInv, PowerTypeOK
  <2>2. disturbed => disturbed'
    BY Zenon, <1>5, <2>1 DEF Reset
  <2> QED
    BY Zenon, <1>5, <2>1, <2>2, Counted DEF Reset
<1>6. CASE request_system_poweroff
  BY <1>2, <1>6
     DEF request_system_poweroff, power_sequence_reset, sequence, HoldStages
<1>7. CASE PoweredOff \/ UNCHANGED powerVars
  BY <1>7 DEF PoweredOff, powerVars, sequence, PowerInv, TimeInv, Delay
<1> QED
  BY Zenon, <1>1, <1>3, <1>4, <1>5, <1>6, <1>7 DEF PowerNext

-----------------------------------------------------------------------------
(* The theorems.                                                           *)

(* The invariant of the OFF sequence: undisturbed, each key is down in its *)
(* own stage only and for its whole delay; a sequence under way has saved  *)
(* the state.                                                              *)
THEOREM PowerInvariant == PowerSpec => []PowerInv
<1>1. PowerInit => PowerInv
  BY InitPower
<1>2. PowerInv /\ [PowerNext]_powerVars => PowerInv'
  <2> SUFFICES ASSUME PowerInv, [PowerNext]_powerVars PROVE PowerInv'
    OBVIOUS
  <2>1. PowerTypeOK'
    BY Zenon, StepFlags, StepData DEF PowerInv, PowerTypeOK
  <2> QED
    BY Zenon, <2>1, StepKeys, StepSnapshot, StepTime DEF PowerInv
<1> QED
  BY <1>1, <1>2, PTL DEF PowerSpec

(* Teal and ON are never pressed together by the sequence, whatever        *)
(* retries, reawakenings, canceled and repeated requests come between.     *)
THEOREM NoChord == PowerSpec => []NeverAChord
<1>1. PowerInv => NeverAChord
  BY DEF PowerInv, KeyInv, NeverAChord
<1> QED
  BY <1>1, PowerInvariant, PTL

(* The PMU is asked to cut the power only after a save or a reset, with    *)
(* both keys up.                                                           *)
THEOREM PowerIsCutSafely == PowerSpec => []SafeToCutPower
<1>1. PowerInv => SafeToCutPower
  BY DEF PowerInv, KeyInv, SnapshotInv, SafeToCutPower
<1> QED
  BY <1>1, PowerInvariant, PTL

(* A sequence that ended leaves none of its keys down: only a drawn OFF    *)
(* whose save failed, and that cancels a sequence under way, can.          *)
THEOREM KeysAreReleased == PowerSpec => []KeysReleasedWhenDone
<1>1. PowerInv => KeysReleasedWhenDone
  BY StageKeys
     DEF PowerInv, KeyInv, PowerTypeOK, KeysReleasedWhenDone,
         power_sequence_active
<1> QED
  BY <1>1, PowerInvariant, PTL

(* A step that leaves a hold stage comes when all of its delay has passed. *)
LEMMA StepHolds ==
  ASSUME PowerInv, PowerNext, ~disturbed, stage \in HoldStages,
         \/ stage = "RELEASE_TEAL" /\ stage' = "PRESS_ON"
         \/ stage = "PRESS_ON" /\ stage' = "RELEASE_ON"
         \/ stage = "RELEASE_ON" /\ stage' = "WAIT_FOR_HP_OFF"
  PROVE  Elapsed >= Delay
<1>1. PICK gap \in 1 .. MaxGap : Advance(gap)
  BY DEF PowerNext, start_graceful_poweroff, DrawnPowerOff, SaveAndStart,
     power_sequence_start, power_sequence_reset, UserKey, Reset, sequence,
     request_system_poweroff, PoweredOff, powerVars, HoldStages
<1>2. PICK action \in Actions : power_sequence_poll(now', lcd, action)
  BY Zenon, <1>1 DEF Advance
<1>3. now' = After(now, gap)
  BY <1>1 DEF Advance, PollAt
<1>4. time_reached(now', next_ms)
  BY <1>2, PollCases DEF sequence, HoldStages
<1>5. since + gap >= Delay
  BY Zenon, <1>3, <1>4, Waited
<1>6. now \in Times /\ gap \in Nat /\ 2 * gap < Wrap
  BY Zenon, Delays DEF PowerInv, PowerTypeOK
<1>7. (now' - now) % Wrap = gap
  BY <1>3, <1>6, Started
<1> QED
  BY <1>5, <1>7 DEF Elapsed

(* Every transition of a key comes at least its delay after the one before *)
(* it, also across the wrap of the clock.                                  *)
THEOREM KeysAreHeld == PowerSpec => KeysHeldLongEnough
<1> DEFINE Held ==
      ~disturbed =>
        /\ stage = "RELEASE_TEAL" /\ stage' = "PRESS_ON" => Elapsed >= TEAL_HOLD_MS
        /\ stage = "PRESS_ON" /\ stage' = "RELEASE_ON" => Elapsed >= PREFIX_SETTLE_MS
        /\ stage = "RELEASE_ON" /\ stage' = "WAIT_FOR_HP_OFF"
             => Elapsed >= ON_HOLD_MS
<1>1. PowerInv /\ [PowerNext]_powerVars => [Held]_powerVars
  <2> SUFFICES ASSUME PowerInv, PowerNext, ~disturbed
               PROVE  Held
    BY Zenon
  <2>1. CASE stage = "RELEASE_TEAL" /\ stage' = "PRESS_ON"
    BY <2>1, StepHolds DEF HoldStages, Delay
  <2>2. CASE stage = "PRESS_ON" /\ stage' = "RELEASE_ON"
    BY <2>2, StepHolds DEF HoldStages, Delay
  <2>3. CASE stage = "RELEASE_ON" /\ stage' = "WAIT_FOR_HP_OFF"
    BY <2>3, StepHolds DEF HoldStages, Delay
  <2> QED
    BY <2>1, <2>2, <2>3
<1> QED
  BY <1>1, PowerInvariant, PTL DEF PowerSpec, KeysHeldLongEnough
=============================================================================
