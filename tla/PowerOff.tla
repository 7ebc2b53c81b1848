------------------------------ MODULE PowerOff ------------------------------
(***************************************************************************)
(* Turning the calculator off: src/platform/keyboard.c driving             *)
(* PowerSequence.  An OFF request saves the state and starts the sequence; *)
(* keyboard_poll advances it, presses and releases the teal and ON keys of *)
(* the HP key matrix and finally asks the PicoCalc's PMU to cut the power. *)
(*                                                                         *)
(* The HP ROM is external: its LCD goes on and off at any time.  So are    *)
(* the result of state_save (Persistence models it) and the PMU.  The rest *)
(* of keyboard.c is one action, UserKey: the user's keys share the matrix  *)
(* with the sequence, teal and ON included.                                *)
(***************************************************************************)
EXTENDS PowerSequence

CONSTANTS
  MaxGap,      \* bound: the longest time between two polls
  MaxStarts    \* bound: how many OFF requests the user makes

ASSUME GapAssumption ==
  /\ MaxGap \in Nat \ {0} /\ 2 * MaxGap < Wrap
  /\ MaxStarts \in Nat

VARIABLES
  now,         \* to_ms_since_boot at the last poll
  lcd,         \* hp48_core_lcd_on()
  teal, on,    \* the matrix bits of keys 0x15 and 0x8000
  powered,     \* the PMU has not cut the power
  starts,      \* OFF requests so far
  snapshot,    \* history: how the last OFF request or reset left the saved
               \* state: "saved"; "refused" and "canceled" when the save of
               \* the power key's or of the drawn key's OFF failed; "cleared"
  since,       \* history: ms since teal or ON last changed, saturating
  disturbed    \* history: since the last OFF request that released the keys,
               \* something other than the sequence changed teal or ON

powerVars == <<sequence, now, lcd, teal, on, powered, starts, since, disturbed,
               snapshot>>

(* No hold is longer than this, so a longer time need not be counted.       *)
Saturation == TEAL_HOLD_MS + PREFIX_SETTLE_MS + ON_HOLD_MS

PowerTypeOK ==
  /\ SequenceTypeOK
  /\ now \in Times
  /\ {lcd, teal, on, powered, disturbed} \subseteq BOOLEAN
  /\ snapshot \in {"saved", "refused", "canceled", "cleared"}
  /\ starts \in 0 .. MaxStarts
  /\ since \in 0 .. Saturation

PowerInit ==
  /\ SequenceInit
  /\ now \in Times
  /\ lcd \in BOOLEAN
  /\ teal = FALSE /\ on = FALSE
  /\ powered = TRUE /\ starts = 0
  /\ snapshot = "cleared"
  /\ since = 0 /\ disturbed = FALSE

-----------------------------------------------------------------------------
(* keyboard_poll advances the sequence; only when that returns NONE does it *)
(* handle one event from the keyboard.  While request_system_poweroff waits *)
(* for the PMU (the stage is FINISHED) nothing is polled.                  *)

PollAt(gap) ==
  /\ powered /\ stage # "FINISHED"
  /\ now' = After(now, gap)
  /\ lcd' \in BOOLEAN

Saturating(t) == IF t > Saturation THEN Saturation ELSE t

(* advance_poweroff_sequence: the matrix keys an action changes.           *)
Releases(action, release) ==
  action \in {release, "HP_OFF_REAWAKENED", "REQUEST_SYSTEM_OFF_UNCONFIRMED"}

SetKeys(action) ==
  /\ teal' = (action = "PRESS_TEAL" \/ (teal /\ ~Releases(action, "RELEASE_TEAL")))
  /\ on' = (action = "PRESS_ON" \/ (on /\ ~Releases(action, "RELEASE_ON")))

Advance(gap) ==
  /\ PollAt(gap)
  /\ \E action \in Actions :
       power_sequence_poll(now', lcd, action) /\ SetKeys(action)
  /\ since' = IF teal' # teal \/ on' # on THEN 0 ELSE Saturating(since + gap)
  /\ UNCHANGED <<snapshot, powered, starts, disturbed>>

(* A poll with nothing due, which goes on to handle an event.              *)
EventPoll(gap) == PollAt(gap) /\ NothingDue(now', lcd)

OffRequest(gap) ==
  /\ EventPoll(gap)
  /\ starts < MaxStarts /\ starts' = starts + 1
  /\ UNCHANGED powered

SaveAndStart ==
  \/ snapshot' = "saved" /\ power_sequence_start(now')
  \/ snapshot' = "refused" /\ power_sequence_reset

ReleaseBoth == teal' = FALSE /\ on' = FALSE /\ since' = 0 /\ disturbed' = FALSE

(* Mutants: an OFF request leaves the keys down; and it ignores that the   *)
(* state could not be saved.                                               *)
OffKeepsKeys(gap) ==
  /\ OffRequest(gap)
  /\ ~power_sequence_active
  /\ since' = 0 /\ disturbed' = FALSE
  /\ SaveAndStart
  /\ UNCHANGED <<teal, on>>

OffIgnoresSave(gap) ==
  /\ OffRequest(gap)
  /\ ~power_sequence_active
  /\ ReleaseBoth
  /\ snapshot' \in {"saved", "refused"} /\ power_sequence_start(now')

(* The power key: refused while a sequence is active; releases every key,  *)
(* then saves.                                                             *)
start_graceful_poweroff(gap) ==
  /\ OffRequest(gap)
  /\ ~power_sequence_active
  /\ ReleaseBoth
  /\ SaveAndStart

(* Space on the drawn ON key with teal pending: saves at once, does not    *)
(* look whether a sequence is active, and releases the two keys only when  *)
(* the save succeeded.  A failed save ends the sequence under way and      *)
(* leaves its key as it is.                                                *)
DrawnPowerOff(gap) ==
  /\ OffRequest(gap)
  /\ \/ snapshot' = "saved" /\ power_sequence_start(now') /\ ReleaseBoth
     \/ /\ snapshot' = "canceled" /\ power_sequence_reset
        /\ since' = Saturating(since + gap)
        /\ UNCHANGED <<teal, on, disturbed>>

(* The rest of keyboard.c presses or releases teal and ON.                 *)
UserKey(gap) ==
  /\ EventPoll(gap)
  /\ teal' \in BOOLEAN /\ on' \in BOOLEAN
  /\ IF UNCHANGED <<teal, on>>
     THEN since' = Saturating(since + gap) /\ UNCHANGED disturbed
     ELSE since' = 0 /\ disturbed' = TRUE
  /\ UNCHANGED <<sequence, powered, starts, snapshot>>

(* Ctrl+Esc, done by main(): deletes the snapshot and clears the matrix    *)
(* with the rest of the Saturn, but leaves s_poweroff alone.               *)
Reset(gap) ==
  /\ EventPoll(gap)
  /\ teal' = FALSE /\ on' = FALSE
  /\ snapshot' = "cleared"
  /\ since' = Saturating(since + gap)
  /\ disturbed' = (disturbed \/ teal \/ on)
  /\ UNCHANGED <<sequence, powered, starts>>

(* The end of request_system_poweroff: the PMU has cut the power, or the   *)
(* bounded wait is over or the register could not be written.              *)
request_system_poweroff ==
  /\ powered /\ stage = "FINISHED"
  /\ \/ powered' = FALSE /\ UNCHANGED sequence
     \/ power_sequence_reset /\ UNCHANGED powered
  /\ UNCHANGED <<snapshot, now, lcd, teal, on, starts, since, disturbed>>

PoweredOff == ~powered /\ UNCHANGED powerVars

PowerNext ==
  \/ \E gap \in 1 .. MaxGap :
       \/ Advance(gap) \/ start_graceful_poweroff(gap)
       \/ DrawnPowerOff(gap) \/ UserKey(gap) \/ Reset(gap)
  \/ request_system_poweroff
  \/ PoweredOff

(* The main loop and the SHUTDN loop both call keyboard_poll again and     *)
(* again, and request_system_poweroff's waits are bounded.                 *)
PowerFairness ==
  /\ WF_powerVars(\E gap \in 1 .. MaxGap : Advance(gap))
  /\ WF_powerVars(request_system_poweroff)

PowerSpec == PowerInit /\ [][PowerNext]_powerVars /\ PowerFairness

-----------------------------------------------------------------------------
(* Properties.                                                             *)

(* "HP OFF is a prefix sequence, not a simultaneous key chord": whatever   *)
(* retries, reawakenings, canceled and repeated OFF requests come between, *)
(* teal and ON are never down together unless the user's own keys did it.  *)
NeverAChord == ~disturbed => ~(teal /\ on)

(* Every transition the HP ROM sees keeps its distance from the one before *)
(* (teal held TEAL_HOLD_MS, ON after PREFIX_SETTLE_MS, ON held ON_HOLD_MS)  *)
(* as measured by elapsed time, also where the clock wraps and in a retry. *)
Elapsed == since + ((now' - now) % Wrap)

KeysHeldLongEnough ==
  [][~disturbed =>
       /\ stage = "RELEASE_TEAL" /\ stage' = "PRESS_ON" => Elapsed >= TEAL_HOLD_MS
       /\ stage = "PRESS_ON" /\ stage' = "RELEASE_ON" => Elapsed >= PREFIX_SETTLE_MS
       /\ stage = "RELEASE_ON" /\ stage' = "WAIT_FOR_HP_OFF"
            => Elapsed >= ON_HOLD_MS]_powerVars

(* The PMU is asked to cut the power only when the state was saved, or     *)
(* reset since; and with both keys of the sequence up, confirmed or not.   *)
SafeToCutPower ==
  stage = "FINISHED" => /\ snapshot \notin {"refused", "canceled"}
                        /\ ~disturbed => ~teal /\ ~on

(* When no sequence is active its keys are up: neither a request of the    *)
(* power key that is refused, nor a reset, nor a PMU that does not answer  *)
(* leaves one of them down.  Nothing is claimed after a drawn OFF whose    *)
(* save failed: it cancels a sequence that holds teal or ON without        *)
(* releasing the key, which stays down until the next OFF request or reset. *)
KeysReleasedWhenDone ==
  ~power_sequence_active /\ ~disturbed /\ snapshot # "canceled" => ~teal /\ ~on

(* An OFF request that saved the state ends, in power off or in a running  *)
(* calculator, whatever the LCD does: attempts and waits are bounded.      *)
OffTerminates == power_sequence_active ~> ~power_sequence_active

-----------------------------------------------------------------------------
(* The inductive invariant behind the safety properties.                   *)

(* Undisturbed, a key of the sequence is down in its own stage only, or is *)
(* the one a canceled sequence left down.                                  *)
KeyInv ==
  ~disturbed => /\ ~(teal /\ on)
                /\ snapshot # "canceled" => /\ teal = (stage = "RELEASE_TEAL")
                                            /\ on = (stage = "RELEASE_ON")

(* Whatever has started a sequence saved the state first.                  *)
SnapshotInv == stage # "IDLE" => snapshot \notin {"refused", "canceled"}

(* Undisturbed, the time since the last transition and the time left until *)
(* next_ms, both modulo the clock, add up to the delay the stage waits for. *)
Delay == CASE stage = "RELEASE_TEAL" -> TEAL_HOLD_MS
           [] stage = "PRESS_ON"     -> PREFIX_SETTLE_MS
           [] stage = "RELEASE_ON"   -> ON_HOLD_MS

TimeInv ==
  ~disturbed /\ stage \in {"RELEASE_TEAL", "PRESS_ON", "RELEASE_ON"} =>
    since + ((next_ms - now) % Wrap) = Delay

PowerInv == PowerTypeOK /\ KeyInv /\ SnapshotInv /\ TimeInv
=============================================================================
