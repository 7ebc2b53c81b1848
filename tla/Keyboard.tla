------------------------------ MODULE Keyboard ------------------------------
(***************************************************************************)
(* src/platform/keyboard.c: from the events of the PicoCalc's keyboard to  *)
(* the key matrix of the HP 48, the contexts (the shifts and Alpha that    *)
(* wait for the next key) and the requests to main().                      *)
(*                                                                         *)
(* External: the keyboard controller keeps its events in a FIFO in order,  *)
(* so an event is any that can follow the events delivered so far; events  *)
(* of a key that is held are repeats and change nothing.  The release of a *)
(* key is reported under the code of its press.  The HP ROM shows any      *)
(* annunciator and has its LCD on or off as it likes.                      *)
(*                                                                         *)
(* One key stands for each group that the code treats alike: A and B for   *)
(* the plain keys, LEFT for the arrows, F8 and F10 for the function keys   *)
(* with a Ctrl shortcut.  The OFF sequence is modelled by PowerOff; here   *)
(* it presses and releases its two keys at any time.  Time is counted in   *)
(* units of the poll period.                                               *)
(***************************************************************************)
EXTENDS HeldKeys, PrefixSequence

CONSTANTS
  Keys,         \* the keys the user has: a subset of PhysicalKeys
  DrawnCodes,   \* the drawn keys the cursor selects: a subset of Codes
  MaxFingers,   \* bound: how many keys are down at once
  HP_KEY_MIN_HOLD, HP_GAME_COMMAND_MIN_HOLD, WARM_START_TIMEOUT

PlainCode == [A |-> "a", B |-> "b", BKSP |-> "drop", ESC |-> "on",
              F8 |-> "f8", F10 |-> "f10"]

Shifts == {"SHL", "SHR"}
ShiftCode == [SHL |-> "lsh", SHR |-> "rsh"]

PhysicalKeys ==
  DOMAIN PlainCode \union Shifts
    \union {"LEFT", "SPACE", "ENTER", "CTRL", "ALT", "CAPS", "POWER"}

Contexts == {"lsh", "rsh", "alpha"}
Codes == {PlainCode[k] : k \in DOMAIN PlainCode}
           \union {"left", "enter"} \union Contexts

ASSUME KeyboardAssumption ==
  /\ Keys \subseteq PhysicalKeys /\ DrawnCodes \subseteq Codes
  /\ MaxFingers \in Nat
  /\ {HP_KEY_MIN_HOLD, HP_GAME_COMMAND_MIN_HOLD, WARM_START_TIMEOUT} \subseteq Nat \ {0}
  /\ PrefixCodes = Contexts /\ ActionCodes = Codes \ Contexts

VARIABLES
  fingers,      \* the keys whose press was handled and whose release was not
  due,          \* s_next_poll_ms is reached
  shift_used,   \* s_lshift_used, s_rshift_used, while that shift is down
  pending,      \* s_pending_context_code
  text,         \* s_text_mode: Alpha Lock
  follow,       \* s_follow_controller_caps
  caps,         \* the controller's Caps Lock bit
  matrix,       \* saturn.keybuf: the codes that are down
  held,         \* s_held_keys
  nav,          \* s_nav_active_code: the drawn key that Space holds
  nav_poweroff, \* s_nav_poweroff_active
  arrow,        \* s_arrow_key_mode
  chord,        \* s_warm_start_chord
  warm,         \* s_warm_start_pending
  warm_left,    \* the time left until s_warm_start_deadline_ms
  off,          \* s_poweroff, as far as its keys go
  requests,     \* the s_..._request flags and s_speed_adjustment
  import_wake,  \* main.c: s_import_wake_down
  users         \* history: the actions that began with the pending context

contextVars  == <<pending, text, users>>
capsVars     == <<follow, caps>>
matrixVars   == <<matrix, held>>
navVars      == <<nav, nav_poweroff>>
sequenceVars == <<prefix, warm, warm_left, off>>
mainVars     == <<requests, import_wake>>
vars == <<fingers, due, shift_used, arrow, chord, contextVars, capsVars,
          matrixVars, navVars, sequenceVars, mainVars>>

MaxHold == IF HP_KEY_MIN_HOLD > HP_GAME_COMMAND_MIN_HOLD
           THEN HP_KEY_MIN_HOLD ELSE HP_GAME_COMMAND_MIN_HOLD

Requests == {"speed", "import", "save", "reset"}

KeyboardTypeOK ==
  /\ fingers \subseteq Keys /\ shift_used \subseteq Shifts
  /\ {due, text, follow, caps, nav_poweroff, arrow, chord, warm, import_wake}
       \subseteq BOOLEAN
  /\ pending \in Contexts \union {NoCode}
  /\ nav \in DrawnCodes \union {NoCode}
  /\ matrix \subseteq Codes
  /\ DOMAIN held \subseteq Codes \ Contexts
  /\ Cardinality(DOMAIN held) <= HELD_KEYS_CAPACITY
  /\ \A c \in DOMAIN held : held[c] \in HeldKeySlots(MaxHold)
  /\ PrefixTypeOK
  /\ warm_left \in 0 .. WARM_START_TIMEOUT
  /\ off \in {"none", "waiting", "teal", "on"}
  /\ requests \subseteq Requests
  /\ users \subseteq Codes \ Contexts

Init ==
  /\ fingers = {} /\ due = TRUE /\ shift_used = {}
  /\ pending = NoCode /\ text = FALSE /\ follow = TRUE /\ caps = FALSE
  /\ matrix = {} /\ held = NoKeys
  /\ nav = NoCode /\ nav_poweroff = FALSE /\ arrow = FALSE
  /\ prefix = Idle /\ chord = FALSE /\ warm = FALSE /\ warm_left = 0
  /\ off = "none"
  /\ requests = {} /\ import_wake = FALSE /\ users = {}

s_ctrl == "CTRL" \in fingers
s_alt == "ALT" \in fingers

-----------------------------------------------------------------------------
(* Contexts.                                                               *)

SetContext(context, lock) ==
  pending' = context /\ text' = lock /\ users' = {}

clear_pending_context == SetContext(NoCode, text)

toggle_pending_context(code) ==
  IF code = "alpha"
  THEN \/ pending # code /\ SetContext(code, FALSE)
       \/ pending = code /\ ~text /\ SetContext(code, TRUE)
       \/ pending = code /\ text /\ SetContext(NoCode, FALSE)
  ELSE SetContext(IF pending = code THEN NoCode ELSE code, FALSE)

apply_controller_caps(enabled) ==
  IF text = enabled /\ (enabled <=> pending = "alpha")
  THEN UNCHANGED contextVars
  ELSE SetContext(IF enabled THEN "alpha"
                  ELSE IF pending = "alpha" THEN NoCode ELSE pending,
                  enabled)

-----------------------------------------------------------------------------
(* Actions: HP keys that go down and, later, up.                           *)

(* release_hp_action of each code: its bit goes up and, when it began with *)
(* a context, finish_action_context ends the context that is pending now.  *)
FinishesContext(codes) == \E c \in codes : held[c].consumes

Lifted(codes) ==
  matrix \ (codes \union (IF FinishesContext(codes) THEN {pending} ELSE {}))

release_hp_action(codes) ==
  /\ held' = Popped(held, codes)
  /\ matrix' = Lifted(codes)
  /\ IF FinishesContext(codes) /\ ~text
     THEN clear_pending_context ELSE UNCHANGED contextVars

finish_hp_action == release_hp_action(DOMAIN held)

begin_hp_action_for(code, consumes, hold) ==
  /\ held' = held_keys_press(held, code, hold, consumes)
  /\ matrix' = IF Fits(held, code) THEN matrix \union {code} ELSE matrix

begin_hp_action(code) == begin_hp_action_for(code, FALSE, HP_KEY_MIN_HOLD)

(* Mutant: an action does not end the context it began with.               *)
BeginKeepsContext(code) ==
  /\ begin_hp_action(code)
  /\ users' = users \union {code} /\ UNCHANGED <<pending, text>>

begin_hp_action_with_context(code) ==
  /\ begin_hp_action_for(code, TRUE, HP_KEY_MIN_HOLD)
  /\ users' = IF Fits(held, code) THEN users \union {code} ELSE users
  /\ UNCHANGED <<pending, text>>

request_hp_action_release(code) ==
  /\ held' = held_keys_request_release(held, code)
  /\ matrix' = IF code \in DOMAIN held THEN matrix ELSE matrix \ {code}

(* set_hp_action(code, true).  The ROM has latched the pending context, or *)
(* the context's key is pressed first.                                     *)
PressAction(code) ==
  \/ pending = NoCode /\ begin_hp_action(code) /\ UNCHANGED <<contextVars, prefix>>
  \/ pending # NoCode /\ begin_hp_action_with_context(code) /\ UNCHANGED prefix
  \/ /\ pending # NoCode
     /\ prefix_sequence_start(pending, code)
     /\ matrix' = matrix \union {pending}
     /\ UNCHANGED <<held, contextVars>>

(* What both OFF and a warm start do first: no key is left down.           *)
AllUp == Lifted(DOMAIN held) \ (Contexts \union {"on"})

ReleaseEverything == held' = NoKeys /\ nav' = NoCode /\ clear_pending_context

(* Mutant: OFF forgets to reset s_nav_poweroff_active.                     *)
OffKeepsNavPoweroff ==
  \/ off # "none" /\ UNCHANGED <<contextVars, matrixVars, navVars, sequenceVars>>
  \/ /\ off = "none"
     /\ ReleaseEverything /\ matrix' = AllUp /\ prefix_sequence_reset
     /\ warm' = FALSE /\ off' \in {"waiting", "none"}
     /\ UNCHANGED <<nav_poweroff, warm_left>>

start_graceful_poweroff ==
  \/ off # "none" /\ UNCHANGED <<contextVars, matrixVars, navVars, sequenceVars>>
  \/ /\ off = "none"
     /\ ReleaseEverything /\ matrix' = AllUp /\ prefix_sequence_reset
     /\ nav_poweroff' = FALSE /\ warm' = FALSE
     /\ off' \in {"waiting", "none"}   \* state_save
     /\ UNCHANGED warm_left

start_warm_start ==
  \/ off # "none" /\ UNCHANGED <<contextVars, matrixVars, navVars, sequenceVars>>
  \/ /\ off = "none"
     /\ ReleaseEverything /\ matrix' = AllUp \union {"rsh"}
     /\ prefix' = FirstHold("rsh", "on")
     /\ warm' = TRUE /\ warm_left' = WARM_START_TIMEOUT
     /\ UNCHANGED <<nav_poweroff, off>>

-----------------------------------------------------------------------------
(* keyboard_poll.  A poll does the first of: a step of the OFF sequence, a *)
(* release, a step of the prefix sequence, the end of a warm start, an     *)
(* event.                                                                  *)

Poll == due /\ due' = FALSE

Tick ==
  /\ due' = TRUE
  /\ held' = Elapse(held)
  /\ warm_left' = IF warm_left = 0 THEN 0 ELSE warm_left - 1
  /\ UNCHANGED <<fingers, shift_used, arrow, chord, contextVars, capsVars,
                 matrix, navVars, prefix, warm, off, mainVars>>

OffKeys == {"rsh", "on"}

(* advance_poweroff_sequence, coarsely.                                    *)
OffPoll ==
  /\ Poll
  /\ \/ /\ off = "waiting"
        /\ \/ off' = "teal" /\ matrix' = matrix \union {"rsh"}
           \/ off' = "on" /\ matrix' = matrix \union {"on"}
           \/ off' \in {"waiting", "none"} /\ matrix' \in {matrix, matrix \ OffKeys}
     \/ off = "teal" /\ off' = "waiting" /\ matrix' = matrix \ {"rsh"}
     \/ off = "on" /\ off' = "waiting" /\ matrix' = matrix \ {"on"}
  /\ UNCHANGED <<fingers, shift_used, arrow, chord, contextVars, capsVars, held,
                 navVars, prefix, warm, warm_left, mainVars>>

(* service_hp_action_release: while one waits, the poll ends here.         *)
ReleasePoll ==
  /\ Poll
  /\ held_keys_release_waiting(held)
  /\ release_hp_action(DueReleases(held))
  /\ UNCHANGED <<fingers, shift_used, arrow, chord, capsVars, navVars,
                 sequenceVars, mainVars>>

(* The prefix sequence delivers its action.  In a warm start the action is *)
(* released again at once.                                                 *)
Deliver(code) ==
  LET consumes == pending # NoCode
      pressed == held_keys_press(held, code, HP_KEY_MIN_HOLD, consumes)
  IN /\ held' = IF warm /\ code = "on"
                THEN held_keys_request_release(pressed, code) ELSE pressed
     /\ matrix' = IF Fits(held, code) THEN matrix \union {code}
                  ELSE IF warm /\ code = "on" THEN matrix \ {code} ELSE matrix
     /\ users' = IF consumes /\ Fits(held, code) THEN users \union {code} ELSE users
     /\ UNCHANGED <<pending, text>>

(* Mutant: the prefix is not released before the wait.                     *)
ApplyOnlyPress(transition) ==
  \/ /\ transition \in {"NONE", "RELEASE_PREFIX"} /\ UNCHANGED <<matrixVars, contextVars>>
  \/ /\ transition = "PRESS_PREFIX" /\ matrix' = matrix \union {prefix.prefix_code}
     /\ UNCHANGED <<held, contextVars>>
  \/ transition = "PRESS_ACTION" /\ Deliver(prefix.action_code)

apply_prefix_transition(transition) ==
  \/ transition = "NONE" /\ UNCHANGED <<matrixVars, contextVars>>
  \/ /\ transition = "PRESS_PREFIX" /\ matrix' = matrix \union {prefix.prefix_code}
     /\ UNCHANGED <<held, contextVars>>
  \/ /\ transition = "RELEASE_PREFIX" /\ matrix' = matrix \ {prefix.prefix_code}
     /\ UNCHANGED <<held, contextVars>>
  \/ transition = "PRESS_ACTION" /\ Deliver(prefix.action_code)

PrefixPoll ==
  /\ Poll
  /\ ~held_keys_release_waiting(held)
  /\ \E latched \in BOOLEAN, transition \in Transitions :
       /\ prefix_sequence_advance(latched, transition)
       /\ apply_prefix_transition(transition)
  /\ UNCHANGED <<fingers, shift_used, arrow, chord, capsVars, navVars,
                 warm, warm_left, off, mainVars>>

(* The HP's LCD is off: a second ON wakes it.  Or the time is over.        *)
WarmWake ==
  /\ held' = held_keys_request_release(
               held_keys_press(held, "on", HP_KEY_MIN_HOLD, FALSE), "on")
  /\ matrix' = matrix \union {"on"}

(* Mutant: only a switched-off LCD ends a warm start.                      *)
WarmNeverFails ==
  /\ Poll /\ ~prefix_sequence_active /\ warm /\ held_keys_empty(held)
  /\ \/ WarmWake /\ warm' = FALSE
     \/ warm_left = 0 /\ UNCHANGED <<matrixVars, warm>>
  /\ UNCHANGED <<fingers, shift_used, arrow, chord, contextVars, capsVars,
                 navVars, prefix, warm_left, off, mainVars>>

WarmPoll ==
  /\ Poll /\ ~prefix_sequence_active /\ warm /\ held_keys_empty(held)
  /\ WarmWake \/ (warm_left = 0 /\ UNCHANGED matrixVars)
  /\ warm' = FALSE
  /\ UNCHANGED <<fingers, shift_used, arrow, chord, contextVars, capsVars,
                 navVars, prefix, warm_left, off, mainVars>>

(* Mutant: events are read while a release waits.                          *)
EventTurnWhileWaiting ==
  /\ ~prefix_sequence_active
  /\ ~(warm /\ held_keys_empty(held) /\ warm_left = 0)

EventTurn ==
  /\ ~held_keys_release_waiting(held) /\ ~prefix_sequence_active
  /\ ~(warm /\ held_keys_empty(held) /\ warm_left = 0)

(* update_controller_caps, which comes before the event of a poll.         *)
update_controller_caps ==
  /\ due /\ EventTurn
  /\ "CAPS" \in Keys /\ follow
  /\ apply_controller_caps(caps)
  /\ UNCHANGED <<fingers, due, shift_used, arrow, chord, capsVars, matrixVars,
                 navVars, sequenceVars, mainVars>>

-----------------------------------------------------------------------------
(* handle_event, one action for each of its branches.                      *)

Pressed(key) ==
  /\ Poll /\ EventTurn
  /\ key \in Keys \ fingers /\ Cardinality(fingers) < MaxFingers
  /\ fingers' = fingers \union {key}

Released(key) ==
  /\ Poll /\ EventTurn
  /\ key \in fingers
  /\ fingers' = fingers \ {key}

UseShifts == shift_used' = shift_used \union (fingers \intersect Shifts)

(* The controller reports a press of the power key and no release.         *)
PowerKey ==
  /\ Poll /\ EventTurn /\ "POWER" \in Keys
  /\ start_graceful_poweroff
  /\ UNCHANGED <<fingers, shift_used, arrow, chord, capsVars, mainVars>>

CtrlSpace ==
  /\ s_ctrl /\ Pressed("SPACE")
  /\ finish_hp_action
  /\ arrow' = ~arrow
  /\ UNCHANGED <<shift_used, chord, capsVars, navVars, sequenceVars, mainVars>>

CtrlArrow ==
  /\ s_ctrl /\ Pressed("LEFT")
  /\ requests' = requests \union {"speed"}
  /\ UNCHANGED <<shift_used, arrow, chord, contextVars, capsVars, matrixVars,
                 navVars, sequenceVars, import_wake>>

(* Releases that a branch returns from without a look at the key.          *)
Ignored(key) ==
  \/ s_ctrl /\ key \in {"SPACE", "LEFT", "F8", "F10"}
  \/ ~arrow /\ key = "LEFT"
  \/ nav = NoCode /\ key = "SPACE"
  \/ key \in {"CTRL", "ALT", "CAPS"}

IgnoredRelease(key) ==
  /\ Ignored(key) /\ Released(key)
  /\ UNCHANGED <<shift_used, arrow, chord, contextVars, capsVars, matrixVars,
                 navVars, sequenceVars, mainVars>>

(* Space on a drawn key that is already held, an arrow that moves the      *)
(* cursor, a modifier.                                                     *)
IgnoredPress(key) ==
  /\ \/ ~s_ctrl /\ nav # NoCode /\ key = "SPACE" /\ UNCHANGED shift_used
     \/ ~s_ctrl /\ ~arrow /\ key = "LEFT" /\ UNCHANGED shift_used
     \/ key \in {"CTRL", "ALT"} /\ UseShifts
  /\ Pressed(key)
  /\ UNCHANGED <<arrow, chord, contextVars, capsVars, matrixVars, navVars,
                 sequenceVars, mainVars>>

ArrowPress ==
  /\ ~s_ctrl /\ arrow /\ Pressed("LEFT")
  /\ begin_hp_action("left")
  /\ UNCHANGED <<shift_used, arrow, chord, contextVars, capsVars, navVars,
                 sequenceVars, mainVars>>

(* Space presses the drawn key under the cursor.                           *)
DrawnOff ==
  /\ nav_poweroff' = TRUE
  /\ clear_pending_context
  /\ \/ off' = "waiting" /\ matrix' = matrix \ OffKeys   \* state_save succeeds
     \/ off' = "none" /\ UNCHANGED matrix
  /\ UNCHANGED <<held, prefix, follow>>

DrawnContext(code) ==
  /\ follow' = (follow /\ code # "alpha")
  /\ matrix' = matrix \union {code}
  /\ toggle_pending_context(code)
  /\ UNCHANGED <<held, nav_poweroff, off, prefix>>

DrawnPress(code) ==
  /\ ~s_ctrl /\ nav = NoCode /\ Pressed("SPACE")
  /\ nav' = code
  /\ \/ code = "on" /\ pending = "rsh" /\ DrawnOff
     \/ code \in Contexts /\ DrawnContext(code)
     \/ /\ code \notin Contexts /\ ~(code = "on" /\ pending = "rsh")
        /\ PressAction(code) /\ UNCHANGED <<follow, nav_poweroff, off>>
  /\ UNCHANGED <<shift_used, arrow, chord, caps, warm, warm_left, mainVars>>

(* Mutant: a drawn context key is not released.                            *)
DrawnContextStaysDown ==
  /\ ~s_ctrl /\ nav # NoCode /\ Released("SPACE")
  /\ nav' = NoCode /\ nav_poweroff' = FALSE
  /\ \/ (nav_poweroff \/ nav \in Contexts) /\ UNCHANGED matrixVars
     \/ ~nav_poweroff /\ nav \notin Contexts /\ request_hp_action_release(nav)
  /\ UNCHANGED <<shift_used, arrow, chord, contextVars, capsVars, sequenceVars,
                 mainVars>>

DrawnRelease ==
  /\ ~s_ctrl /\ nav # NoCode /\ Released("SPACE")
  /\ nav' = NoCode /\ nav_poweroff' = FALSE
  /\ \/ nav_poweroff /\ UNCHANGED matrixVars
     \/ ~nav_poweroff /\ nav \notin Contexts /\ request_hp_action_release(nav)
     \/ ~nav_poweroff /\ nav \in Contexts /\ matrix' = matrix \ {nav} /\ UNCHANGED held
  /\ UNCHANGED <<shift_used, arrow, chord, contextVars, capsVars, sequenceVars,
                 mainVars>>

(* Enter is always the bare ENTER key: it cancels a one-shot context.      *)
EnterPress ==
  /\ Pressed("ENTER") /\ UseShifts
  /\ IF text /\ pending = "alpha" THEN UNCHANGED contextVars ELSE clear_pending_context
  /\ begin_hp_action("enter")
  /\ UNCHANGED <<arrow, chord, capsVars, navVars, sequenceVars, mainVars>>

(* A shift tapped alone is a context; a second press cancels it.           *)
ShiftPress(key) ==
  /\ key \in Shifts /\ Pressed(key)
  /\ \/ /\ pending = ShiftCode[key] /\ clear_pending_context
        /\ shift_used' = shift_used \union {key}
     \/ /\ pending # ShiftCode[key] /\ UNCHANGED contextVars
        /\ shift_used' = shift_used \ {key}
  /\ UNCHANGED <<arrow, chord, capsVars, matrixVars, navVars, sequenceVars, mainVars>>

ShiftRelease(key) ==
  /\ key \in Shifts /\ Released(key)
  /\ shift_used' = shift_used \ {key}
  /\ IF key \in shift_used THEN UNCHANGED contextVars
     ELSE toggle_pending_context(ShiftCode[key])
  /\ UNCHANGED <<arrow, chord, capsVars, matrixVars, navVars, sequenceVars, mainVars>>

(* Esc after Alt: a warm start.  Esc belongs to the chord until it is up.  *)
AltEscPress ==
  /\ s_alt /\ Pressed("ESC") /\ UseShifts
  /\ chord' = TRUE
  /\ start_warm_start
  /\ UNCHANGED <<arrow, capsVars, mainVars>>

AltEscRelease ==
  /\ s_alt \/ chord
  /\ Released("ESC")
  /\ chord' = FALSE
  /\ UNCHANGED <<shift_used, arrow, contextVars, capsVars, matrixVars, navVars,
                 sequenceVars, mainVars>>

CtrlFunction(key) ==
  /\ key \in {"F8", "F10"} /\ s_ctrl /\ Pressed(key) /\ UseShifts
  /\ requests' = requests \union {IF key = "F8" THEN "import" ELSE "save"}
  /\ UNCHANGED <<arrow, chord, contextVars, capsVars, matrixVars, navVars,
                 sequenceVars, import_wake>>

(* The controller toggles its lock bit; when it cannot be read the code    *)
(* toggles its own.                                                        *)
CapsPress ==
  /\ Pressed("CAPS") /\ UseShifts
  /\ follow' = TRUE /\ caps' = ~caps
  /\ \E enabled \in {caps', ~text} : apply_controller_caps(enabled)
  /\ UNCHANGED <<arrow, chord, matrixVars, navVars, sequenceVars, mainVars>>

CtrlEsc ==
  /\ s_ctrl /\ ~s_alt /\ Pressed("ESC") /\ UseShifts
  /\ warm' = FALSE /\ prefix_sequence_reset
  /\ finish_hp_action
  /\ requests' = requests \union {"reset"}
  /\ chord' = FALSE
  /\ UNCHANGED <<arrow, capsVars, navVars, warm_left, off, import_wake>>

(* Every other key.  In arrow mode Backspace is the DROP of a game.        *)
Plain(key) ==
  /\ key \in DOMAIN PlainCode
  /\ ~(key = "ESC" /\ (s_alt \/ chord))
  /\ ~(s_ctrl /\ key \in {"F8", "F10"})

GameCommand(key) == arrow /\ key = "BKSP" /\ pending = NoCode

PlainPress(key) ==
  /\ Plain(key) /\ ~(s_ctrl /\ key = "ESC") /\ Pressed(key) /\ UseShifts
  /\ \/ /\ GameCommand(key)
        /\ begin_hp_action_for("drop", FALSE, HP_GAME_COMMAND_MIN_HOLD)
        /\ UNCHANGED <<contextVars, prefix>>
     \/ ~GameCommand(key) /\ PressAction(PlainCode[key])
  /\ UNCHANGED <<arrow, chord, capsVars, navVars, warm, warm_left, off, mainVars>>

(* The HP code that the release of a key asks for.                         *)
ReleaseCode(key) ==
  CASE key \in DOMAIN PlainCode -> PlainCode[key]
    [] key = "ENTER" -> "enter"
    [] key = "LEFT" -> "left"

ActionRelease(key) ==
  /\ \/ Plain(key)
     \/ key = "ENTER"
     \/ key = "LEFT" /\ arrow /\ ~s_ctrl
  /\ Released(key)
  /\ request_hp_action_release(ReleaseCode(key))
  /\ UNCHANGED <<shift_used, arrow, chord, contextVars, capsVars, navVars,
                 sequenceVars, mainVars>>

-----------------------------------------------------------------------------
(* main(): takes the requests.  The wake after an import holds ON for a    *)
(* while; a reset clears the Saturn, its key matrix included.              *)
TakeRequest(request) ==
  /\ request \in requests /\ requests' = requests \ {request}
  /\ \/ /\ request = "import"
        /\ matrix' = matrix \union {"on"} /\ import_wake' = TRUE
     \/ request = "reset" /\ matrix' = {} /\ UNCHANGED import_wake
     \/ request # "reset" /\ UNCHANGED <<matrix, import_wake>>
  /\ UNCHANGED <<fingers, due, shift_used, arrow, chord, contextVars, capsVars,
                 held, navVars, sequenceVars>>

(* Mutant: the flag is cleared, the key is not released.                   *)
ImportWakeForgets ==
  /\ import_wake /\ import_wake' = FALSE
  /\ UNCHANGED <<fingers, due, shift_used, arrow, chord, contextVars, capsVars,
                 matrixVars, navVars, sequenceVars, requests>>

ImportWakeUp ==
  /\ import_wake /\ import_wake' = FALSE
  /\ matrix' = matrix \ {"on"}
  /\ UNCHANGED <<fingers, due, shift_used, arrow, chord, contextVars, capsVars,
                 held, navVars, sequenceVars, requests>>

KeyEvent(key) ==
  \/ IgnoredPress(key) \/ IgnoredRelease(key)
  \/ ShiftPress(key) \/ ShiftRelease(key)
  \/ CtrlFunction(key)
  \/ PlainPress(key) \/ ActionRelease(key)

HandleEvent ==
  \/ PowerKey \/ CtrlSpace \/ CtrlArrow \/ ArrowPress \/ EnterPress
  \/ AltEscPress \/ AltEscRelease \/ CapsPress \/ CtrlEsc
  \/ \E code \in DrawnCodes : DrawnPress(code)
  \/ DrawnRelease
  \/ \E key \in Keys : KeyEvent(key)

BlockedPoll == ReleasePoll \/ PrefixPoll

Next ==
  \/ Tick
  \/ OffPoll \/ BlockedPoll \/ WarmPoll \/ update_controller_caps
  \/ HandleEvent
  \/ ImportWakeUp \/ \E request \in Requests : TakeRequest(request)

(* main() and the core's SHUTDN loop call keyboard_poll again and again.   *)
Fairness == WF_vars(Tick) /\ WF_vars(BlockedPoll) /\ WF_vars(WarmPoll)

Spec == Init /\ [][Next]_vars
FairSpec == Spec /\ Fairness

-----------------------------------------------------------------------------
(* Properties.                                                             *)

(* The keys that hold a code down.                                         *)
Holders(code) ==
  {k \in fingers : \/ k \in DOMAIN PlainCode /\ PlainCode[k] = code
                   \/ k = "ENTER" /\ code = "enter"
                   \/ k = "LEFT" /\ code = "left"
                   \/ k = "SPACE" /\ nav = code}

(* The keys an OFF sequence presses, where the user has a key that starts  *)
(* one: they are PowerOff's.                                               *)
OffRequestable ==
  "POWER" \in Keys \/ ("SPACE" \in Keys /\ "on" \in DrawnCodes)

SequenceKeys == IF OffRequestable THEN OffKeys ELSE {}

(* "Reset/power paths can drain every held matrix key without leaving one" *)
(* and every other path: each bit of the matrix belongs to an action, the  *)
(* drawn context Space is on, the prefix sequence, or is the ON of an      *)
(* import, which main() has still to release.                              *)
EveryBitHasAnOwner ==
  \A code \in matrix \ SequenceKeys :
    \/ code \in DOMAIN held
    \/ code \in Contexts /\ code = nav
    \/ prefix.stage = "HOLD" /\ code = prefix.prefix_code
    \/ code = "on" /\ import_wake

(* No key is stuck: a held HP key has its release on the way or a finger   *)
(* on a key that stands for it, and Space is down while a drawn key is.    *)
NoStuckKey ==
  /\ \A code \in DOMAIN held : held[code].requested \/ Holders(code) # {}
  /\ nav # NoCode => "SPACE" \in fingers

(* "Guarantees every HP action a minimum matrix down-time": a held key     *)
(* goes up before its time only where everything is released at once.      *)
MinimumHold ==
  [][\A code \in (DOMAIN held \intersect matrix) \ {"on"} :
       code \notin matrix' /\ held[code].left > 0
         => PowerKey \/ CtrlSpace \/ AltEscPress \/ CtrlEsc
              \/ TakeRequest("reset")]_vars

(* Every tap gives the HP ROM a new edge: an action key that goes down     *)
(* finds its bit up, however fast the tap before it was, unless another    *)
(* key that stands for the same code is held.                              *)
EveryTapIsAnEdge ==
  [][\A key \in fingers' \ fingers :
       /\ key \in DOMAIN PlainCode /\ Holders(PlainCode[key]) = {}
            => PlainCode[key] \notin matrix \ OffKeys
       /\ key = "SPACE" /\ nav = NoCode /\ nav' \notin Contexts \union {NoCode}
            /\ Holders(nav') = {}
            => nav' \notin matrix \ OffKeys]_vars

(* "Delivering an ordered prefix tap ... instead of sending an ineffective *)
(* simultaneous matrix chord": when a prefix sequence presses its action   *)
(* the prefix is up, unless the OFF sequence holds teal.                   *)
PrefixIsUpAtAction ==
  [][prefix.stage = "WAIT_LATCH" /\ prefix'.stage = "IDLE"
       => prefix.prefix_code \notin matrix \/ off # "none"]_vars

(* "Alpha context for one A-Z key": a second action gets a one-shot        *)
(* context only where it is pressed before the first one is up, so every   *)
(* action that used the pending context is still held.                     *)
OneShotEndsWithItsAction == ~text => users \subseteq DOMAIN held

(* Waiting releases and prefix sequences end, so events are handled again; *)
(* the OFF sequence may keep the polls to itself (PowerOff shows it ends). *)
EventsGoOn ==
  []<>(off # "none" \/ (~held_keys_release_waiting(held) /\ ~prefix_sequence_active))

(* A warm start ends, unless the user keeps an HP key down or starts it    *)
(* again.                                                                  *)
WarmStartEnds ==
  warm /\ warm_left < WARM_START_TIMEOUT
    ~> \/ ~warm \/ warm_left = WARM_START_TIMEOUT \/ off # "none"
       \/ \E code \in DOMAIN held : ~held[code].requested

-----------------------------------------------------------------------------
(* The inductive invariants.                                               *)

(* An OFF sequence has been requested by one of the keys that can.         *)
OffInv == off # "none" => OffRequestable

(* While a prefix sequence waits for the annunciator its prefix is up, or  *)
(* the OFF sequence is what holds it.                                      *)
PrefixInv ==
  prefix.stage = "WAIT_LATCH" =>
    prefix.prefix_code \notin matrix \/ (off = "teal" /\ prefix.prefix_code = "rsh")

(* A held action that uses a one-shot context remembers that it ends it.   *)
UserInv == ~text => users \subseteq {c \in DOMAIN held : held[c].consumes}

KeyInv == KeyboardTypeOK /\ PrefixInv /\ UserInv

(* Space's release looks at s_nav_poweroff_active, so that flag must not   *)
(* be left behind by another drawn key than ON.                            *)
OwnerInv == EveryBitHasAnOwner /\ (nav_poweroff => nav = "on")

(* While no key is down together with a modifier that changes it, a release *)
(* is not dropped.  The keys that have pressed a code: an arrow moves the   *)
(* cursor, and Space on the drawn OFF presses nothing.                      *)
Pressing(code) ==
  {k \in fingers : \/ k \in DOMAIN PlainCode /\ PlainCode[k] = code
                   \/ k = "ENTER" /\ code = "enter"
                   \/ k = "SPACE" /\ nav = code /\ ~nav_poweroff}

FingerInv ==
  /\ ~arrow /\ ~chord /\ ~warm
  /\ nav # NoCode => "SPACE" \in fingers
  /\ \A code \in DOMAIN held : held[code].requested \/ Pressing(code) # {}
  /\ prefix_sequence_active => Pressing(prefix.action_code) # {}
=============================================================================
