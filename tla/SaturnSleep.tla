---------------------------- MODULE SaturnSleep ----------------------------
(***************************************************************************)
(* The one thread of the emulator: main() runs the Saturn core for a       *)
(* quantum of instructions, polls the keyboard, serves the requests of the *)
(* user and waits for real time; an instruction SHUTDN stays in the core,  *)
(* polling keyboard and timers, until an interrupt wakes the HP            *)
(* (src/main.c, src/core/core_runtime.c, actions.c, emulate.c).            *)
(*                                                                         *)
(* External: the ROM, which executes any instruction at any time but       *)
(* returns from its interrupt handler only after HandlerLength             *)
(* instructions, and sleeps only outside of it; and what keyboard_poll     *)
(* finds, which is the subject of module Keyboard.  The timers reach zero  *)
(* whenever they like: their values and the service-request bit, which     *)
(* only the ROM and the choice of that moment look at, are not modelled.   *)
(***************************************************************************)
EXTENDS Naturals

CONSTANTS
  Quantum,        \* CORE_RUN_QUANTUM
  HandlerLength,  \* the instructions of the ROM's interrupt handler
  Controls        \* what the ROM writes to a timer's control register

Bits == {"run", "int", "wake"}

ASSUME SleepAssumption ==
  /\ Quantum \in Nat \ {0} /\ HandlerLength \in Nat
  /\ Controls \subseteq SUBSET Bits

Timers == {1, 2}

VARIABLES
  place,       \* in hp48_core_run, in the rest of main's loop, or in pace_saturn
  quantum,     \* the instructions left in hp48_core_run
  sleeping,    \* hp48_core_sleeping: in the loop of do_shutdown
  got_alarm,
  halted,      \* enter_debugger
  cpu,         \* the interrupt state of the Saturn
  kbd_ien,
  out_zero,    \* the OUT register selects no row of the keyboard
  keys,        \* the matrix: ON, and one key for all the others
  control,     \* the enable bits of each timer: t1_ctrl, t2_ctrl
  requests,    \* the request flags of keyboard.c
  import_wake  \* s_import_wake_down

placeVars == <<place, quantum, halted>>
romVars   == <<kbd_ien, out_zero>>
vars == <<placeVars, sleeping, got_alarm, cpu, romVars, keys, control, requests,
          import_wake>>

(* "main" stands for the requests that only differ in what main() does:    *)
(* save, export, the next file, speed.                                     *)
Requests == {"main", "reset", "import"}

Cpu == [intenable : BOOLEAN, int_pending : BOOLEAN,
        frames : 0 .. 1,   \* the return addresses pushed by interrupts
        busy : 0 .. HandlerLength]

SleepTypeOK ==
  /\ place \in {"core", "main", "pace"} /\ quantum \in 0 .. Quantum
  /\ {sleeping, got_alarm, halted, kbd_ien, out_zero, import_wake} \subseteq BOOLEAN
  /\ cpu \in Cpu
  /\ keys \subseteq {"ON", "KEY"}
  /\ control \in [Timers -> SUBSET Bits]
  /\ requests \subseteq Requests

-----------------------------------------------------------------------------
(* The interrupt system.                                                   *)

ColdCpu == [intenable |-> TRUE, int_pending |-> FALSE, frames |-> 0, busy |-> 0]

(* init_saturn                                                             *)
ColdControl == [n \in Timers |-> {}]

EnterHandler(c) ==
  [c EXCEPT !.intenable = FALSE, !.frames = @ + 1, !.busy = HandlerLength]

do_interupt(c) == IF c.intenable THEN EnterHandler(c) ELSE c

do_kbd_int(c) ==
  IF c.intenable THEN EnterHandler(c) ELSE [c EXCEPT !.int_pending = TRUE]

(* Mutant: a pending interrupt is left for the next RTI.                   *)
return_forgets_pending(c) ==
  [c EXCEPT !.intenable = TRUE, !.frames = IF @ = 0 THEN 0 ELSE @ - 1]

(* A pending interrupt is taken in place of the return.                    *)
do_return_interupt(c) ==
  IF c.int_pending THEN [c EXCEPT !.int_pending = FALSE, !.intenable = FALSE,
                                  !.busy = HandlerLength]
  ELSE [c EXCEPT !.intenable = TRUE, !.frames = IF @ = 0 THEN 0 ELSE @ - 1]

-----------------------------------------------------------------------------
(* What keyboard_poll may do: nothing, or one of these events.             *)

Events == {"none", "ON down", "ON up", "KEY down", "KEY up", "main", "reset",
           "import"}

(* Mutant: a request of main() does not wake the HP.                       *)
KeysInterrupt(event) ==
  event = "ON down" \/ (event = "KEY down" /\ "KEY" \notin keys /\ kbd_ien)

(* The events that call do_kbd_int.  A request other than an import wakes  *)
(* the HP as well (hp48_core_platform_wake).                               *)
Interrupts(event) ==
  \/ event \in {"ON down", "main", "reset"}
  \/ event = "KEY down" /\ "KEY" \notin keys /\ kbd_ien

CpuAfter(event) == IF Interrupts(event) THEN do_kbd_int(cpu) ELSE cpu

KeysAfter(event, down) ==
  CASE event = "ON down"  -> down \union {"ON"}
    [] event = "KEY down" -> down \union {"KEY"}
    [] event = "ON up"    -> down \ {"ON"}
    [] event = "KEY up"   -> down \ {"KEY"}
    [] OTHER -> down

RequestsAfter(event) ==
  IF event \in Requests THEN requests \union {event} ELSE requests

-----------------------------------------------------------------------------
(* The core: one instruction of the ROM.                                   *)

InCore == place = "core" /\ ~sleeping /\ ~halted

InHandler == cpu.frames > 0

(* The Saturn with one instruction of its handler done.                    *)
Stepped == [cpu EXCEPT !.busy = IF @ = 0 THEN 0 ELSE @ - 1]

Instruction(cpuAfter) ==
  /\ InCore /\ quantum > 0 /\ quantum' = quantum - 1
  /\ cpu' = cpuAfter
  /\ UNCHANGED <<place, halted, got_alarm, keys, requests, import_wake>>

AnyInstruction == Instruction(Stepped) /\ UNCHANGED <<romVars, control, sleeping>>

do_inton_intoff ==
  /\ Instruction(Stepped) /\ kbd_ien' \in BOOLEAN
  /\ UNCHANGED <<out_zero, control, sleeping>>

WriteOut ==
  /\ Instruction(Stepped) /\ out_zero' \in BOOLEAN
  /\ UNCHANGED <<kbd_ien, control, sleeping>>

WriteControl(n) ==
  /\ Instruction(Stepped)
  /\ \E bits \in Controls : control' = [control EXCEPT ![n] = bits]
  /\ UNCHANGED <<romVars, sleeping>>

do_reset_interrupt_system ==
  /\ Instruction(IF keys # {} THEN do_kbd_int(Stepped) ELSE Stepped)
  /\ kbd_ien' = TRUE
  /\ UNCHANGED <<out_zero, control, sleeping>>

ReturnFromInterrupt ==
  /\ InHandler /\ cpu.busy = 0
  /\ Instruction(do_return_interupt(cpu))
  /\ UNCHANGED <<romVars, control, sleeping>>

do_shutdown ==
  /\ ~InHandler
  /\ Instruction(IF out_zero
                 THEN [Stepped EXCEPT !.intenable = TRUE, !.int_pending = FALSE]
                 ELSE Stepped)
  /\ sleeping' = TRUE
  /\ UNCHANGED <<romVars, control>>

IllegalInstruction ==
  /\ InCore /\ quantum > 0
  /\ halted' = TRUE
  /\ UNCHANGED <<place, quantum, sleeping, got_alarm, cpu, romVars, keys, control,
                 requests, import_wake>>

CoreStep ==
  \/ AnyInstruction \/ do_inton_intoff \/ WriteOut
  \/ \E n \in Timers : WriteControl(n)
  \/ do_reset_interrupt_system \/ ReturnFromInterrupt \/ do_shutdown
  \/ IllegalInstruction

(* schedule(): a timer whose interrupt is enabled is found at zero.        *)
TimerInterrupt ==
  /\ place = "core" /\ ~sleeping
  /\ \E n \in Timers : "int" \in control[n]
  /\ cpu' = do_interupt(cpu)
  /\ UNCHANGED <<placeVars, sleeping, got_alarm, romVars, keys, control, requests,
                 import_wake>>

(* GetEvent: keyboard_poll and, while the HP sleeps, the import of a file, *)
(* which presses ON when it is committed.                                  *)

(* Mutant: the import does not look whether the HP sleeps.                 *)
ImportsAwake(event) ==
  IF "import" \in RequestsAfter(event) THEN {"failed", "committed"} ELSE {"none"}

service_idle_file_import(event) ==
  IF sleeping /\ "import" \in RequestsAfter(event)
  THEN {"failed", "committed"} ELSE {"none"}

interrupt_called(event, import) == Interrupts(event) \/ import = "committed"

(* Mutant: GetEvent reports the keyboard only.                             *)
ReportsKeyboard(event, import) == event # "none"

GetEventReturns(event, import) == event # "none" \/ import # "none"

CpuAfterEvent(event, import) ==
  IF import = "committed" THEN do_kbd_int(CpuAfter(event)) ELSE CpuAfter(event)

GetEvent(event, import) ==
  /\ import \in service_idle_file_import(event)
  /\ keys' = KeysAfter(event, keys)
               \union (IF import = "committed" THEN {"ON"} ELSE {})
  /\ requests' = RequestsAfter(event) \ (IF import = "none" THEN {} ELSE {"import"})
  /\ import_wake' = (import_wake \/ import = "committed")

Imports == {"none", "failed", "committed"}

(* schedule(): main() leaves got_alarm set when it boots.                  *)
FirstAlarm ==
  /\ place = "core" /\ ~sleeping /\ got_alarm /\ got_alarm' = FALSE
  /\ \E event \in Events, import \in Imports :
       GetEvent(event, import) /\ cpu' = CpuAfterEvent(event, import)
  /\ UNCHANGED <<placeVars, sleeping, romVars, control>>

(* One turn of the loop of do_shutdown: the keyboard, then the timers that *)
(* are at zero.  Timer 1 interrupts with bit 0 of its control as well.     *)
InterruptBits(n) == IF n = 1 THEN {"int", "run"} ELSE {"int"}

Raise(zero) == \E n \in zero : control[n] \intersect InterruptBits(n) # {}

TimersWake(zero) == Raise(zero) \/ \E n \in zero : "wake" \in control[n]

SleepTurn ==
  /\ sleeping /\ got_alarm' = FALSE
  /\ \E event \in Events, import \in Imports, zero \in SUBSET Timers :
       LET c == CpuAfterEvent(event, import)
       IN /\ GetEvent(event, import)
          /\ cpu' = IF Raise(zero) THEN do_interupt(c) ELSE c
          /\ sleeping' = ~(\/ GetEventReturns(event, import)
                              /\ interrupt_called(event, import)
                           \/ TimersWake(zero))
  /\ UNCHANGED <<placeVars, romVars, control>>

-----------------------------------------------------------------------------
(* main()                                                                  *)

RunReturns ==
  /\ place = "core" /\ ~sleeping /\ (quantum = 0 \/ halted)
  /\ place' = "main"
  /\ UNCHANGED <<quantum, halted, sleeping, got_alarm, cpu, romVars, keys, control,
                 requests, import_wake>>

(* ON of an import goes up when its time is over; a poll; the requests.  A *)
(* reset clears the Saturn and what halted it.                             *)
MainTurn ==
  /\ place = "main" /\ place' = "pace"
  /\ \E event \in Events, over \in BOOLEAN :
       LET lifted == IF import_wake /\ over THEN keys \ {"ON"} ELSE keys
       IN /\ import_wake' = (import_wake /\ ~over)
          /\ requests' = RequestsAfter(event) \intersect {"import"}
          /\ \/ /\ "reset" \notin RequestsAfter(event)
                /\ cpu' = CpuAfter(event) /\ keys' = KeysAfter(event, lifted)
                /\ UNCHANGED <<halted, romVars, control>>
             \/ /\ "reset" \in RequestsAfter(event)
                /\ cpu' = ColdCpu /\ keys' = {} /\ halted' = FALSE
                /\ kbd_ien' = TRUE /\ out_zero' = TRUE /\ control' = ColdControl
  /\ UNCHANGED <<quantum, sleeping, got_alarm>>

(* pace_saturn polls until real time has caught up.                        *)
PacePoll ==
  /\ place = "pace"
  /\ \E event \in Events :
       /\ cpu' = CpuAfter(event) /\ keys' = KeysAfter(event, keys)
       /\ requests' = RequestsAfter(event)
  /\ UNCHANGED <<placeVars, sleeping, got_alarm, romVars, control, import_wake>>

hp48_core_run ==
  /\ place = "pace" /\ place' = "core" /\ quantum' = Quantum
  /\ UNCHANGED <<halted, sleeping, got_alarm, cpu, romVars, keys, control, requests,
                 import_wake>>

(* A cold Saturn or that of a snapshot, which was made between two         *)
(* instructions, in or outside of the handler.                             *)
RestoredCpus ==
  {[EnterHandler(ColdCpu) EXCEPT !.busy = 0, !.int_pending = pending] :
     pending \in BOOLEAN}

Init ==
  /\ place = "core" /\ quantum = Quantum /\ halted = FALSE
  /\ sleeping = FALSE /\ got_alarm = TRUE
  /\ cpu \in {ColdCpu} \union RestoredCpus
  /\ kbd_ien \in BOOLEAN /\ out_zero \in BOOLEAN
  /\ control \in [Timers -> Controls \union {{}}]
  /\ keys \in SUBSET {"ON", "KEY"}
  /\ requests = {} /\ import_wake = FALSE

Next ==
  \/ CoreStep \/ TimerInterrupt \/ FirstAlarm \/ SleepTurn
  \/ RunReturns \/ MainTurn \/ PacePoll \/ hp48_core_run

(* The thread never stops, and the ROM returns from its handler.           *)
Fairness ==
  /\ WF_vars(CoreStep) /\ WF_vars(RunReturns) /\ WF_vars(MainTurn)
  /\ WF_vars(hp48_core_run) /\ WF_vars(SleepTurn)
  /\ SF_vars(ReturnFromInterrupt)

Spec == Init /\ [][Next]_vars
FairSpec == Spec /\ Fairness

-----------------------------------------------------------------------------
(* Properties.                                                             *)

(* The handler of the ROM is not entered again before it returned: its     *)
(* interrupts are disabled exactly while one return address is on the      *)
(* stack, and only then is an interrupt pending.                           *)
HandlerNotReentered ==
  /\ cpu.frames = IF cpu.intenable THEN 0 ELSE 1
  /\ cpu.int_pending => ~cpu.intenable

(* SHUTDN clears the pending flag when OUT selects no key; no interrupt is *)
(* dropped by that.                                                        *)
ShutdnDropsNothing == [][do_shutdown => ~cpu.int_pending]_vars

(* "This wakes the Saturn CPU from the ROM's SHUTDN instruction": an HP    *)
(* that sleeps on has neither taken nor been owed an interrupt meanwhile.  *)
SleepIsUndisturbed == [][sleeping /\ sleeping' => cpu' = cpu]_vars

(* "The ROM must be stopped in SHUTDN while DSKTOP/return-stack pointers   *)
(* are changed", and after a committed import it goes on in its handler.   *)
ImportOnlyAsleep ==
  [][(/\ "import" \in requests /\ "import" \notin requests')
       => sleeping /\ (import_wake' => import_wake \/ (~sleeping' /\ InHandler'))]_vars

(* "A platform-only shortcut must still leave Saturn's SHUTDN loop so      *)
(* main() can perform the requested SD/flash operation."                   *)
RequestsServed ==
  requests \ {"import"} # {} ~> requests \ {"import"} = {}

(* A key pressed while the handler runs is not forgotten.                  *)
PendingTaken == cpu.int_pending ~> ~cpu.int_pending \/ halted
=============================================================================
