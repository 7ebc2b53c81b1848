------------------------- MODULE SaturnSleepProofs -------------------------
(***************************************************************************)
(* Proofs about SaturnSleep, for every quantum, length of the handler and  *)
(* set of timer controls.                                                  *)
(***************************************************************************)
EXTENDS SaturnSleep, TLAPS

-----------------------------------------------------------------------------
(* The interrupt system, as functions of one Saturn.                       *)

(* Interrupts are disabled exactly while the handler runs.                 *)
Sound(c) ==
  /\ c \in Cpu
  /\ c.intenable => c.frames = 0
  /\ ~c.intenable => c.frames = 1
  /\ c.int_pending => ~c.intenable

(* HandlerNotReentered says of the variable what Sound says of a value.    *)
LEMMA SoundIsNotReentered ==
  SleepTypeOK => (HandlerNotReentered <=> Sound(cpu))
BY SleepAssumption DEF SleepTypeOK, HandlerNotReentered, Sound, Cpu

(* Cold, entering the handler, or one instruction later.                   *)
LEMMA ColdIsSound == Sound(ColdCpu)
BY SleepAssumption DEF Sound, Cpu, ColdCpu

(* The fields of a well-typed Saturn.                                      *)
LEMMA Fields ==
  ASSUME NEW c, c \in Cpu
  PROVE  /\ c.intenable \in BOOLEAN /\ c.int_pending \in BOOLEAN
         /\ c.frames \in 0 .. 1 /\ c.busy \in 0 .. HandlerLength
BY Zenon DEF Cpu

(* An interrupt enters the handler, and its frame is the only one.         *)
LEMMA EnterIsSound ==
  ASSUME NEW c, Sound(c), c.intenable
  PROVE  Sound(EnterHandler(c)) /\ EnterHandler(c).frames = 1
<1>1. c \in Cpu /\ c.frames + 1 \in 0 .. 1 /\ c.frames + 1 = 1
  BY DEF Sound
<1>2. HandlerLength \in 0 .. HandlerLength
  BY SleepAssumption
<1>3. EnterHandler(c) \in Cpu
  BY Zenon, <1>1, <1>2 DEF Cpu, EnterHandler
<1>4. EnterHandler(c).intenable = FALSE /\ EnterHandler(c).frames = 1
  BY <1>1 DEF Cpu, EnterHandler
<1> QED
  BY Zenon, <1>3, <1>4 DEF Sound

(* A timer interrupt is taken, or ignored by the handler.                  *)
LEMMA InteruptIsSound ==
  ASSUME NEW c, Sound(c) PROVE Sound(do_interupt(c)) /\ do_interupt(c).frames = 1
BY EnterIsSound DEF Sound, do_interupt

(* A keyboard interrupt is taken, or left pending for the handler.         *)
LEMMA KbdIntIsSound ==
  ASSUME NEW c, Sound(c) PROVE Sound(do_kbd_int(c)) /\ do_kbd_int(c).frames = 1
<1>1. CASE c.intenable
  BY <1>1, EnterIsSound DEF do_kbd_int
<1>2. CASE ~c.intenable
  <2>1. c \in Cpu /\ c.frames = 1
    BY <1>2 DEF Sound
  <2>2. do_kbd_int(c) \in Cpu
    BY Zenon, <1>2, <2>1 DEF do_kbd_int, Cpu
  <2>3. do_kbd_int(c).intenable = c.intenable /\ do_kbd_int(c).frames = c.frames
    BY <1>2, <2>1 DEF do_kbd_int, Cpu
  <2> QED
    BY Zenon, <1>2, <2>1, <2>2, <2>3 DEF Sound
<1> QED
  BY <1>1, <1>2

(* A return takes the pending interrupt or enables interrupts again.       *)
LEMMA ReturnIsSound ==
  ASSUME NEW c, Sound(c), c.frames > 0 PROVE Sound(do_return_interupt(c))
<1> DEFINE r == do_return_interupt(c)
<1>1. c \in Cpu /\ c.frames = 1 /\ c.frames - 1 = 0 /\ c.frames # 0
  BY Fields DEF Sound
<1>2. HandlerLength \in 0 .. HandlerLength /\ 0 \in 0 .. 1
  BY SleepAssumption
<1>3. CASE c.int_pending
  <2>1. r \in Cpu
    BY Zenon, <1>1, <1>2, <1>3 DEF do_return_interupt, Cpu
  <2>2. r.intenable = FALSE /\ r.int_pending = FALSE /\ r.frames = 1
    BY <1>1, <1>3 DEF do_return_interupt, Cpu
  <2> QED
    BY Zenon, <2>1, <2>2 DEF Sound
<1>4. CASE ~c.int_pending
  <2>1. r \in Cpu
    BY Zenon, <1>1, <1>2, <1>4 DEF do_return_interupt, Cpu
  <2>2. r.intenable = TRUE /\ r.int_pending = c.int_pending /\ r.frames = 0
    BY <1>1, <1>4 DEF do_return_interupt, Cpu
  <2> QED
    BY Zenon, <1>4, <2>1, <2>2 DEF Sound
<1> QED
  BY <1>3, <1>4

(* An instruction of the handler brings it nearer to its end.              *)
LEMMA SteppedIsSound ==
  Sound(cpu) => /\ Sound(Stepped)
                /\ Stepped.frames = cpu.frames /\ Stepped.intenable = cpu.intenable
<1> SUFFICES ASSUME Sound(cpu)
             PROVE  /\ Sound(Stepped) /\ Stepped.frames = cpu.frames
                    /\ Stepped.intenable = cpu.intenable
  OBVIOUS
<1> DEFINE left == IF cpu.busy = 0 THEN 0 ELSE cpu.busy - 1
<1>1. cpu \in Cpu
  BY DEF Sound
<1>2. left \in 0 .. HandlerLength
  BY <1>1, Fields, SleepAssumption
<1>3. Stepped = [cpu EXCEPT !.busy = left]
  BY Zenon DEF Stepped
<1> HIDE DEF left
<1>4. Stepped \in Cpu
  BY Zenon, <1>1, <1>2, <1>3 DEF Cpu
<1>5. /\ Stepped.frames = cpu.frames /\ Stepped.intenable = cpu.intenable
      /\ Stepped.int_pending = cpu.int_pending
  BY <1>1, <1>3 DEF Cpu
<1> QED
  BY Zenon, <1>4, <1>5 DEF Sound

(* Polling the keyboard, and an import, keep the Saturn sound.             *)
LEMMA EventIsSound ==
  ASSUME NEW event, NEW import
  PROVE  Sound(cpu) => Sound(CpuAfter(event)) /\ Sound(CpuAfterEvent(event, import))
BY KbdIntIsSound DEF CpuAfter, CpuAfterEvent

-----------------------------------------------------------------------------
(* The inductive invariant.                                                *)

(* The HP sleeps within hp48_core_run only.                                *)
SleepsInCore == sleeping => place = "core"

SleepInv == SleepTypeOK /\ SleepsInCore /\ Sound(cpu)

(* The types of everything but the Saturn.                                 *)
PlacesOK ==
  /\ place \in {"core", "main", "pace"} /\ quantum \in 0 .. Quantum
FlagsOK == {sleeping, got_alarm, halted, kbd_ien, out_zero, import_wake} \subseteq BOOLEAN
SetsOK ==
  /\ keys \subseteq {"ON", "KEY"} /\ requests \subseteq Requests
  /\ control \in [Timers -> SUBSET Bits]

(* The parts of the invariant, which the steps prove one by one.           *)
LEMMA InvParts ==
  SleepInv <=> PlacesOK /\ FlagsOK /\ SetsOK /\ SleepsInCore /\ Sound(cpu)
BY DEF SleepInv, SleepTypeOK, PlacesOK, FlagsOK, SetsOK, Sound

(* A boot starts with a Saturn that keeps the contract of the handler.     *)
LEMMA InitSound == Init => SleepInv
<1> SUFFICES ASSUME Init PROVE SleepInv
  OBVIOUS
<1>1. PlacesOK /\ FlagsOK
  <2>1. PlacesOK
    BY SleepAssumption DEF Init, PlacesOK
  <2>2. FlagsOK
    BY Zenon DEF Init, FlagsOK
  <2> QED
    BY <2>1, <2>2
<1>2. SetsOK
  BY SleepAssumption DEF Init, SetsOK, Requests, Timers
<1>3. ASSUME NEW pending \in BOOLEAN
      PROVE  Sound([EnterHandler(ColdCpu) EXCEPT !.busy = 0, !.int_pending = pending])
  <2> DEFINE e == EnterHandler(ColdCpu)
             r == [e EXCEPT !.busy = 0, !.int_pending = pending]
  <2>1. Sound(e) /\ e.intenable = FALSE /\ e.frames = 1
    BY ColdIsSound, EnterIsSound DEF Sound, ColdCpu, EnterHandler
  <2>2. e \in Cpu /\ 0 \in 0 .. HandlerLength
    BY <2>1, SleepAssumption DEF Sound
  <2> HIDE DEF e
  <2>3. r \in Cpu
    BY Zenon, <2>2 DEF Cpu
  <2>4. r.intenable = FALSE /\ r.frames = 1
    BY <2>1, <2>2 DEF Cpu
  <2>5. Sound(r)
    BY Zenon, <2>3, <2>4 DEF Sound
  <2> QED
    BY <2>5 DEF e
<1>4. Sound(cpu)
  BY <1>3, ColdIsSound DEF Init, RestoredCpus
<1>5. SleepsInCore
  BY DEF Init, SleepsInCore
<1> QED
  BY <1>1, <1>2, <1>4, <1>5, InvParts

(* An instruction changes the Saturn to a sound one.                       *)
LEMMA StepSound == SleepInv /\ [Next]_vars => Sound(cpu)'
<1> SUFFICES ASSUME SleepInv, [Next]_vars PROVE Sound(cpu')
  BY DEF Sound
<1>1. Sound(cpu) /\ Sound(Stepped) /\ Sound(ColdCpu)
  BY SteppedIsSound, ColdIsSound DEF SleepInv
<1>2. CASE CoreStep
  <2>1. CASE AnyInstruction \/ do_inton_intoff \/ WriteOut \/ \E n \in Timers : WriteControl(n)
    BY <1>1, <2>1 DEF AnyInstruction, do_inton_intoff, WriteOut, WriteControl, Instruction
  <2>2. CASE do_reset_interrupt_system
    BY <1>1, <2>2, KbdIntIsSound DEF do_reset_interrupt_system, Instruction
  <2>3. CASE ReturnFromInterrupt
    BY <1>1, <2>3, ReturnIsSound DEF ReturnFromInterrupt, Instruction, InHandler
  <2>4. CASE do_shutdown
    <3> DEFINE awake == [Stepped EXCEPT !.intenable = TRUE, !.int_pending = FALSE]
    <3>1. Stepped \in Cpu /\ Stepped.frames = 0
      <4>1. ~(cpu.frames > 0) /\ cpu \in Cpu
        BY <1>1, <2>4 DEF do_shutdown, InHandler, Sound
      <4>2. cpu.frames = 0
        BY <4>1, Fields
      <4> QED
        BY <1>1, <4>2, SteppedIsSound DEF Sound
    <3>2. awake \in Cpu
      BY Zenon, <3>1 DEF Cpu
    <3>3. awake.intenable = TRUE /\ awake.int_pending = FALSE /\ awake.frames = 0
      BY <3>1 DEF Cpu
    <3>4. Sound(awake)
      BY Zenon, <3>2, <3>3 DEF Sound
    <3> QED
      BY <1>1, <2>4, <3>4 DEF do_shutdown, Instruction
  <2>5. CASE IllegalInstruction
    BY <1>1, <2>5 DEF IllegalInstruction
  <2> QED
    BY <1>2, <2>1, <2>2, <2>3, <2>4, <2>5 DEF CoreStep
<1>3. CASE TimerInterrupt
  BY <1>1, <1>3, InteruptIsSound DEF TimerInterrupt
<1>4. CASE FirstAlarm
  BY <1>1, <1>4, EventIsSound DEF FirstAlarm
<1>5. CASE SleepTurn
  BY <1>1, <1>5, EventIsSound, InteruptIsSound DEF SleepTurn
<1>6. CASE RunReturns \/ hp48_core_run
  BY <1>1, <1>6 DEF RunReturns, hp48_core_run
<1>7. CASE MainTurn
  BY <1>1, <1>7, EventIsSound DEF MainTurn
<1>8. CASE PacePoll
  BY <1>1, <1>8, EventIsSound DEF PacePoll
<1>9. CASE UNCHANGED vars
  BY <1>1, <1>9 DEF vars
<1> QED
  BY <1>2, <1>3, <1>4, <1>5, <1>6, <1>7, <1>8, <1>9 DEF Next

(* Every step keeps the places, the flags and the sets.                    *)
LEMMA StepTyped == SleepInv /\ [Next]_vars => (PlacesOK /\ FlagsOK /\ SetsOK)'
<1> SUFFICES ASSUME SleepInv, [Next]_vars PROVE PlacesOK' /\ FlagsOK' /\ SetsOK'
  OBVIOUS
<1>1. PlacesOK /\ FlagsOK /\ SetsOK
  BY InvParts
<1>2. CASE CoreStep
  <2>1. ASSUME NEW c, Instruction(c) PROVE PlacesOK'
    BY <1>1, <2>1, SleepAssumption DEF Instruction, InCore, PlacesOK
  <2>2. PlacesOK'
    BY <1>1, <1>2, <2>1 DEF CoreStep, AnyInstruction, do_inton_intoff, WriteOut,
         WriteControl, do_reset_interrupt_system, ReturnFromInterrupt, do_shutdown,
         IllegalInstruction, PlacesOK
  <2>3. FlagsOK'
    BY Zenon, <1>1, <1>2 DEF CoreStep, AnyInstruction, do_inton_intoff, WriteOut,
         WriteControl, do_reset_interrupt_system, ReturnFromInterrupt, do_shutdown,
         IllegalInstruction, Instruction, FlagsOK, romVars
  <2>4. ASSUME NEW n \in Timers, WriteControl(n) PROVE SetsOK'
    BY <1>1, <2>4, SleepAssumption DEF WriteControl, Instruction, SetsOK
  <2>5. SetsOK'
    BY <1>1, <1>2, <2>4 DEF CoreStep, AnyInstruction, do_inton_intoff, WriteOut,
         do_reset_interrupt_system, ReturnFromInterrupt, do_shutdown,
         IllegalInstruction, Instruction, SetsOK
  <2> QED
    BY <2>2, <2>3, <2>5
<1>3. ASSUME NEW event, NEW down \in SUBSET {"ON", "KEY"}
      PROVE  /\ KeysAfter(event, down) \subseteq {"ON", "KEY"}
             /\ RequestsAfter(event) \subseteq Requests
  BY <1>1 DEF KeysAfter, RequestsAfter, SetsOK
<1>4. ASSUME NEW event, NEW import, GetEvent(event, import)
      PROVE  /\ keys' \subseteq {"ON", "KEY"} /\ requests' \subseteq Requests
             /\ import_wake' \in BOOLEAN
  BY <1>1, <1>3, <1>4 DEF GetEvent, SetsOK
<1>5. CASE TimerInterrupt
  BY <1>1, <1>5 DEF TimerInterrupt, PlacesOK, FlagsOK, SetsOK, placeVars, romVars
<1>6. CASE FirstAlarm
  BY <1>1, <1>4, <1>6 DEF FirstAlarm, PlacesOK, FlagsOK, SetsOK, placeVars, romVars
<1>7. CASE SleepTurn
  BY <1>1, <1>4, <1>7 DEF SleepTurn, PlacesOK, FlagsOK, SetsOK, placeVars, romVars
<1>8. CASE RunReturns
  BY <1>1, <1>8 DEF RunReturns, PlacesOK, FlagsOK, SetsOK, romVars
<1>9. CASE hp48_core_run
  BY <1>1, <1>9, SleepAssumption DEF hp48_core_run, PlacesOK, FlagsOK, SetsOK, romVars
<1>10. CASE MainTurn
  <2>1. PICK event \in Events, over \in BOOLEAN :
          LET lifted == IF import_wake /\ over THEN keys \ {"ON"} ELSE keys
          IN /\ import_wake' = (import_wake /\ ~over)
             /\ requests' = RequestsAfter(event) \intersect {"import"}
             /\ \/ /\ cpu' = CpuAfter(event) /\ keys' = KeysAfter(event, lifted)
                   /\ UNCHANGED <<halted, romVars, control>>
                \/ /\ keys' = {} /\ halted' = FALSE
                   /\ kbd_ien' = TRUE /\ out_zero' = TRUE /\ control' = ColdControl
    BY <1>10 DEF MainTurn
  <2>2. PlacesOK'
    BY <1>1, <1>10 DEF MainTurn, PlacesOK
  <2>3. FlagsOK'
    BY Zenon, <1>1, <1>10, <2>1 DEF MainTurn, FlagsOK, romVars
  <2>4. keys' \subseteq {"ON", "KEY"} /\ requests' \subseteq Requests
    BY <1>1, <1>3, <2>1 DEF SetsOK
  <2>5. control' \in [Timers -> SUBSET Bits]
    BY <1>1, <2>1 DEF SetsOK, ColdControl
  <2> QED
    BY <2>2, <2>3, <2>4, <2>5 DEF SetsOK
<1>11. CASE PacePoll
  BY <1>1, <1>3, <1>11 DEF PacePoll, PlacesOK, FlagsOK, SetsOK, placeVars, romVars
<1>12. CASE UNCHANGED vars
  BY <1>1, <1>12 DEF vars, PlacesOK, FlagsOK, SetsOK, placeVars, romVars
<1> QED
  BY <1>2, <1>5, <1>6, <1>7, <1>8, <1>9, <1>10, <1>11, <1>12 DEF Next

(* An HP falls asleep in the core and leaves it only awake.                *)
LEMMA StepSleepsInCore == SleepInv /\ [Next]_vars => SleepsInCore'
<1> SUFFICES ASSUME SleepInv, [Next]_vars, sleeping' PROVE place' = "core"
  BY DEF SleepsInCore
<1>1. sleeping => place = "core"
  BY DEF SleepInv, SleepsInCore
<1>2. CASE CoreStep \/ TimerInterrupt \/ FirstAlarm
  BY <1>2 DEF CoreStep, AnyInstruction, do_inton_intoff, WriteOut, WriteControl,
       do_reset_interrupt_system, ReturnFromInterrupt, do_shutdown,
       IllegalInstruction, Instruction, InCore, TimerInterrupt, FirstAlarm,
       placeVars
<1>3. CASE SleepTurn
  BY Zenon, <1>1, <1>3 DEF SleepTurn, placeVars
<1>4. CASE RunReturns \/ MainTurn \/ PacePoll \/ hp48_core_run
  BY <1>1, <1>4 DEF RunReturns, MainTurn, PacePoll, hp48_core_run, placeVars
<1>5. CASE UNCHANGED vars
  BY <1>1, <1>5 DEF vars, placeVars
<1> QED
  BY <1>2, <1>3, <1>4, <1>5 DEF Next

(* The invariant is inductive.                                             *)
LEMMA StepInvariant == SleepInv /\ [Next]_vars => SleepInv'
<1> SUFFICES ASSUME SleepInv, [Next]_vars PROVE SleepInv'
  OBVIOUS
<1>1. (PlacesOK /\ FlagsOK /\ SetsOK /\ SleepsInCore /\ Sound(cpu))'
  BY StepSound, StepTyped, StepSleepsInCore
<1> QED
  BY <1>1 DEF SleepInv, SleepTypeOK, SleepsInCore, PlacesOK, FlagsOK, SetsOK, Sound

-----------------------------------------------------------------------------
(* The theorems.                                                           *)

(* SleepInv holds in every reachable state.                                *)
LEMMA SleepInvariant == Spec => []SleepInv
<1> QED
  BY InitSound, StepInvariant, PTL DEF Spec

(* Every state of the loop is well typed.                                  *)
THEOREM SleepTyped == Spec => []SleepTypeOK
<1>1. SleepInv => SleepTypeOK
  BY DEF SleepInv
<1> QED
  BY <1>1, SleepInvariant, PTL

(* No interleaving of polls, timers, requests, imports and instructions    *)
(* enters the interrupt handler of the ROM a second time.                  *)
THEOREM HandlerIsNotReentered == Spec => []HandlerNotReentered
<1>1. SleepInv => HandlerNotReentered
  BY SoundIsNotReentered DEF SleepInv
<1> QED
  BY <1>1, SleepInvariant, PTL

(* The flag a SHUTDN clears was not set, so that no interrupt is lost.     *)
THEOREM ShutdnIsSafe == Spec => ShutdnDropsNothing
<1>1. SleepInv /\ do_shutdown => ~cpu.int_pending
  <2> SUFFICES ASSUME SleepInv, do_shutdown PROVE ~cpu.int_pending
    OBVIOUS
  <2>1. ~(cpu.frames > 0) /\ Sound(cpu)
    BY DEF SleepInv, do_shutdown, InHandler
  <2>2. cpu.frames # 1
    BY <2>1
  <2> QED
    BY Zenon, <2>1, <2>2 DEF Sound
<1>2. SleepInv /\ [Next]_vars => [do_shutdown => ~cpu.int_pending]_vars
  BY <1>1
<1> QED
  BY <1>2, SleepInvariant, PTL DEF Spec, ShutdnDropsNothing

(* An HP that sleeps on was not interrupted meanwhile.                     *)
THEOREM SleepsUndisturbed == Spec => SleepIsUndisturbed
<1>1. SleepInv /\ [Next]_vars => [sleeping /\ sleeping' => cpu' = cpu]_vars
  <2> SUFFICES ASSUME SleepInv, [Next]_vars, sleeping, sleeping' PROVE cpu' = cpu
    OBVIOUS
  <2>1. place = "core"
    BY DEF SleepInv, SleepsInCore
  <2>2. CASE CoreStep
    BY <2>2 DEF CoreStep, AnyInstruction, do_inton_intoff, WriteOut, WriteControl,
         do_reset_interrupt_system, ReturnFromInterrupt, do_shutdown,
         IllegalInstruction, Instruction, InCore
  <2>3. CASE SleepTurn
    <3>1. PICK event \in Events, import \in Imports, zero \in SUBSET Timers :
            /\ cpu' = IF Raise(zero) THEN do_interupt(CpuAfterEvent(event, import))
                      ELSE CpuAfterEvent(event, import)
            /\ sleeping' = ~(\/ GetEventReturns(event, import)
                                /\ interrupt_called(event, import)
                             \/ TimersWake(zero))
      BY Zenon, <2>3 DEF SleepTurn
    <3>2. ~Raise(zero) /\ ~(/\ GetEventReturns(event, import)
                            /\ interrupt_called(event, import))
      BY Zenon, <3>1 DEF TimersWake
    <3>3. ~Interrupts(event) /\ import # "committed"
      BY Zenon, <3>2 DEF GetEventReturns, interrupt_called, Interrupts
    <3> QED
      BY Zenon, <3>1, <3>2, <3>3 DEF CpuAfterEvent, CpuAfter
  <2>4. CASE UNCHANGED vars
    BY <2>4 DEF vars
  <2>5. CASE ~(CoreStep \/ SleepTurn \/ UNCHANGED vars)
    BY <2>1, <2>5 DEF Next, TimerInterrupt, FirstAlarm, RunReturns, MainTurn,
         PacePoll, hp48_core_run
  <2> QED
    BY <2>2, <2>3, <2>4, <2>5
<1> QED
  BY <1>1, SleepInvariant, PTL DEF Spec, SleepIsUndisturbed

(* A request of an import is taken from a sleeping HP only, which a        *)
(* committed import leaves awake, in its handler.                          *)
THEOREM ImportsWhileAsleep == Spec => ImportOnlyAsleep
<1> DEFINE Taken == "import" \in requests /\ "import" \notin requests'
           Result == sleeping /\ (import_wake' => \/ import_wake
                                                  \/ ~sleeping' /\ InHandler')
<1>1. SleepInv /\ [Next]_vars => [Taken => Result]_vars
  <2> SUFFICES ASSUME SleepInv, [Next]_vars, Taken PROVE Result
    OBVIOUS
  <2>1. CASE SleepTurn
    <3>1. sleeping
      BY <2>1 DEF SleepTurn
    <3>2. PICK event \in Events, import \in Imports, zero \in SUBSET Timers :
            LET c == CpuAfterEvent(event, import)
            IN /\ import_wake' = (import_wake \/ import = "committed")
               /\ cpu' = IF Raise(zero) THEN do_interupt(c) ELSE c
               /\ sleeping' = ~(\/ GetEventReturns(event, import)
                                   /\ interrupt_called(event, import)
                                \/ TimersWake(zero))
      BY Zenon, <2>1 DEF SleepTurn, GetEvent
    <3>3. ASSUME import = "committed" PROVE ~sleeping' /\ InHandler'
      <4>1. ~sleeping'
        BY <3>2, <3>3 DEF GetEventReturns, interrupt_called
      <4> DEFINE c == CpuAfterEvent(event, import)
      <4>2. Sound(CpuAfter(event))
        BY EventIsSound DEF SleepInv
      <4>3. Sound(c) /\ c.frames = 1
        BY <3>3, <4>2, KbdIntIsSound DEF CpuAfterEvent
      <4>4. cpu'.frames = 1
        BY <3>2, <4>3, InteruptIsSound
      <4> QED
        BY <4>1, <4>4 DEF InHandler
    <3> QED
      BY <3>1, <3>2, <3>3
  <2>2. CASE CoreStep
    BY <2>2 DEF CoreStep, AnyInstruction, do_inton_intoff, WriteOut, WriteControl,
         do_reset_interrupt_system, ReturnFromInterrupt, do_shutdown,
         IllegalInstruction, Instruction
  <2>3. CASE FirstAlarm
    BY <2>3 DEF FirstAlarm, GetEvent, service_idle_file_import, RequestsAfter
  <2>4. CASE MainTurn \/ PacePoll
    BY <2>4 DEF MainTurn, PacePoll, RequestsAfter
  <2>5. CASE TimerInterrupt \/ RunReturns \/ hp48_core_run
    BY <2>5 DEF TimerInterrupt, RunReturns, hp48_core_run
  <2>6. CASE UNCHANGED vars
    BY <2>6 DEF vars
  <2> QED
    BY <2>1, <2>2, <2>3, <2>4, <2>5, <2>6 DEF Next
<1> QED
  BY <1>1, SleepInvariant, PTL DEF Spec, ImportOnlyAsleep

=============================================================================
