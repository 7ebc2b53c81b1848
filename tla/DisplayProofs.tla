--------------------------- MODULE DisplayProofs ---------------------------
(***************************************************************************)
(* Proofs about DisplayController: whatever a program writes to the        *)
(* registers and to the RAM, no write into the visible rows is forgotten,  *)
(* and a program that follows the scan gets its snapshots between frames.  *)
(* They hold for every size of the screen and every address and register   *)
(* value, not only for the small screen of MCDisplay.                      *)
(***************************************************************************)
EXTENDS DisplayController, TLAPS

-----------------------------------------------------------------------------
(* Addresses of rows.                                                      *)

(* Multiplication by a distance of rows is monotonic.                      *)
LEMMA Monotonic ==
  ASSUME NEW m \in Nat, NEW n \in Nat, NEW stride \in Nat, m <= n
  PROVE  m * stride <= n * stride
<1>1. (n - m) \in Nat
  OBVIOUS
<1>2. (n - m) * stride \in Nat
  BY <1>1
<1>3. n * stride = m * stride + (n - m) * stride
  OBVIOUS
<1> QED
  BY <1>2, <1>3

(* A nibble the hook counts as the first of a row is the first nibble of a *)
(* row of the screen.                                                      *)
LEMMA RowOfAddress ==
  ASSUME NEW d \in Displays, d.stride # 0, NEW a \in d.start .. disp_end(d) - 1
  PROVE  (a - d.start) \div d.stride \in 0 .. d.lines
<1> DEFINE r == a - d.start  q == r \div d.stride
<1>1. /\ d.stride \in Nat /\ d.stride > 0 /\ d.lines \in Nat /\ d.start \in Nat
      /\ r \in Nat /\ r < d.stride * (d.lines + 1)
  BY DisplayAssumption DEF Displays, disp_end
<1>2. q \in Nat /\ q * d.stride <= r
  BY <1>1
<1>3. ~(q >= d.lines + 1)
  BY <1>1, <1>2, Monotonic
<1> QED
  BY <1>1, <1>2, <1>3

(* The hook sees every write into a watched row: it marks the screen dirty *)
(* unless a new layout will be shown anyway.                               *)
LEMMA WatchedIsNoticed ==
  ASSUME DisplayTypeOK, NEW a \in Nat, NEW y \in Watched, RowAddress(display, y) = a
  PROVE  device.touched > 0 \/ Noticed(fb, display, device, a).dirty
<1> DEFINE d == display
<1>1. /\ d \in Displays /\ d.stride \in Nat /\ d.lines \in Nat
      /\ d.start \in Nat /\ d.menu \in Nat /\ y \in Nat /\ y <= Rows - 1
      /\ (y <= d.lines => d.stride > 0)
      /\ y <= d.lines + MenuRows /\ MenuRows \in Nat /\ NIBBLES_PER_ROW \in Nat
      /\ NIBBLES_PER_ROW > 0 /\ Rows \in Nat /\ a # Never
  BY DisplayAssumption DEF DisplayTypeOK, Displays, Watched, Screen
<1>2. mark_framebuffer_dirty(fb).dirty = TRUE
  BY DEF DisplayTypeOK, Framebuffers, mark_framebuffer_dirty
<1>3. CASE y <= d.lines
  <2>1. a = d.start + y * d.stride
    BY <1>1, <1>3 DEF RowAddress
  <2>2. y * d.stride \in Nat /\ (y + 1) * d.stride <= (d.lines + 1) * d.stride
    BY <1>1, <1>3, Monotonic
  <2>3. (y + 1) * d.stride = y * d.stride + d.stride /\ d.stride > 0
    BY <1>1, <1>3
  <2>4. a \in d.start .. disp_end(d) - 1
    BY <1>1, <2>1, <2>2, <2>3 DEF disp_end
  <2>5. mark_visible_display_nibble(fb, d, a).dirty = TRUE
    BY <1>2 DEF mark_visible_display_nibble, mark_framebuffer_dirty, DisplayTypeOK, Framebuffers
  <2>6. mark_framebuffer_dirty(mark_visible_display_nibble(fb, d, a)).dirty = TRUE
    BY DEF mark_visible_display_nibble, mark_framebuffer_dirty, DisplayTypeOK, Framebuffers
  <2> QED
    BY <2>4, <2>5, <2>6 DEF Noticed
<1>4. CASE y > d.lines
  <2> DEFINE m == y - d.lines - 1
  <2>1. a = d.menu + m * NIBBLES_PER_ROW /\ m \in Nat /\ m + 1 <= MenuRows
    BY <1>1, <1>4 DEF RowAddress
  <2>2. /\ m * NIBBLES_PER_ROW \in Nat
        /\ (m + 1) * NIBBLES_PER_ROW <= MenuRows * NIBBLES_PER_ROW
    BY <1>1, <2>1, Monotonic
  <2>3. a \in d.menu .. menu_end(d) - 1 /\ d.lines # Rows - 1
    BY <1>1, <1>4, <2>1, <2>2 DEF menu_end
  <2>4. mark_framebuffer_dirty(mark_visible_display_nibble(fb, d, a)).dirty = TRUE
    BY DEF mark_visible_display_nibble, mark_framebuffer_dirty, DisplayTypeOK, Framebuffers
  <2> QED
    BY <1>2, <2>3, <2>4 DEF Noticed, DisplayTypeOK, Devices
<1> QED
  BY <1>1, <1>3, <1>4

(* What the hook leaves is well typed, and it never clears a mark or       *)
(* changes what is known of the scan frame.                                *)
LEMMA NoticedTyped ==
  ASSUME DisplayTypeOK, NEW a \in Nat
  PROVE  /\ Noticed(fb, display, device, a) \in Framebuffers
         /\ fb.dirty => Noticed(fb, display, device, a).dirty
         /\ Noticed(fb, display, device, a).frame = fb.frame
<1>1. ASSUME NEW f \in Framebuffers
      PROVE  /\ mark_framebuffer_dirty(f) \in Framebuffers
             /\ mark_framebuffer_dirty(f).dirty
             /\ mark_framebuffer_dirty(f).frame = f.frame
  BY DEF mark_framebuffer_dirty, Framebuffers
<1>2. ASSUME a \in display.start .. disp_end(display) - 1
      PROVE  /\ mark_visible_display_nibble(fb, display, a) \in Framebuffers
             /\ mark_visible_display_nibble(fb, display, a).dirty
             /\ mark_visible_display_nibble(fb, display, a).frame = fb.frame
  <2>1. display.stride = 0 \/ (a - display.start) \div display.stride \in Screen
    BY <1>2, RowOfAddress, DisplayAssumption DEF DisplayTypeOK, Displays, Screen
  <2>2. /\ mark_framebuffer_dirty(fb) \in Framebuffers
        /\ mark_framebuffer_dirty(fb).dirty
        /\ mark_framebuffer_dirty(fb).frame = fb.frame
    BY <1>1 DEF DisplayTypeOK
  <2> QED
    BY <2>1, <2>2 DEF mark_visible_display_nibble, Framebuffers
<1> QED
  BY <1>1, <1>2 DEF Noticed, DisplayTypeOK

-----------------------------------------------------------------------------
(* schedule() and the snapshots.                                           *)

(* schedule() keeps the countdown within its range.  One that was running  *)
(* goes on, or ends with a refresh, or is the one that is missed.          *)
LEMMA ScheduleKeeps ==
  ASSUME NEW dv \in Devices, NEW sc \in Schedules
  PROVE  LET after == schedule(dv, sc)
         IN  /\ after.device \in Devices /\ after.sched \in Schedules
             /\ after.refresh \in BOOLEAN /\ after.missed \in BOOLEAN
             /\ dv.touched > 0 =>
                  after.refresh \/ after.device.touched > 0 \/ after.missed
<1>1. /\ dv.touched \in 0 .. DISP_INSTR_OFF /\ dv.ann \in BOOLEAN /\ dv.check \in BOOLEAN
      /\ sc.steps \in 0 .. DISP_INSTR_OFF /\ DISP_INSTR_OFF \in Nat \ {0}
      /\ sc.display \in 0 .. DISP_INSTR_OFF \cup {Never}
  BY DisplayAssumption DEF Devices, Schedules
<1> DEFINE touched == CountedDown(dv, sc)
           left == IF touched > 0 THEN touched - 1 ELSE 0
<1>2. touched \in 0 .. DISP_INSTR_OFF /\ left \in 0 .. DISP_INSTR_OFF
  <2>1. dv.touched >= sc.steps => dv.touched - sc.steps \in 0 .. DISP_INSTR_OFF
    BY <1>1
  <2> QED
    BY <1>1, <2>1 DEF CountedDown
<1>3. CASE ~dv.check
  <2>1. [sc EXCEPT !.steps = 0] \in Schedules
    BY <1>1 DEF Schedules
  <2> QED
    BY <1>1, <1>3, <2>1 DEF schedule
<1>4. CASE dv.check
  <2> DEFINE dev == [touched |-> left, ann |-> FALSE, check |-> left > 0]
             sch == [display |-> IF left > 0 THEN left - 1 ELSE Never, steps |-> 0]
             ends == touched = 1 \/ dv.ann
             misses == dv.touched > 0 /\ touched = 0
  <2>1. dev \in Devices /\ dev.touched = left
    <3>1. (left > 0) \in BOOLEAN
      OBVIOUS
    <3> HIDE DEF left
    <3> QED
      BY <1>2, <3>1 DEF Devices
  <2>2. sch \in Schedules
    BY <1>1, <1>2 DEF Schedules
  <2>3. ends \in BOOLEAN /\ misses \in BOOLEAN
    BY Zenon, <1>1
  <2>4. dv.touched > 0 => ends \/ left > 0 \/ misses
    <3>1. touched = 1 \/ left > 0 \/ touched = 0
      BY <1>2
    <3> QED
      BY Zenon, <3>1
  <2>5. schedule(dv, sc) = [device |-> dev, sched |-> sch, refresh |-> ends, missed |-> misses]
    BY Zenon, <1>4 DEF schedule, check_devices
  <2> HIDE DEF dev, sch, ends, misses
  <2>6. LET after == schedule(dv, sc)
        IN  /\ after.device = dev /\ after.sched = sch
            /\ after.refresh = ends /\ after.missed = misses
    BY <2>3, <2>5
  <2> QED
    BY Zenon, <2>1, <2>2, <2>3, <2>4, <2>6
<1> QED
  BY <1>1, <1>3, <1>4

(* After a snapshot nothing is left to show.                               *)
LEMMA SnapshotTaken ==
  ASSUME NEW d \in Displays, update_display(d)
  PROVE  /\ fb' \in Framebuffers /\ ~fb'.dirty /\ fb'.frame = "none"
         /\ fresh' = Screen /\ missed' = FALSE /\ turned' = FALSE
BY DisplayAssumption
   DEF update_display, clear_framebuffer_dirty, NothingSeen, Framebuffers, Displays

(* One instruction: what it leaves to f, rows and dv is kept, or shown.    *)
Pending(d, dv, f, rows, m) ==
  \/ {y \in Screen : y <= d.lines + MenuRows /\ (d.stride = 0 => y > d.lines)}
       \subseteq rows
  \/ f.dirty \/ dv.touched > 0 \/ m

(* What an instruction leaves pending stays pending, or has been shown.    *)
LEMMA InstructionKeeps ==
  ASSUME DisplayTypeOK, NEW d \in Displays, NEW dv \in Devices, NEW f \in Framebuffers,
         NEW rows \in SUBSET Screen, NEW at_once \in BOOLEAN,
         Instruction(d, dv, f, rows, at_once)
  PROVE  /\ display' = d /\ device' \in Devices /\ sched' \in Schedules
         /\ fb' \in Framebuffers /\ fresh' \in SUBSET Screen
         /\ missed' \in BOOLEAN /\ turned' \in BOOLEAN
         /\ (f.frame # "none" => f.dirty) /\ (f.frame = "turned" => turned) => FrameInv'
         /\ Pending(d, dv, f, rows, missed) => NothingIsLost'
<1> DEFINE after == schedule(dv, Stepped)
<1>0. /\ missed \in BOOLEAN /\ turned \in BOOLEAN /\ f.dirty \in BOOLEAN
  BY Zenon DEF DisplayTypeOK, Framebuffers
<1>1. Stepped \in Schedules
  BY DisplayAssumption DEF DisplayTypeOK, Schedules, Stepped
<1>2. /\ after.device \in Devices /\ after.sched \in Schedules
      /\ after.refresh \in BOOLEAN /\ after.missed \in BOOLEAN
      /\ dv.touched > 0 => after.refresh \/ after.device.touched > 0 \/ after.missed
  BY Zenon, <1>1, ScheduleKeeps
<1> HIDE DEF after
<1>3. ASSUME NoSnapshot(f, rows, missed) \/ NoSnapshot(f, rows, missed \/ after.missed)
      PROVE  /\ fb' = f /\ fresh' = rows /\ missed' \in BOOLEAN /\ turned' \in BOOLEAN
             /\ (f.frame # "none" => f.dirty) /\ (f.frame = "turned" => turned) => FrameInv'
  BY Zenon, <1>0, <1>2, <1>3 DEF NoSnapshot, FrameInv
<1>4. display' = d
  BY Zenon DEF Instruction
<1>5. CASE device' = dv /\ sched' = Stepped /\ NoSnapshot(f, rows, missed)
  <2>1. Pending(d, dv, f, rows, missed) => NothingIsLost'
    BY Zenon, <1>4, <1>5 DEF Pending, NothingIsLost, Watched, NoSnapshot
  <2> QED
    BY Zenon, <1>1, <1>3, <1>4, <1>5, <2>1
<1>6. CASE device' = after.device /\ sched' = after.sched /\ update_display(d)
  <2>1. fb' \in Framebuffers /\ ~fb'.dirty /\ fb'.frame = "none"
        /\ fresh' = Screen /\ missed' = FALSE /\ turned' = FALSE
    BY Zenon, <1>6, SnapshotTaken
  <2>2. NothingIsLost' /\ FrameInv'
    BY <2>1 DEF NothingIsLost, Watched, FrameInv
  <2> QED
    BY Zenon, <1>2, <1>4, <1>6, <2>1, <2>2
<1>7. CASE /\ device' = after.device /\ sched' = after.sched /\ ~after.refresh
           /\ NoSnapshot(f, rows, missed \/ after.missed)
  <2>1. Pending(d, dv, f, rows, missed) => NothingIsLost'
    BY Zenon, <1>2, <1>4, <1>7 DEF Pending, NothingIsLost, Watched, NoSnapshot
  <2> QED
    BY Zenon, <1>2, <1>3, <1>4, <1>7, <2>1
<1> QED
  BY Zenon, <1>5, <1>6, <1>7 DEF Instruction, after

-----------------------------------------------------------------------------
(* The inductive invariant.                                                *)

(* A reset machine is well typed.                                          *)
LEMMA ResetLayout ==
  ASSUME NEW start \in Starts, NEW menu \in Menus
  PROVE  [on |-> FALSE, start |-> start, stride |-> NIBBLES_PER_ROW,
          lines |-> Rows - 1, menu |-> menu] \in Displays
BY DisplayAssumption DEF Displays

(* The first state: everything is shown and nothing is noticed.            *)
LEMMA InitDisplay == Init => DisplayInv
<1> SUFFICES ASSUME Init PROVE DisplayInv
  OBVIOUS
<1>1. display \in Displays
  BY ResetLayout DEF Init
<1>2. device \in Devices /\ sched \in Schedules
  BY DisplayAssumption DEF Init, Devices, Schedules
<1>3. fb \in Framebuffers /\ fb.frame = "none"
  BY <1>1, DisplayAssumption DEF Init, NothingSeen, Framebuffers, Displays
<1>4. sync \in 0 .. SyncTicks /\ fresh = Screen
  BY DisplayAssumption DEF Init
<1>5. {sleeping, missed, turned} \subseteq BOOLEAN
  BY Zenon DEF Init
<1>6. FrameInv /\ NothingIsLost
  BY <1>3, <1>4 DEF FrameInv, NothingIsLost, Watched
<1> QED
  BY <1>1, <1>2, <1>3, <1>4, <1>5, <1>6 DEF DisplayInv, DisplayTypeOK

(* An instruction that leaves the right things pending keeps the invariant. *)
LEMMA InstructionStep ==
  ASSUME DisplayInv, NEW d \in Displays, NEW dv \in Devices, NEW f \in Framebuffers,
         NEW rows \in SUBSET Screen, NEW at_once \in BOOLEAN,
         Instruction(d, dv, f, rows, at_once),
         sync' \in 0 .. SyncTicks, sleeping' \in BOOLEAN,
         f.frame # "none" => f.dirty, f.frame = "turned" => turned,
         Pending(d, dv, f, rows, missed)
  PROVE  DisplayInv'
<1>1. DisplayTypeOK
  BY DEF DisplayInv
<1>2. /\ display' = d /\ device' \in Devices /\ sched' \in Schedules
      /\ fb' \in Framebuffers /\ fresh' \in SUBSET Screen
      /\ missed' \in BOOLEAN /\ turned' \in BOOLEAN
      /\ FrameInv' /\ NothingIsLost'
  BY Zenon, <1>1, InstructionKeeps
<1>3. {sleeping', missed', turned'} \subseteq BOOLEAN
  BY Zenon, <1>2
<1>4. fresh' \subseteq Screen
  BY <1>2
<1> QED
  BY Zenon, <1>2, <1>3, <1>4 DEF DisplayInv, DisplayTypeOK

(* What a register write makes of the device flags.                        *)
LEMMA DeviceFlags ==
  ASSUME DisplayInv
  PROVE  /\ Touched \in Devices /\ Touched.touched > 0
         /\ Checked \in Devices /\ Checked.touched = device.touched
         /\ [Checked EXCEPT !.ann = TRUE] \in Devices
         /\ [Checked EXCEPT !.ann = TRUE].touched = device.touched
         /\ device \in Devices
<1>1. device \in Devices
  BY DEF DisplayInv, DisplayTypeOK
<1>2. Checked \in Devices /\ Checked.touched = device.touched
  BY <1>1 DEF Devices, Checked
<1>3. DISP_INSTR_OFF \in 0 .. DISP_INSTR_OFF /\ DISP_INSTR_OFF > 0
  BY DisplayAssumption
<1>4. Touched \in Devices /\ Touched.touched = DISP_INSTR_OFF
  BY <1>1, <1>3 DEF Devices, Touched
<1>5. ASSUME NEW dv \in Devices
      PROVE  /\ [dv EXCEPT !.ann = TRUE] \in Devices
             /\ [dv EXCEPT !.ann = TRUE].touched = dv.touched
  BY DEF Devices
<1>6. /\ [Checked EXCEPT !.ann = TRUE] \in Devices
      /\ [Checked EXCEPT !.ann = TRUE].touched = device.touched
  BY <1>2, <1>5
<1> QED
  BY <1>1, <1>2, <1>3, <1>4, <1>6

(* A register write that leaves the layout alone keeps what is pending; one *)
(* that changes it starts a countdown.                                     *)
LEMMA LayoutStep ==
  ASSUME DisplayInv, NEW d \in Displays, NEW dv \in Devices, NEW f, f.dirty = fb.dirty,
         \/ dv.touched > 0
         \/ d = display /\ dv.touched = device.touched
  PROVE  /\ fresh \cap Unchanged(display, d) \in SUBSET Screen
         /\ Pending(d, dv, f, fresh \cap Unchanged(display, d), missed)
<1>1. Unchanged(display, display) = Screen /\ fresh \subseteq Screen
  BY DEF Unchanged, DisplayInv, DisplayTypeOK
<1>2. fresh \cap Unchanged(display, d) \in SUBSET Screen
  BY <1>1
<1>3. CASE dv.touched > 0
  BY Zenon, <1>2, <1>3 DEF Pending
<1>4. CASE d = display /\ dv.touched = device.touched
  <2>1. fresh \cap Unchanged(display, d) = fresh
    BY <1>1, <1>4
  <2> QED
    BY Zenon, <1>2, <1>4, <2>1 DEF Pending, DisplayInv, NothingIsLost, Watched
<1> QED
  BY <1>3, <1>4

(* The writes to the registers that the layout depends on.                 *)
LEMMA RegisterStep ==
  ASSUME DisplayInv,
         \/ \E on \in BOOLEAN : WriteDispIo(on)
         \/ \E start \in Starts : WriteDispAddr(start)
         \/ \E offset \in LineOffsets : WriteLineOffset(offset)
         \/ \E count \in LineCounts : WriteLineCount(count)
         \/ \E menu \in Menus : WriteMenuAddr(menu)
  PROVE  DisplayInv'
<1>0. /\ display \in Displays /\ fb \in Framebuffers /\ FrameInv
      /\ (fb.frame # "none" => fb.dirty) /\ (fb.frame = "turned" => turned)
      /\ sync \in 0 .. SyncTicks /\ 0 \in 0 .. SyncTicks
  BY DisplayAssumption DEF DisplayInv, DisplayTypeOK, FrameInv
<1>1. sleeping \in BOOLEAN
  BY Zenon DEF DisplayInv, DisplayTypeOK
<1>2. ASSUME NEW d \in Displays, Relayout(d), UNCHANGED <<sync, sleeping>>
      PROVE  DisplayInv'
  <2> DEFINE dv == IF d = display THEN Checked ELSE Touched
  <2>1. dv \in Devices /\ (dv.touched > 0 \/ (d = display /\ dv.touched = device.touched))
    BY DeviceFlags
  <2>2. /\ fresh \cap Unchanged(display, d) \in SUBSET Screen
        /\ Pending(d, dv, fb, fresh \cap Unchanged(display, d), missed)
    BY <2>1, LayoutStep
  <2> HIDE DEF dv
  <2>3. Instruction(d, dv, fb, fresh \cap Unchanged(display, d), TRUE)
    BY Zenon, <1>2 DEF Relayout, dv
  <2> QED
    BY Zenon, <1>0, <1>1, <1>2, <2>1, <2>2, <2>3, InstructionStep
<1>3. ASSUME NEW on \in BOOLEAN, WriteDispIo(on) PROVE DisplayInv'
  <2> DEFINE d == [display EXCEPT !.on = on]
             dv == IF on # display.on THEN Touched ELSE Checked
             f == IF on # display.on THEN [fb EXCEPT !.frame = "none"] ELSE fb
  <2>1. d \in Displays /\ (on = display.on => d = display)
    BY Zenon, <1>0 DEF Displays
  <2>2. dv \in Devices /\ (dv.touched > 0 \/ (d = display /\ dv.touched = device.touched))
    BY Zenon, <2>1, DeviceFlags
  <2>3. /\ f \in Framebuffers /\ f.dirty = fb.dirty
        /\ f.frame # "none" => f.frame = fb.frame
    BY <1>0 DEF Framebuffers
  <2>4. f.frame # "none" => f.dirty
    BY Zenon, <1>0, <2>3
  <2>5. f.frame = "turned" => turned
    BY <1>0, <2>3
  <2> HIDE DEF d, dv, f
  <2>6. /\ fresh \cap Unchanged(display, d) \in SUBSET Screen
        /\ Pending(d, dv, f, fresh \cap Unchanged(display, d), missed)
    BY <2>1, <2>2, <2>3, LayoutStep
  <2>7. /\ Instruction(d, dv, f, fresh \cap Unchanged(display, d), TRUE)
        /\ sync' \in {0, sync} /\ sleeping' = sleeping
    BY Zenon, <1>3 DEF WriteDispIo, d, dv, f
  <2>8. sync' \in 0 .. SyncTicks
    BY <1>0, <2>7
  <2> QED
    BY Zenon, <1>1, <2>1, <2>2, <2>3, <2>4, <2>5, <2>6, <2>7, <2>8, InstructionStep
<1>4. ASSUME NEW start \in Starts, WriteDispAddr(start) PROVE DisplayInv'
  <2>1. [display EXCEPT !.start = start] \in Displays
    BY <1>0, DisplayAssumption DEF Displays
  <2> QED
    BY Zenon, <1>2, <1>4, <2>1 DEF WriteDispAddr
<1>5. ASSUME NEW menu \in Menus, WriteMenuAddr(menu) PROVE DisplayInv'
  <2>1. [display EXCEPT !.menu = menu] \in Displays
    BY <1>0, DisplayAssumption DEF Displays
  <2> QED
    BY Zenon, <1>2, <1>5, <2>1 DEF WriteMenuAddr
<1>6. ASSUME NEW count \in LineCounts, WriteLineCount(count) PROVE DisplayInv'
  <2> DEFINE d == [display EXCEPT !.lines = Lines(count)]
             dv == IF count = display.lines THEN Checked ELSE Touched
  <2>1. d \in Displays
    BY <1>0, DisplayAssumption DEF Displays, Lines
  <2>2. count = display.lines => d = display
    BY <1>0, DisplayAssumption DEF Displays, Lines
  <2>3. dv \in Devices /\ (dv.touched > 0 \/ (d = display /\ dv.touched = device.touched))
    BY Zenon, <2>2, DeviceFlags
  <2> HIDE DEF d, dv
  <2>4. /\ fresh \cap Unchanged(display, d) \in SUBSET Screen
        /\ Pending(d, dv, fb, fresh \cap Unchanged(display, d), missed)
    BY <2>1, <2>3, LayoutStep
  <2>5. /\ Instruction(d, dv, fb, fresh \cap Unchanged(display, d), TRUE)
        /\ UNCHANGED <<sync, sleeping>>
    BY Zenon, <1>6 DEF WriteLineCount, d, dv
  <2> QED
    BY Zenon, <1>0, <1>1, <2>1, <2>3, <2>4, <2>5, InstructionStep
<1>7. ASSUME NEW offset \in LineOffsets, WriteLineOffset(offset) PROVE DisplayInv'
  <2> DEFINE d == [display EXCEPT !.stride = (NIBBLES_PER_ROW + offset) % Strides]
  <2>1. d \in Displays
    BY <1>0, DisplayAssumption DEF Displays
  <2>2. CASE offset = lineOffset.old
    <3>1. Instruction(display, Checked, fb, fresh, TRUE) /\ UNCHANGED <<sync, sleeping>>
      BY Zenon, <1>7, <2>2 DEF WriteLineOffset
    <3>2. fresh \in SUBSET Screen
      BY DEF DisplayInv, DisplayTypeOK
    <3>3. Pending(display, Checked, fb, fresh, missed)
      BY Zenon, DeviceFlags DEF Pending, DisplayInv, NothingIsLost, Watched
    <3> QED
      BY Zenon, <1>0, <1>1, <3>1, <3>2, <3>3, DeviceFlags, InstructionStep
  <2>3. CASE offset # lineOffset.old
    <3> HIDE DEF d
    <3>1. /\ Instruction(d, Touched, fb, fresh \cap Unchanged(display, d), TRUE)
          /\ UNCHANGED <<sync, sleeping>>
      BY Zenon, <1>7, <2>3 DEF WriteLineOffset, d
    <3>2. /\ fresh \cap Unchanged(display, d) \in SUBSET Screen
          /\ Pending(d, Touched, fb, fresh \cap Unchanged(display, d), missed)
      BY <2>1, DeviceFlags, LayoutStep
    <3> QED
      BY Zenon, <1>0, <1>1, <2>1, <3>1, <3>2, DeviceFlags, InstructionStep
  <2> QED
    BY <2>2, <2>3
<1> QED
  BY <1>3, <1>4, <1>5, <1>6, <1>7

(* The other instructions of a program, and the first one after a sleep.   *)
LEMMA ProgramStep ==
  ASSUME DisplayInv,
         \/ OtherInstruction \/ WriteAnnunciators \/ WriteOtherRegister
         \/ display_line_counter_read \/ Wake
         \/ \E a \in Written : write_nibble_gx(a)
  PROVE  DisplayInv'
<1>0. /\ display \in Displays /\ fb \in Framebuffers /\ device \in Devices
      /\ (fb.frame # "none" => fb.dirty) /\ (fb.frame = "turned" => turned)
      /\ sync \in 0 .. SyncTicks /\ SyncTicks \in 0 .. SyncTicks /\ fresh \in SUBSET Screen
  BY DisplayAssumption DEF DisplayInv, DisplayTypeOK, FrameInv
<1>1. sleeping \in BOOLEAN
  BY Zenon DEF DisplayInv, DisplayTypeOK
<1>2. ASSUME NEW dv \in Devices, dv.touched = device.touched, NEW at_once \in BOOLEAN,
             Instruction(display, dv, fb, fresh, at_once),
             sync' \in {sync, SyncTicks}, sleeping' \in BOOLEAN
      PROVE  DisplayInv'
  <2>1. Pending(display, dv, fb, fresh, missed)
    BY Zenon, <1>2 DEF Pending, DisplayInv, NothingIsLost, Watched
  <2>2. sync' \in 0 .. SyncTicks
    BY <1>0, <1>2
  <2> QED
    BY Zenon, <1>0, <1>2, <2>1, <2>2, InstructionStep
<1>3. CASE OtherInstruction \/ display_line_counter_read \/ Wake
  <2>1. /\ Instruction(display, device, fb, fresh, FALSE)
        /\ sync' \in {sync, SyncTicks} /\ sleeping' \in BOOLEAN
    BY Zenon, <1>1, <1>3 DEF OtherInstruction, display_line_counter_read, Wake
  <2> QED
    BY Zenon, <1>0, <1>2, <2>1
<1>4. CASE WriteAnnunciators \/ WriteOtherRegister
  <2>1. /\ \/ Instruction(display, Checked, fb, fresh, TRUE)
           \/ Instruction(display, [Checked EXCEPT !.ann = TRUE], fb, fresh, TRUE)
        /\ sync' \in {sync, SyncTicks} /\ sleeping' \in BOOLEAN
    BY Zenon, <1>1, <1>4 DEF WriteAnnunciators, WriteOtherRegister
  <2> QED
    BY Zenon, <1>2, <2>1, DeviceFlags
<1>5. ASSUME NEW a \in Written, write_nibble_gx(a) PROVE DisplayInv'
  <2> DEFINE f == Noticed(fb, display, device, a)
             rows == fresh \ ShownAt(display, a)
  <2>1. a \in Nat
    BY DisplayAssumption
  <2>2. DisplayTypeOK
    BY DEF DisplayInv
  <2>3. f \in Framebuffers /\ (fb.dirty => f.dirty) /\ f.frame = fb.frame
    BY Zenon, <2>1, <2>2, NoticedTyped
  <2>4. ASSUME ~(device.touched > 0), ~f.dirty
        PROVE  Watched \cap ShownAt(display, a) = {}
    BY <2>1, <2>2, <2>4, WatchedIsNoticed DEF ShownAt
  <2>5. rows \in SUBSET Screen
    BY <1>0
  <2>6. Watched \subseteq fresh /\ Watched \cap ShownAt(display, a) = {} =>
          Watched \subseteq rows
    OBVIOUS
  <2>7. Instruction(display, device, f, rows, FALSE) /\ UNCHANGED <<sync, sleeping>>
    BY Zenon, <1>5 DEF write_nibble_gx
  <2> HIDE DEF f, rows
  <2>8. Pending(display, device, f, rows, missed)
    BY Zenon, <2>3, <2>4, <2>6 DEF Pending, DisplayInv, NothingIsLost, Watched
  <2>9. f.frame # "none" => f.dirty
    BY Zenon, <1>0, <2>3
  <2>10. f.frame = "turned" => turned
    BY Zenon, <1>0, <2>3
  <2> QED
    BY Zenon, <1>0, <1>1, <2>3, <2>5, <2>7, <2>8, <2>9, <2>10, InstructionStep
<1> QED
  BY <1>3, <1>4, <1>5

(* A snapshot leaves nothing to show.                                      *)
LEMMA SnapshotStep ==
  ASSUME DisplayInv, NEW d \in Displays, update_display(d), display' = d,
         device' \in Devices, sched' \in Schedules, sync' \in 0 .. SyncTicks,
         sleeping' \in BOOLEAN
  PROVE  DisplayInv'
<1>1. /\ fb' \in Framebuffers /\ ~fb'.dirty /\ fb'.frame = "none"
      /\ fresh' = Screen /\ missed' = FALSE /\ turned' = FALSE
  BY Zenon, SnapshotTaken
<1>2. {sleeping', missed', turned'} \subseteq BOOLEAN
  BY Zenon, <1>1
<1>3. FrameInv' /\ NothingIsLost' /\ fresh' \subseteq Screen
  BY <1>1 DEF FrameInv, NothingIsLost, Watched
<1> QED
  BY Zenon, <1>1, <1>2, <1>3 DEF DisplayInv, DisplayTypeOK

(* What display_service remembers of a poll.                               *)
LEMMA ObservedTyped ==
  ASSUME DisplayTypeOK, FrameInv
  PROVE  /\ Observed \in Framebuffers /\ Observed.dirty = fb.dirty
         /\ Observed.frame = fb.frame
         /\ [Observed EXCEPT !.frame = "same"] \in Framebuffers
         /\ [Observed EXCEPT !.frame = "same"].dirty = fb.dirty
         /\ [Observed EXCEPT !.frame = "same"].frame = "same"
<1>1. fb \in Framebuffers /\ 0 \in 0 .. PendingTicks /\ 0 \in 0 .. QuietTicks
  BY DisplayAssumption DEF DisplayTypeOK
<1>2. Observed \in Framebuffers /\ Observed.dirty = fb.dirty /\ Observed.frame = fb.frame
  BY <1>1 DEF Observed, Framebuffers
<1>3. ASSUME NEW f \in Framebuffers
      PROVE  /\ [f EXCEPT !.frame = "same"] \in Framebuffers
             /\ [f EXCEPT !.frame = "same"].dirty = f.dirty
             /\ [f EXCEPT !.frame = "same"].frame = "same"
  BY DEF Framebuffers
<1> QED
  BY Zenon, <1>2, <1>3

(* A poll shows what was noticed, or leaves it noticed.                    *)
LEMMA ServiceStep ==
  ASSUME DisplayInv, display_service
  PROVE  DisplayInv'
<1>0. /\ DisplayTypeOK /\ FrameInv /\ NothingIsLost /\ display \in Displays
      /\ device \in Devices /\ sched \in Schedules /\ sync \in 0 .. SyncTicks
      /\ fresh \subseteq Screen /\ fb.dirty
  BY DEF DisplayInv, DisplayTypeOK, display_service
<1>1. sleeping \in BOOLEAN /\ missed \in BOOLEAN /\ turned \in BOOLEAN
  BY Zenon DEF DisplayInv, DisplayTypeOK
<1>2. UNCHANGED <<display, device, sched, sync, sleeping>>
  BY Zenon DEF display_service
<1>3. ASSUME NEW f \in Framebuffers, NoSnapshot(f, fresh, missed), f.dirty,
             f.frame = "turned" => fb.frame = "turned"
      PROVE  DisplayInv'
  <2>1. FrameInv' /\ NothingIsLost' /\ fb' \in Framebuffers
    BY Zenon, <1>0, <1>3 DEF NoSnapshot, FrameInv, NothingIsLost
  <2>2. {sleeping', missed', turned'} \subseteq BOOLEAN
    BY Zenon, <1>1, <1>2, <1>3 DEF NoSnapshot
  <2>3. fresh' = fresh
    BY Zenon, <1>3 DEF NoSnapshot
  <2> QED
    BY Zenon, <1>0, <1>2, <2>1, <2>2, <2>3 DEF DisplayInv, DisplayTypeOK
<1>4. CASE NoSnapshot(Observed, fresh, missed)
  BY Zenon, <1>0, <1>3, <1>4, ObservedTyped
<1>5. CASE NoSnapshot([Observed EXCEPT !.frame = "same"], fresh, missed)
  <2>1. "same" # "turned"
    OBVIOUS
  <2> QED
    BY Zenon, <1>0, <1>3, <1>5, <2>1, ObservedTyped
<1>6. CASE update_display(display)
  BY Zenon, <1>0, <1>1, <1>2, <1>6, SnapshotStep
<1> QED
  <2>1. \/ NoSnapshot(Observed, fresh, missed)
        \/ NoSnapshot([Observed EXCEPT !.frame = "same"], fresh, missed)
        \/ update_display(display)
    BY DEF display_service
  <2> QED
    BY Zenon, <1>4, <1>5, <1>6, <2>1

(* Before the CPU sleeps everything pending is shown.                      *)
LEMMA ShutdownStep ==
  ASSUME DisplayInv, do_shutdown
  PROVE  DisplayInv'
<1>0. /\ DisplayTypeOK /\ FrameInv /\ NothingIsLost /\ display \in Displays
      /\ sched \in Schedules /\ sync \in 0 .. SyncTicks /\ fb \in Framebuffers
      /\ fresh \subseteq Screen
  BY DEF DisplayInv, DisplayTypeOK
<1>1. missed \in BOOLEAN /\ turned \in BOOLEAN
  BY Zenon DEF DisplayInv, DisplayTypeOK
<1>2. UNCHANGED <<display, sched, sync>> /\ sleeping' = TRUE
  BY Zenon DEF do_shutdown
<1>3. device' \in Devices
  BY DisplayAssumption DEF DisplayInv, DisplayTypeOK, Devices, do_shutdown
<1>4. CASE update_display(display)
  BY Zenon, <1>0, <1>2, <1>3, <1>4, SnapshotStep
<1>5. CASE ~(device.touched > 0) /\ ~fb.dirty /\ NoSnapshot(fb, fresh, missed)
  <2>1. FrameInv' /\ NothingIsLost'
    BY Zenon, <1>0, <1>2, <1>5 DEF NoSnapshot, FrameInv, NothingIsLost, Watched
  <2>2. {sleeping', missed', turned'} \subseteq BOOLEAN
    BY Zenon, <1>1, <1>2, <1>5 DEF NoSnapshot
  <2>3. fresh' = fresh /\ fb' = fb
    BY Zenon, <1>5 DEF NoSnapshot
  <2> QED
    BY Zenon, <1>0, <1>2, <1>3, <2>1, <2>2, <2>3 DEF DisplayInv, DisplayTypeOK
<1> QED
  BY Zenon, <1>4, <1>5 DEF do_shutdown

(* A reset shows the cleared RAM.                                          *)
LEMMA ResetStep ==
  ASSUME DisplayInv, hp48_core_reset
  PROVE  DisplayInv'
<1>1. PICK d \in Displays : display' = d /\ update_display(d)
  BY Zenon, ResetLayout DEF hp48_core_reset
<1>2. device' \in Devices
  <2>1. 1 \in 0 .. DISP_INSTR_OFF /\ device \in Devices
    BY DisplayAssumption DEF DisplayInv, DisplayTypeOK
  <2>2. [device EXCEPT !.touched = 1] \in Devices
    BY <2>1 DEF Devices
  <2>3. [[device EXCEPT !.touched = 1] EXCEPT !.ann = TRUE] \in Devices
    BY Zenon, <2>2 DEF Devices
  <2> QED
    BY Zenon, <2>3 DEF hp48_core_reset
<1>3. sched' \in Schedules /\ sync' \in 0 .. SyncTicks
  BY DisplayAssumption DEF DisplayInv, DisplayTypeOK, hp48_core_reset
<1>4. sleeping' \in BOOLEAN
  BY Zenon DEF DisplayInv, DisplayTypeOK, hp48_core_reset
<1> QED
  BY Zenon, <1>1, <1>2, <1>3, <1>4, SnapshotStep

(* Time lets a frame begin only where something is waiting to be shown.    *)
LEMMA TickStep ==
  ASSUME DisplayInv, Tick
  PROVE  DisplayInv'
<1>0. /\ DisplayTypeOK /\ FrameInv /\ NothingIsLost /\ display \in Displays
      /\ device \in Devices /\ sched \in Schedules /\ fb \in Framebuffers
      /\ fresh \subseteq Screen /\ sync \in 0 .. SyncTicks
  BY DEF DisplayInv, DisplayTypeOK
<1>1. sleeping \in BOOLEAN /\ missed \in BOOLEAN /\ fb.dirty \in BOOLEAN
  BY Zenon DEF DisplayInv, DisplayTypeOK, Framebuffers
<1>2. UNCHANGED <<display, device, sched, sleeping, fresh, missed>> /\ turned' = fb.dirty
  BY Zenon DEF Tick
<1>3. /\ \A n \in 0 .. PendingTicks : Later(n, PendingTicks) \in 0 .. PendingTicks
      /\ \A n \in 0 .. QuietTicks : Later(n, QuietTicks) \in 0 .. QuietTicks
  BY DisplayAssumption DEF Later
<1>4. /\ fb' \in Framebuffers /\ fb'.dirty = fb.dirty
      /\ fb'.frame # "none" => fb.frame # "none"
  BY <1>0, <1>3 DEF Tick, Framebuffers
<1>5. sync' \in 0 .. SyncTicks
  BY <1>0, DisplayAssumption DEF Tick
<1>6. FrameInv' /\ NothingIsLost'
  <2>1. fb'.frame = "turned" => fb'.frame # "none"
    OBVIOUS
  <2> QED
    BY Zenon, <1>0, <1>2, <1>4, <2>1 DEF FrameInv, NothingIsLost, Watched
<1>7. {sleeping', missed', turned'} \subseteq BOOLEAN
  BY Zenon, <1>1, <1>2
<1> QED
  BY Zenon, <1>0, <1>2, <1>4, <1>5, <1>6, <1>7 DEF DisplayInv, DisplayTypeOK

(* The invariant is inductive.                                             *)
THEOREM DisplayInvariant == Spec => []DisplayInv
<1>1. Init => DisplayInv
  BY InitDisplay
<1>2. DisplayInv /\ [Next]_vars => DisplayInv'
  <2> SUFFICES ASSUME DisplayInv, [Next]_vars PROVE DisplayInv'
    OBVIOUS
  <2>1. CASE UNCHANGED vars
    BY Zenon, <2>1 DEF vars, DisplayInv, DisplayTypeOK, FrameInv, NothingIsLost, Watched
  <2> QED
    BY Zenon, <2>1, RegisterStep, ProgramStep, ServiceStep, ShutdownStep, ResetStep,
       TickStep DEF Next, Program
<1> QED
  BY <1>1, <1>2, PTL DEF Spec

-----------------------------------------------------------------------------
(* What the invariant gives.                                               *)

(* A row the hook watches is what the last snapshot shows, or its refresh  *)
(* is pending, or it waits for the countdown that schedule() has missed:   *)
(* for every layout a program may choose and every address it may write.   *)
THEOREM NoWriteIsForgotten == Spec => []NothingIsLost
<1>1. DisplayInv => NothingIsLost
  BY DEF DisplayInv
<1> QED
  BY DisplayInvariant, <1>1, PTL

(* While the program polls the line counter no snapshot is taken before a  *)
(* scan frame began after the first write it shows.                        *)
THEOREM SnapshotsAreBetweenFrames == Spec => SnapshotsFollowTheScan
<1>1. DisplayInv /\ [Next]_vars =>
        [display_service /\ SyncActive /\ ~fb'.dirty => turned]_vars
  <2> SUFFICES ASSUME DisplayInv, display_service, SyncActive, ~fb'.dirty PROVE turned
    OBVIOUS
  <2>1. DisplayTypeOK /\ FrameInv /\ fb.frame \in {"none", "same", "turned"}
    BY DEF DisplayInv, DisplayTypeOK, Framebuffers
  <2>2. ~NoSnapshot(Observed, fresh, missed)
    BY Zenon, <2>1, ObservedTyped DEF NoSnapshot, display_service
  <2>3. ~NoSnapshot([Observed EXCEPT !.frame = "same"], fresh, missed)
    BY Zenon, <2>1, ObservedTyped DEF NoSnapshot, display_service
  <2>4. fb.frame = "turned"
    BY <2>1, <2>2, <2>3 DEF display_service
  <2> QED
    BY Zenon, <2>1, <2>4 DEF FrameInv
<1> QED
  BY <1>1, DisplayInvariant, PTL DEF Spec, SnapshotsFollowTheScan
=============================================================================
