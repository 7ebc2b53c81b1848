------------------------- MODULE DisplayController -------------------------
(***************************************************************************)
(* The GX display controller as src/src/core emulates it: the registers a  *)
(* program writes at 0x100-0x134 (write_dev_mem), the hook that notices a  *)
(* write into the visible RAM (write_nibble_gx), the countdown that        *)
(* delays a refresh after a change of the layout (schedule and             *)
(* check_devices), and the service that turns the noticed writes into      *)
(* snapshots (display.c).                                                  *)
(*                                                                         *)
(* The screen is a function from rows to addresses.  Pixels are left out:  *)
(* "fresh" is the set of rows of the last snapshot that still show what    *)
(* the RAM holds, so a write to an address makes the rows that show it     *)
(* stale and a snapshot makes every row fresh.  A row has one visible      *)
(* nibble, its first, and the offset of its first pixel (the low bits of   *)
(* DISPIO) stays 0.  Time passes in ticks of one scan frame.               *)
(***************************************************************************)
EXTENDS Integers, FiniteSets

CONSTANTS
  Rows,               \* rows of the screen: 64
  NIBBLES_PER_ROW,    \* distance of two rows without LINE_OFFSET: 34
  Strides,            \* the distance of two rows has 12 bits: 0xfff + 1
  MenuRows,           \* rows between menu_start and menu_end: 0x110 / 34 = 8
  DISP_INSTR_OFF,     \* instructions from a change of the layout to its refresh: 16
  QuietTicks,         \* DISPLAY_WRITE_QUIET_US
  PendingTicks,       \* DISPLAY_MAX_PENDING_US
  SyncTicks,          \* how long a read of the line counter counts: 500 ms
  Never,              \* SCHED_NEVER
  Starts, LineOffsets, LineCounts, Menus,  \* what a program writes to the registers
  Written                                  \* the addresses a program writes

ASSUME DisplayAssumption ==
  /\ {NIBBLES_PER_ROW, MenuRows, DISP_INSTR_OFF} \subseteq Nat \ {0}
  /\ Strides \in Nat /\ Strides > NIBBLES_PER_ROW
  /\ Rows \in Nat /\ Rows > 1
  /\ {QuietTicks, PendingTicks, SyncTicks} \subseteq Nat \ {0}
  /\ Starts \cup LineOffsets \cup Menus \cup Written \subseteq Nat
  /\ 0 \in LineOffsets /\ LineCounts \subseteq 0 .. Rows - 1
  /\ Never \notin Int

VARIABLES
  display,    \* display_t: what update_display renders
  lineOffset, \* saturn.line_offset and the static old_line_offset
  device,     \* display_touched, ann_touched and device_check
  sched,      \* sched_display and the instructions since the last schedule()
  fb,         \* the static s_... variables of display.c
  sync,       \* ticks for which the last read of the line counter still counts
  sleeping,   \* the CPU is inside do_shutdown
  fresh,      \* rows of the last snapshot that show what the RAM holds
  missed,     \* history: a countdown ended without its refresh
  turned      \* history: a scan frame began since the first unshown write

vars == <<display, lineOffset, device, sched, fb, sync, sleeping, fresh, missed, turned>>

Screen == 0 .. Rows - 1

(* ------------------------------- the layout ---------------------------- *)

Lines(count) == IF count = 0 THEN Rows - 1 ELSE count

disp_end_short(d) == d.start + d.stride * d.lines

disp_end(d) == d.start + d.stride * (d.lines + 1)

menu_end(d) == d.menu + MenuRows * NIBBLES_PER_ROW

(* Where update_display reads row y; nothing while the display is off.     *)
RowAddress(d, y) ==
  IF ~d.on THEN Never
  ELSE IF y <= d.lines THEN d.start + y * d.stride
  ELSE d.menu + (y - d.lines - 1) * NIBBLES_PER_ROW

Unchanged(d, e) == {y \in Screen : RowAddress(d, y) = RowAddress(e, y)}
ShownAt(d, a) == {y \in Screen : RowAddress(d, y) = a}

(* ------------------------- what display.c remembers -------------------- *)

NothingSeen(d, frame) ==
  [dirty |-> FALSE, seen |-> {}, target |-> d.lines + 1, observed |-> FALSE,
   wrote |-> FALSE, pending |-> 0, quiet |-> 0, frame |-> frame]
clear_keeps_frame(d) == NothingSeen(d, fb.frame)

clear_framebuffer_dirty(d) == NothingSeen(d, "none")

mark_framebuffer_dirty(f) ==
  [f EXCEPT !.dirty = TRUE, !.wrote = TRUE, !.observed = f.dirty /\ f.observed]

Complete(f) == Cardinality(f.seen) >= f.target

mark_visible_display_nibble(f, d, a) ==
  LET marked == mark_framebuffer_dirty(f)
      relative == a - d.start
  IN  IF Complete(f) \/ d.stride = 0 \/ relative % d.stride # 0 THEN marked
      ELSE [marked EXCEPT !.seen = @ \cup {relative \div d.stride}]

(* The end of write_nibble_gx, for a RAM address.                          *)
Noticed(f, d, dv, a) ==
  LET main == IF a \in d.start .. disp_end(d) - 1
              THEN mark_visible_display_nibble(f, d, a) ELSE f
  IN  IF dv.touched > 0 THEN f
      ELSE IF d.lines # Rows - 1 /\ a \in d.menu .. menu_end(d) - 1
           THEN mark_framebuffer_dirty(main) ELSE main

SyncActive == display.on /\ sync > 0

(* -------------------------- schedule, check_devices -------------------- *)

(* schedule() subtracts the instructions since its last call from the      *)
(* countdown, and check_devices one more; a countdown that was not over    *)
(* is planned again.                                                       *)
CountedDown(dv, sc) ==
  IF dv.check /\ sc.display # Never /\ sc.steps >= sc.display /\ dv.touched > 0
  THEN IF dv.touched < sc.steps THEN 1 ELSE dv.touched - sc.steps
  ELSE dv.touched

check_devices(dv, sc) ==
  LET touched == CountedDown(dv, sc)
      left == IF touched > 0 THEN touched - 1 ELSE 0
  IN  [device  |-> [touched |-> left, ann |-> FALSE, check |-> left > 0],
       sched   |-> [display |-> IF left > 0 THEN left - 1 ELSE Never, steps |-> 0],
       refresh |-> touched = 1 \/ dv.ann,
       missed  |-> dv.touched > 0 /\ touched = 0]

schedule(dv, sc) ==
  IF dv.check THEN check_devices(dv, sc)
  ELSE [device |-> dv, sched |-> [sc EXCEPT !.steps = 0], refresh |-> FALSE, missed |-> FALSE]

Stepped == [sched EXCEPT !.steps = IF @ < DISP_INSTR_OFF /\ sched.display # Never THEN @ + 1 ELSE @]
Due(sc) == sc.display # Never /\ sc.steps >= sc.display

(* ------------------------------ snapshots ------------------------------ *)

(* update_display, and what it leaves to the next one.                     *)
update_display(d) ==
  /\ fb' = clear_framebuffer_dirty(d)
  /\ fresh' = Screen
  /\ missed' = FALSE
  /\ turned' = FALSE

NoSnapshot(f, rows, m) ==
  /\ fb' = f
  /\ fresh' = rows
  /\ missed' = m
  /\ turned' = (f.dirty /\ turned)

(***************************************************************************)
(* step_instruction and the turn of hp48_core_run after it: schedule() is  *)
(* due at the end of the countdown, at once after a register was written   *)
(* ("at_once"), and at any time for a timer.                               *)
(***************************************************************************)
Instruction(d, dv, f, rows, at_once) ==
  /\ display' = d
  /\ \/ /\ ~at_once /\ ~Due(Stepped)
        /\ device' = dv /\ sched' = Stepped
        /\ NoSnapshot(f, rows, missed)
     \/ LET after == schedule(dv, Stepped)
        IN  /\ device' = after.device /\ sched' = after.sched
            /\ IF after.refresh THEN update_display(d)
               ELSE NoSnapshot(f, rows, missed \/ after.missed)

Touched == [device EXCEPT !.touched = DISP_INSTR_OFF, !.check = TRUE]
Checked == [device EXCEPT !.check = TRUE]

(* A register write that changes the layout to d, or does not.             *)
Relayout(d) ==
  Instruction(d, IF d = display THEN Checked ELSE Touched, fb,
              fresh \cap Unchanged(display, d), TRUE)

(* ------------------------------- actions ------------------------------- *)

Init ==
  /\ lineOffset = [now |-> 0, old |-> -1]
  /\ \E start \in Starts, menu \in Menus :
       display = [on |-> FALSE, start |-> start, stride |-> NIBBLES_PER_ROW,
                  lines |-> Rows - 1, menu |-> menu]
  /\ device = [touched |-> 1, ann |-> TRUE, check |-> FALSE]
  /\ sched = [display |-> Never, steps |-> 0]
  /\ fb = NothingSeen(display, "none")
  /\ sync = 0 /\ sleeping = FALSE
  /\ fresh = Screen /\ missed = FALSE /\ turned = FALSE

(* An instruction that touches neither the screen nor a register.          *)
OtherInstruction ==
  /\ ~sleeping
  /\ Instruction(display, device, fb, fresh, FALSE)
  /\ UNCHANGED <<lineOffset, sync, sleeping>>

write_nibble_gx(a) ==
  /\ ~sleeping
  /\ Instruction(display, device, Noticed(fb, display, device, a),
                 fresh \ ShownAt(display, a), FALSE)
  /\ UNCHANGED <<lineOffset, sync, sleeping>>

(* 0x100: switching the display on restarts the line counter.              *)
WriteDispIo(on) ==
  /\ ~sleeping
  /\ LET restarted == on # display.on
         d == [display EXCEPT !.on = on]
     IN  /\ Instruction(d, IF restarted THEN Touched ELSE Checked,
                        IF restarted THEN [fb EXCEPT !.frame = "none"] ELSE fb,
                        fresh \cap Unchanged(display, d), TRUE)
         /\ sync' = IF restarted /\ on THEN 0 ELSE sync
  /\ UNCHANGED <<lineOffset, sleeping>>

(* 0x120-0x124, 0x128-0x129 and 0x130-0x134.                               *)
WriteDispAddr(start) ==
  /\ ~sleeping
  /\ Relayout([display EXCEPT !.start = start])
  /\ UNCHANGED <<lineOffset, sync, sleeping>>

(* The count is compared before 0 becomes Rows - 1.                        *)
WriteLineCount(count) ==
  /\ ~sleeping
  /\ LET d == [display EXCEPT !.lines = Lines(count)]
     IN  Instruction(d, IF count = display.lines THEN Checked ELSE Touched, fb,
                     fresh \cap Unchanged(display, d), TRUE)
  /\ UNCHANGED <<lineOffset, sync, sleeping>>

WriteMenuAddr(menu) ==
  /\ ~sleeping
  /\ Relayout([display EXCEPT !.menu = menu])
  /\ UNCHANGED <<lineOffset, sync, sleeping>>

(* 0x125-0x127: compared with a static variable that no reset touches, and *)
(* any difference counts as a change of the layout.  An offset is negative *)
(* modulo 2^12, so the distance may even become 0.                         *)
WriteLineOffset(offset) ==
  /\ ~sleeping
  /\ lineOffset' = [now |-> offset, old |-> offset]
  /\ LET d == [display EXCEPT !.stride = (NIBBLES_PER_ROW + offset) % Strides]
     IN  IF offset = lineOffset.old
         THEN Instruction(display, Checked, fb, fresh, TRUE)
         ELSE Instruction(d, Touched, fb, fresh \cap Unchanged(display, d), TRUE)
  /\ UNCHANGED <<sync, sleeping>>

(* 0x10b-0x10c, and every register the display does not depend on.         *)
WriteAnnunciators ==
  /\ ~sleeping
  /\ Instruction(display, [Checked EXCEPT !.ann = TRUE], fb, fresh, TRUE)
  /\ UNCHANGED <<lineOffset, sync, sleeping>>

WriteOtherRegister ==
  /\ ~sleeping
  /\ Instruction(display, Checked, fb, fresh, TRUE)
  /\ UNCHANGED <<lineOffset, sync, sleeping>>

display_line_counter_read ==
  /\ ~sleeping
  /\ sync' = SyncTicks
  /\ Instruction(display, device, fb, fresh, FALSE)
  /\ UNCHANGED <<lineOffset, sleeping>>

(* display_service(0).  The instruction counts it compares can only make a *)
(* refresh earlier: "fallback" says that one of them has run out.          *)
Observed ==
  IF ~fb.observed
  THEN [fb EXCEPT !.observed = TRUE, !.wrote = FALSE, !.pending = 0, !.quiet = 0]
  ELSE IF fb.wrote THEN [fb EXCEPT !.wrote = FALSE, !.quiet = 0] ELSE fb

not_yet_without_limit(f, fallback) ==
  ~Complete(f) /\ ~fallback /\ f.quiet < QuietTicks

NotYet(f, fallback) ==
  ~Complete(f) /\ ~fallback /\ f.quiet < QuietTicks /\ f.pending < PendingTicks

display_service ==
  /\ ~sleeping /\ fb.dirty
  /\ IF SyncActive
     THEN CASE fb.frame = "none" -> NoSnapshot([Observed EXCEPT !.frame = "same"], fresh, missed)
            [] fb.frame = "same" -> NoSnapshot(Observed, fresh, missed)
            [] OTHER -> update_display(display)
     ELSE \E fallback \in BOOLEAN :
            IF NotYet(Observed, fallback) THEN NoSnapshot(Observed, fresh, missed)
            ELSE update_display(display)
  /\ UNCHANGED <<display, lineOffset, device, sched, sync, sleeping>>

(* do_shutdown: a pending layout and the noticed writes are shown before   *)
(* the CPU stops.                                                          *)
do_shutdown ==
  /\ ~sleeping
  /\ sleeping' = TRUE
  /\ device' = [device EXCEPT !.touched = 0]
  /\ IF device.touched > 0 \/ fb.dirty THEN update_display(display)
     ELSE NoSnapshot(fb, fresh, missed)
  /\ UNCHANGED <<display, lineOffset, sched, sync>>

Wake ==
  /\ sleeping
  /\ sleeping' = FALSE
  /\ Instruction(display, device, fb, fresh, FALSE)
  /\ UNCHANGED <<lineOffset, sync>>

(* hp48_core_reset: the registers and the RAM are cleared and init_display *)
(* shows them; old_line_offset, device_check and sched_display survive.    *)
hp48_core_reset ==
  /\ ~sleeping
  /\ \E start \in Starts, menu \in Menus :
       LET d == [on |-> FALSE, start |-> start, stride |-> NIBBLES_PER_ROW,
                 lines |-> Rows - 1, menu |-> menu]
       IN  display' = d /\ update_display(d)
  /\ lineOffset' = [lineOffset EXCEPT !.now = 0]
  /\ device' = [device EXCEPT !.touched = 1, !.ann = TRUE]
  /\ sync' = 0
  /\ UNCHANGED <<sched, sleeping>>

Later(n, limit) == IF n < limit THEN n + 1 ELSE n

Tick ==
  /\ fb' = [fb EXCEPT !.pending = IF fb.observed THEN Later(@, PendingTicks) ELSE @,
                      !.quiet = IF fb.observed THEN Later(@, QuietTicks) ELSE @,
                      !.frame = IF @ = "same" /\ display.on THEN "turned" ELSE @]
  /\ sync' = IF sync > 0 THEN sync - 1 ELSE 0
  /\ turned' = fb.dirty
  /\ UNCHANGED <<display, lineOffset, device, sched, sleeping, fresh, missed>>

Program ==
  \/ OtherInstruction
  \/ \E a \in Written : write_nibble_gx(a)
  \/ \E on \in BOOLEAN : WriteDispIo(on)
  \/ \E start \in Starts : WriteDispAddr(start)
  \/ \E offset \in LineOffsets : WriteLineOffset(offset)
  \/ \E count \in LineCounts : WriteLineCount(count)
  \/ \E menu \in Menus : WriteMenuAddr(menu)
  \/ WriteAnnunciators
  \/ WriteOtherRegister
  \/ display_line_counter_read
  \/ do_shutdown

Next == Program \/ display_service \/ Wake \/ hp48_core_reset \/ Tick

(* hp48_core_run calls display_service every 4096 instructions and at its  *)
(* end, and pace_saturn between two quanta; time passes.  The program and  *)
(* what wakes it are free.                                                 *)
Fairness == WF_vars(display_service) /\ WF_vars(Tick)
Spec == Init /\ [][Next]_vars /\ Fairness

(* ------------------------------ properties ----------------------------- *)

Displays == [on : BOOLEAN, start : Nat, stride : 0 .. Strides - 1, lines : 1 .. Rows - 1, menu : Nat]
Devices == [touched : 0 .. DISP_INSTR_OFF, ann : BOOLEAN, check : BOOLEAN]
Schedules == [display : 0 .. DISP_INSTR_OFF \cup {Never}, steps : 0 .. DISP_INSTR_OFF]
Framebuffers ==
  [dirty : BOOLEAN, seen : SUBSET Screen, target : Nat, observed : BOOLEAN, wrote : BOOLEAN,
   pending : 0 .. PendingTicks, quiet : 0 .. QuietTicks, frame : {"none", "same", "turned"}]

DisplayTypeOK ==
  /\ display \in Displays /\ device \in Devices /\ sched \in Schedules
  /\ fb \in Framebuffers
  /\ sync \in 0 .. SyncTicks /\ fresh \subseteq Screen
  /\ {sleeping, missed, turned} \subseteq BOOLEAN

(* The rows the write hook watches: the main area and MenuRows rows of the *)
(* menu; with fewer than 56 main lines the screen shows more menu rows.    *)
(* With a distance of 0 every main row is read at disp_start, disp_end is  *)
(* there too, and the hook sees no write into the main area.               *)
Watched ==
  {y \in Screen : y <= display.lines + MenuRows /\ (display.stride = 0 => y > display.lines)}

(* Whenever a watched row of the last snapshot is out of date, something   *)
(* is pending that will refresh it: the dirty mark or the countdown of a   *)
(* new layout.  So a sleeping HP, whose mark and countdown are cleared,    *)
(* shows its RAM.  The countdown may end without its refresh (missed) when *)
(* a second change falls on the instruction on which the first one's       *)
(* countdown is over: schedule() then leaves 1 and subtracts 1 from it.    *)
NothingIsLost == Watched \subseteq fresh \/ fb.dirty \/ device.touched > 0 \/ missed

(* While the program polls the line counter, display_service takes no      *)
(* snapshot before a scan frame began after the first write it shows, so   *)
(* no snapshot of the frame in which the program is drawing.               *)
SnapshotsFollowTheScan == [][display_service /\ SyncActive /\ ~fb'.dirty => turned]_vars

(* A program that has settled on a layout has its writes shown again and   *)
(* again however fast it draws and whether or not it polls the counter.    *)
WritesReachThePanel ==
  <>[][display' = display /\ device'.touched <= device.touched]_vars => []<>(~fb.dirty)

(* ------------------------ the inductive invariant ---------------------- *)

(* A frame is waited for only while there is something to show, and it has *)
(* turned only after the first write that a snapshot will show.            *)
FrameInv ==
  /\ fb.frame # "none" => fb.dirty
  /\ fb.frame = "turned" => turned

DisplayInv == DisplayTypeOK /\ FrameInv /\ NothingIsLost
=============================================================================
