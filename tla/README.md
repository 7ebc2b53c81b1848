# Verification of the PicoCalc HP 48GX emulator

This directory holds TLA+ models of the emulator in `src/`, the TLC
configurations that check them and proofs checked by TLAPS. Paths below are
relative to the repository's `src/` folder (`platform/port2_card.c` and so on).

## The system

| component | state it keeps | operations | what makes it correct |
|---|---|---|---|
| virtual RAM card (`platform/port2_card.c`, `core/core_runtime.c`) | selected slot, card image, dirty flag; on the SD card `PORTn.CRD/.NEW/.BAK`, `PORTn.MODE` | `port2_card_init`, `port2_card_save`, nibble writes | no committed image is lost, no user file touched, no state wedges saving |
| storage (`platform/storage.c`) | mount state, status | `storage_init`, `storage_shutdown` | ready means usable |
| flash snapshot (`platform/state.c`, `main.c`) | header sector, RAM pages | `state_save`, `state_load`, `state_clear` | CPU, RAM and card of one moment |
| OFF sequence (`platform/power_sequence.c`, `keyboard.c`) | stage, attempts, two deadlines | `power_sequence_start/poll/reset` | ordered, long enough key presses, bounded, nothing left down |
| keyboard (`platform/keyboard.c`, `held_keys.c`, `prefix_sequence.c`) | modifiers, pending context, held keys, prefix sequence, request flags | `keyboard_poll`, `handle_event` | no key stuck, no tap lost, prefix before action |
| Saturn core (`core/emulate.c`, `actions.c`, `register.c`, `memory.c`) | registers, return stack, memory controller, interrupt flags | one instruction, `schedule` | interrupts neither lost nor nested, arithmetic exact, returns to their calls, one place per address |
| devices and timers (`core/device.c`, `timer.c`) | timer registers, schedule counters | register reads and writes, `schedule` | timers keep time through sleep |
| display (`core/display.c`, `platform/lcd.c`) | display registers, dirty rows | writes, `display_service` | the panel ends up showing the RAM |
| object files (`core/rpl_object.c`, `platform/object_files.c`) | selected file, stack pointers | import, export, cycle | a file is imported whole or not at all |
| pacing and sound (`platform/realtime_pacer.c`, `sound*.c`) | accumulated time, edge queue | account, delay, interrupt handler | no drift, no overrun |
| user interface (`platform/platform_ui.c`) | cursor, status line | drawing, cursor moves | cursor on a key |

Everything runs in one thread of one core: `main()` calls the Saturn core for a
quantum of instructions and then polls the keyboard; when the HP sleeps
(`SHUTDN`), the core itself polls the keyboard until an interrupt. The hard
behaviour comes from the outside: power cuts at any moment, SD calls that fail,
a keyboard controller that reports events late, an HP ROM that reacts when it
likes, and millisecond clocks that wrap.

Flow of a save: `keyboard.c` -> `state_save` -> `port2_card_save` (FatFs) ->
flash. Flow of OFF: `keyboard.c` -> `state_save` -> `power_sequence` -> key
matrix -> HP ROM -> LCD off -> PMU.

## Modules

### CardStore

`port2_card.c` on FatFs. One action per FatFs call that changes the SD card, so
a power cut (`PowerLoss`) can come between any two; calls that only read are
part of the action that uses their result. `pc` is the place in
`port2_card_init`, `recover_missing_image` or `port2_card_save`; `slot`,
`attached`, `image`, `dirty` and `status` are the statics of `port2_card.c` and
`core_runtime.c`; `files` and `markers` are the SD card, `ready` and `mounted`
the two flags of `storage.c`. Images are numbers that grow with each edit, so
"newer" has a meaning; a file that is not a card image is `BadSize`.

External and assumed: `f_rename` and `f_unlink` take effect at once and whole,
or leave the files alone; `f_open` with `FA_CREATE_ALWAYS` leaves a short file;
a write is complete only after `f_sync`, although an error of `f_sync` or
`f_close` may come after the data is there. The SD card and the marker files
are changed by the user only while power is off.

History variables: `promised` (the image last reported as safe, per slot) and
`calm` (no call failed since this boot or save began).

### CardPromise, CardStoreRefinement

`CardPromise` states what the card promises without files: per slot one durable
image, one promised image, and the memory. `CardStoreRefinement` instantiates it
with `durable` being what the next undisturbed boot would find.

### Persistence

Extends `CardStore` with the flash snapshot: `header` and `pages` are erased and
programmed in three actions (`EraseFlash`, `ProgramHeader`, `ProgramPages`), with
cuts between them. CPU and RAM contents are numbered from the same clock as the
card images. A header records which RAM it goes with (the CRC of the code); two
different RAM contents are assumed to have different CRCs, and
`flash_layout_ok()` to be true.

### PowerSequence, PowerOff

`PowerSequence` is the struct and the functions of `power_sequence.c`.
`PowerOff` is its caller in `keyboard.c`: requests, the teal and ON keys of the
matrix, the PMU. The HP ROM (when the LCD is on) is free. The user's own keys
share the matrix and may press or release teal and ON at any time (`UserKey`);
`disturbed` remembers that they did, and the properties about the sequence's
keys are about undisturbed sequences. `snapshot` is what became of the save of the last
request: "refused" and "canceled" when it failed for the power key and for the drawn OFF.
The latter ends a sequence under way without releasing its key, so
`KeysReleasedWhenDone` claims nothing after it (see Findings).

### HeldKeys, PrefixSequence, Keyboard

`HeldKeys` is the table of `held_keys.c` as a function from the HP codes that are
held to their slots; `PrefixSequence` the struct and functions of
`prefix_sequence.c`. `Keyboard` is their caller `keyboard.c`: `keyboard_poll`
with the order in which a poll looks at its five kinds of work
(`OffPoll`, `ReleasePoll`, `PrefixPoll`, `WarmPoll`, one event), one action per
branch of `handle_event`, and what `main()` does with the requests (`TakeRequest`,
`ImportWakeUp`).

| variable | code |
|---|---|
| `matrix` | `saturn.keybuf`, as the set of codes that are down |
| `held`, `prefix` | `s_held_keys`, `s_prefix_sequence` |
| `pending`, `text` | `s_pending_context_code`, `s_text_mode` (Alpha Lock) |
| `follow`, `caps` | `s_follow_controller_caps`, the controller's lock bit |
| `nav`, `nav_poweroff` | `s_nav_active_code`, `s_nav_poweroff_active` |
| `shift_used`, `arrow`, `chord` | `s_lshift_used`/`s_rshift_used`, `s_arrow_key_mode`, `s_warm_start_chord` |
| `warm`, `warm_left`, `off` | `s_warm_start_pending`, its deadline, `s_poweroff` (its keys only) |
| `requests`, `import_wake` | the request flags, `s_import_wake_down` of `main.c` |
| `fingers`, `due`, `users` | the keys whose press was delivered and whose release was not (this gives `s_ctrl`, `s_alt`, `s_lshift`, `s_rshift`); the poll period; history: the actions that used the pending context |

Abstractions. The controller keeps its events in order, so the model delivers any
event that can follow the ones delivered before; the repeats of a held key
(`K_HOLD`) change nothing in the branches modelled. A release is reported under the
code of its press. One key stands for each group the code treats alike. The HP
ROM shows any annunciator at any time (`latched`), and its LCD is on or off as it
likes. The OFF sequence is reduced to the keys it presses, at any poll; `PowerOff`
has its detail. A unit of time is the 15 ms poll period.

### SaturnSleep

The one thread: `main()`, the quantum of `hp48_core_run`, and `SHUTDN`. `place`
is where the thread is (in the core, in the rest of the main loop, in
`pace_saturn`), `quantum` the instructions left, `sleeping` is
`hp48_core_sleeping`, `halted` is `enter_debugger`.

| variable | code |
|---|---|
| `cpu` | `saturn.intenable`, `saturn.int_pending`, the return addresses pushed by interrupts (`frames`), and the instructions the handler still has (`busy`) |
| `kbd_ien`, `out_zero` | `saturn.kbd_ien`, `OUT` is zero |
| `keys` | `saturn.keybuf`: ON, and one key for the others |
| `control` | the low three bits of `t1_ctrl` and `t2_ctrl` |
| `requests`, `import_wake` | the request flags of `keyboard.c`, `s_import_wake_down` |
| `got_alarm` | `got_alarm`, which only a boot and `pause()` set |

One instruction is one action: any instruction that changes nothing here, those
that change the interrupt state (`INTON`, `INTOFF`, `OUT=`, `RSI`, `RTI`, `SHUTDN`,
a write to a timer's control), and an illegal one. `schedule()` is
`TimerInterrupt` and `FirstAlarm`; one turn of the loop of `do_shutdown` is
`SleepTurn`, with `GetEvent`, the import and both timers in the order of the code.
A poll delivers nothing or one event.

External and assumed of the ROM: its handler returns only after `HandlerLength`
instructions, which is at least a quantum, it executes `RTI` in its handler only, and
`SHUTDN` outside of it only. The last matters: `SHUTDN` clears a pending interrupt when `OUT`
is zero, and would drop it. The first excludes that a request of `main()`, made
while `pace_saturn` polls, is answered by a handler that ends and sleeps again
within the quantum; without it the request waits for the next wake. A timer reaches
zero whenever it likes, so the counters of `schedule()` and the service-request bits
are left out. Serial input never interrupts (`receive_char` is empty here).
`saturn` is restored by a boot in or outside of the handler, with any keys down.

### RplObject, RplTransfer, ObjectFiles

`RplObject` has `object_size` as a recursive function over its own calls (`Spans`: what is
measured, where, how much may be read, the depth), and the RPL pointers kept in the HP's
RAM. `SizeOf` is one call. Sizes are scaled: a cell is a nibble, and a five-nibble word is
`Word` cells (two in the run) with its value in the first. `DOREAL` stands for all
prologs of fixed length, an odd number of cells as a real's 21 nibbles, and `DOCSTR` for
all that carry their length; lists, directories, tagged objects and names (`DOIDNT`, which
the code measures as it does `DOTAG`) are as in the code.

`RplTransfer` has one operator per function of `rpl_object.c`, giving the HP, the
transfer record and the status it returns. The moves of the return stack are the
loops of the code, cell by cell in their order, because the two areas overlap.
`GARBAGECOL` is the ROM's: `TempBlocks` is its walk of temporary memory, from `TEMPTOP` down
from size word to size word, `Compacted` is what it leaves when it completes, and
`HalfCompacted` the RAM of one that is stopped by `GC_INSTRUCTION_BUDGET`, after which
the code restores the CPU but not the RAM.

`ObjectFiles` composes them with `object_files.c` and the SD card: one action per FatFs
call that can change a file or fail, `PowerCut` between any two, and the ROM (`Drop`,
`Pick`) between transfers only, as `SaturnSleep` shows. `job` is where in the running
transfer the code is.

| variable | code |
|---|---|
| `hp` | RAM, `TEMPTOP`, `RSKTOP`, `DSKTOP`, `EDITLINE`, `AVMEM` |
| `selected`, `status` | `s_selected`, the result returned |
| `final`, `temp` | `STKnnn.48G` and `STKnnn.NEW` of the OUTBOX |
| `transfer`, `export` | `hp48_rpl_import_t`, `hp48_rpl_export_t` |
| `torn` | history: a collection was stopped half way |

`InOrder` says what the collector relies on: the blocks of the walk lie end to end from the
start of the memory to `TEMPTOP`, every level of the stack is the start of one of them,
and `AVMEM` is what is free. `BootHp`, the HP after a restart, is any HP in order, with
whatever objects on its stack.

`ObjectExchange` is the abstract specification: stacks of objects and an OUTBOX of
objects, on which an import is one step that pushes a whole object, an export one
step that adds a whole file under a free name, and a transfer that fails changes
nothing. What an export makes of an object is the function `Exported`, which is not defined
for an object whose end `object_size` does not find: what its file holds is left open, as is whether
it is refused. `ObjectFiles` refines it: its stacks are the cells of the blocks that the
levels refer to, as they lie in the RAM, and the cells of the return stack. A file holds an
object in whole bytes, with a last nibble of zero if need be (`Packed`).

`Verdict` is about `object_size`: of the files it accepts just those that hold one object
(`HoldsObject`, from the grammar of objects, names among them), and of the blocks on the
stack it finds all; what ends in a name (`EndsInName`) is excepted, since the code
measures that wrongly. `Whole` asks `object_size` about cells by themselves, wherever
they lie, and `Measured` are the objects it then takes for one.

### DisplayController

The display registers of `write_dev_mem`, the hook at the end of `write_nibble_gx`, the
countdown of a new layout in `schedule()` and `check_devices`, and `display.c`. A row of
the screen is its address (`RowAddress`); `fresh` is the set of rows of the last
snapshot that still show the RAM. The distance of two rows is taken modulo `Strides`
(`& 0xfff`) and may be 0, with which the hook watches no main row. A row has one nibble,
and the pixel offset stays 0.

| variable | code |
|---|---|
| `display`, `lineOffset` | `display_t`; `saturn.line_offset` and the static `old_line_offset` |
| `device`, `sched` | `display_touched`, `ann_touched`, `device_check`; `sched_display` and the instructions since the last `schedule()` |
| `fb`, `sync` | the static variables of `display.c`; how long a read of the line counter counts |
| `fresh`, `missed`, `turned` | history: see the properties |

Every instruction of the program is one action followed by the turn of
`hp48_core_run` (`Instruction`): `schedule()` runs when the countdown is over, at once
after a register write, and at any time for a timer. Time is counted in scan frames.

### RegisterOps, Registers, ReturnStack

`RegisterOps` translates `register.c`: the loops over the digits of a field are recursive
functions (`Chain`). `Registers` has one action per kind of instruction of `emulate.c`
that computes with `A`-`D`, with the registers each opcode names (`Sums`, `Mixed`,
`Reversed`, ...), the fields, the base, `CARRY` and `SB`. `Meaning` says for each instruction
what it is for the numbers the field holds, with ordinary arithmetic, and `Frame`
that nothing else changes. In decimal mode this is claimed of fields that hold
decimal digits, of which the program has to take care.

`ReturnStack` is `push_return_addr` and `pop_return_addr` with their callers, beside an
unlimited stack of calls as history.

### MemoryController

`CONFIG`, `UNCNFG` and `RESET` of `actions.c`, the three address decoders of the GX in
`memory.c` as operators from an address to the place it selects, the bank switch, and
the card of `core_runtime.c` in its port with `s_card_dirty`. What the ROM, RAM and
devices hold is left out. Addresses are the program's own.

## Runs

Each run's configuration names its bounds.

| run | question | result |
|---|---|---|
| `card_store` | the six card properties and the refinement of `CardPromise`; 2 faults, 2 cuts, 3 edits | holds |
| `persistence` | snapshot and card together; 3 faults, 1 cut | holds |
| `power_off` | order, hold times, end and safety of the OFF sequence, its keys released when it ends by itself; two OFF requests | holds |
| `keyboard_typing` | no key stuck, lost, merged or too short; one-shot contexts | holds |
| `keyboard_shortcuts` | each bit of the matrix has an owner that is to release it under Ctrl shortcuts, arrow lock, reset and import; ON of an import is owned by `main()` | holds |
| `keyboard_live` | waits, prefix sequences and warm starts end | holds |
| `sleep` | interrupts, `SHUTDN`, timers, imports and requests around the main loop | holds |
| `import` | imports and exports refine `ObjectExchange`; memory in order; `object_size` right about files and exports that do not end in a name | holds |
| `display` | no visible write is forgotten; snapshots follow the scan; the panel keeps up | holds |
| `registers` | every instruction computes its number; the return stack keeps the innermost calls | holds |
| `memory` | the decoders agree; every changed byte of the card is saved | holds |
| `keyboard_stuck` | no key stuck when Ctrl is pressed as well | violated |

The type invariants (`TypeOK`, `PersistenceTypeOK`, ..., `DisplayTypeOK`), `CardInv` and
`ShutdnDropsNothing` are stated in their modules and not repeated in the runs; those
with a theorem are listed under Proofs.

Bounds. A lost image needs at most two independent events (a fault and a cut, two
cuts); the split save needs three faults (promote, restore, clean up), which is
why `persistence` has three. Four image numbers give three edits: one to be
promised, one to replace it, one that is lost. The clock of the OFF sequence is
scaled down with its delays and wraps several times in a run; two polls are at
most two ticks apart; two attempts include a retry.

The keyboard has two slots for held keys (eight in the code) and up to three keys
down at once, so that the table overflows. A key is held for at least three
polls (five in the code, 75 ms): more than the two a quick tap takes anyway. The
Backspace of games is held one poll longer than that. The waits of the prefix
sequence are one poll each with two attempts: every transition, and the retry,
happens. The keys are split over the runs by what interacts: contexts, drawn keys
and OFF in `keyboard_typing`; Ctrl, the arrow mode and `main()` in
`keyboard_shortcuts`; Alt+Esc, OFF and Caps Lock in `keyboard_live`, where the time
limit of a warm start exceeds a whole prefix sequence as it does in the code.
`NoStuckKey` is not checked with Ctrl or Alt: there it does not hold (below).

`sleep` has a quantum of two instructions (`CORE_RUN_QUANTUM` is 256) and a handler
of two: an interrupt, a return and a `SHUTDN` fall into one quantum or into two. A
timer is off, running with its interrupt, or allowed to wake only. "main" stands for
every request but a reset and an import. Nothing else is bounded.

`import` has an HP of 50 cells with two blocks in temporary memory, one of them
garbage and the other a name on level 1, and a return stack longer than the smallest allocation, so that the copies
overlap, and levels of an odd number of cells; two imports, one export, and an INBOX with a file for each thing an import
tells apart (a spare nibble, a directory with a list of a name and a tagged object, a list
without its end, two objects, a lone name, a name and an object, a bad header, a wrong file
name, a folder). Some allocations fit, some need a
collection, some do not fit at all. A VIEW leaves out what is in free memory, which is
written before it is read. One export is enough since a file in the OUTBOX is never
opened again.

`display` has four rows with a main area of two or four, a menu of which one row is
watched and one is not, two pages, three distances of which one wraps to 0, and a countdown of three
instructions (16): a second change falls on every point of the first one's countdown.
The quiet time is one frame, the longest wait two and the counter's memory one.

`registers` has three digits of four values with three as the decimal base, two
registers, the pointer field, the field up to the pointer and one that leaves the
lowest place out; with them every instruction is executed from every state of the two
registers that the instructions reach. The return stack has two places (eight) and
five calls. The two share no state: one is explored while the other is as it was at
the start, and a VIEW leaves out the instruction and `CARRY`, which no guard reads.

`memory` configures each controller at the addresses the decoders know with the
smallest and the largest size, in every order the code allows, with the addresses on
both sides of each boundary; the card is one byte, which a bank aliases.

Fairness. `sleep` assumes that the thread goes on: the core executes, a quantum that
is over returns, the main loop and the `SHUTDN` loop turn, `pace_saturn` ends (its
delay is bounded), and that the ROM returns from its handler (strong fairness,
since other instructions come between). It does not assume that a key or a timer
ever wakes the HP. `display` assumes that `display_service` is called again and again
(`hp48_core_run` calls it every 4096 instructions and at its end) and that time passes; nothing of the
program. `power_off` assumes that `keyboard_poll` is called again and again
(the main loop and the `SHUTDN` loop both do) and that the bounded waits of
`request_system_poweroff` end. The number of OFF requests is bounded, since a
user who presses OFF again and again restarts the sequence. `keyboard_live`
assumes time passes and that the polls that are due to release a key, advance a
prefix sequence or end a warm start happen, again because `keyboard_poll` is
called for ever. Nothing is assumed of the user or the HP ROM.

## Proofs

Each of the eight proof modules extends the module it is about. The theorems hold for
every value of the constants that the named assumptions admit; what an assumption
excludes is said with it. TLC checked every inductive invariant on the run's instance
before it was proved.

`PersistenceProofs` proves for every number of edits, faults and cuts, assuming only
that the three bounds are numbers and that the two sentinels are not
(`BoundsAssumption`, `FileAssumption`):

- `Typed`: `TypeOK`.
- `CardInvariant`: `CardInv`, the inductive invariant. `Durable` alone is not
  inductive: that an image survives a step depends on where it is. `SlotInv`
  says it is in CRD or, while CRD is away, in BAK, and that NEW is never older;
  `MemoryInv` that the image in memory, which a save will promise, is not older
  than the promise; `ControlInv` what each step of a save or repair knows of
  the files.
- `CardIsDurable`, `CleanIsSaved`: from the invariant.
- `ForeignImageIsSafe`, `BackupIsCommitted`: action properties, from the
  invariant and the steps that write files (`Writers`).
- `FaultInvariant`, `SavesCannotWedge`, `BootsCannotWedge`: nothing that an earlier
  failure or cut left makes a save or a boot fail. `FaultInv` adds to `CardInv` that the
  failing branches of a save are reached by a failing call only, that BAK (or CRD) is
  away before a rename needs its name, and that what a boot remembers of NEW is
  still so.
- `CardKeepsItsPromise`: the refinement of `CardPromise`. The initial state maps to its
  initial state; each FatFs call, fault and repair maps to one of its steps or to a
  stutter. What the next boot finds (`durable`) is the hard part: it stays as it is
  through the renames, and moves at the call that makes the new image findable.

and extends them to the flash, for the same constants (`FlashAssumption`,
`HeaderAssumption`: the value of an erased sector is no image and no header):

- `PersistInvariant`: `PersistInv`. Next to `CardInv` it says which parts of the flash are
  good at each step of the update (`FlashInv`), that a boot keeps the header it loaded
  (`BootInv`), that what was resumed is of the attached slot (`LoopInv`), and that the
  card of a header was promised and is the promised one unless a cut, a recovery or a
  save that goes on came between (`PairInv`, `AgreeInv`).
- `MemoryIsOfOneMoment`, `CardFitsSnapshot`, `SnapshotIsKept`, `SplitOnlyAfterCut`.

`PowerOffProofs` proves for every clock range, delays of less than half of it, and
numbers of attempts and requests (`DelayAssumption`, `GapAssumption`):

- `PowerInvariant`: `PowerInv`. Undisturbed, a key is down in its own stage exactly, or is the
  one a canceled sequence left (`KeyInv`); what started a sequence was saved (`SnapshotInv`); and the time since the last
  transition plus the time left, both modulo the clock, are the delay of the stage
  (`TimeInv`), which is what makes the comparison by difference right across a wrap.
- `NoChord`, `PowerIsCutSafely`, `KeysAreReleased` (but for a sequence canceled by a drawn
  OFF whose save failed), and the action property `KeysAreHeld`.

`KeyboardProofs` proves for every choice of keys and drawn keys, capacity of the table
and duration (`KeyboardAssumption`, `CapacityAssumption`, `PrefixAssumption`: positive numbers).
Without further hypothesis:

- `KeyInvariant`: `KeyInv`, that is the types (among them that the table never holds more
  keys than it has slots), a prefix that is up while its sequence waits for the latch
  (`PrefixInv`), and held actions that remember that they end their context (`UserInv`).
- `OneShotEnds`, `PrefixIsUp`, `HeldLongEnough`.

Under a condition on the behaviour, because the code does not have the property in
the behaviours it excludes (see Findings):

- `OwnerInvariant`, `EveryBitIsOwned`: in every behaviour in which Alt+Esc does not find the
  drawn OFF still flagged (`WarmStartFindsNoDrawnOff`). `start_warm_start` leaves
  `s_nav_poweroff_active` set, and the next release of Space then forgets the key it is on.
- `FingerInvariant`, `NoKeyIsStuck`, `TapsAreEdges`: in every behaviour in which no key is
  down together with a modifier that changes it (`ModifiersAlone`). All typing, with any
  number of fingers, contexts, drawn keys and OFF requests, and Ctrl or Alt with
  other keys, satisfies it; the behaviour of `keyboard_stuck` does not. The hypothesis is
  about the user only. `OwnerInv` and `FingerInv` say which key or request will release
  what is down; a dropped release breaks them.
- `EveryBitIsOwnedWithoutAlt`, `NoKeyIsStuckWithoutModifiers` and
  `TapsAreEdgesWithoutModifiers`: the same without a condition for the keyboards that lack
  Alt, or Ctrl and Alt, as in the runs that check these properties.

`SaturnSleepProofs` proves for every quantum, handler length and set of timer
controls (`SleepAssumption`: numbers, and sets of bits):

- `SleepTyped`, `HandlerIsNotReentered`: from the inductive invariant `SleepInv`. It
  adds to the types that the Saturn is `Sound` (one return address exactly while
  interrupts are disabled, and pending only then) and that the HP sleeps in the core
  only. The lemmas `InteruptIsSound`, `KbdIntIsSound`, `ReturnIsSound` and
  `SteppedIsSound` say that each function of the interrupt system keeps it.
- `ShutdnIsSafe`: outside of the handler nothing is pending.
- `SleepsUndisturbed`: an event or a timer that changes the Saturn ends the sleep.
- `ImportsWhileAsleep`: an import is taken in `SHUTDN` only and leaves the HP in its
  handler.

`DisplayProofs` proves for every screen of more than one row, every set of addresses,
distances, menus and layouts, and every quiet and waiting time (`DisplayAssumption`):

- `DisplayInvariant`: `DisplayInv`, that is the types, `NothingIsLost` (inductive but for
  `missed`) and `FrameInv`: a frame is waited for only while something is dirty, and has
  turned when the code says so. The lemmas on `RowAddress` are about the arithmetic of the
  write hook: a write to a row the hook watches hits its range of addresses, whatever
  the distance between the rows.
- `NoWriteIsForgotten`, `SnapshotsAreBetweenFrames`.

`ReturnStackProofs` proves for every size of the stack, set of addresses and depth:

- `StackTyped`: `StackTypeOK`.
- `StackKeepsInnermostCalls`: `InnermostCallsAreKept`, which is inductive with the types. A
  push on a full stack is the hard case: the array moves down as the history forgets
  its oldest call.

`MemoryProofs` proves for every set of addresses, configurations, nibbles and bytes:

- `CleanCardTheorem`: `CleanCardIsSaved`, with `CardTyped` as its strengthening.
- `PortsFollowTheSlot`: the two flags a write looks at say where the card is, which is what
  a read looks at.
- `DecodersAgreeTheorem`: `DecodersAgree`, of all 2^20 addresses in whatever configuration a
  program makes, region by region (`ReadsAgree`, `WritesAgree`); the run looks at the
  addresses beside the boundaries.

`ObjectFilesProofs` proves for every INBOX, size of the memory and of the buffer, scale of
words and markers, and number of transfers (`RplAssumption`, `ObjectFilesAssumption`):

- `MemoryHolds`, `MemoryStaysInOrder`: `MemoryIsInOrder` is not inductive, since an abort
  restores what the import overwrote. `MemoryInv` adds what an import under way knows: the
  transfer record has the pointers as they were, the new block lies between the old
  `TEMPTOP` and the return stack, moved up by its allocation cell by cell, and what is
  written of the object is the beginning of the file. An aborted copy down then gives back
  the cells of the return stack exactly.
- `ExportHolds`: `ExportInv`, the `.NEW` file holds what was read so far, under a free number.
- `ImportsAreWhole`: whatever the files hold and whatever fails, the two stacks change by an
  import that reports success only, and then by the whole file.
- `SizeTravels`: the size `object_size` finds is a matter of the object's cells. Elsewhere, or
  with more behind it, it finds the same.
- `ExportsAreWhole`: wherever collections have moved it, an object that was imported is found
  on level 1 by an export, which does not refuse it, and the file begins with just its cells. The
  same holds of an object of the restart whose end `object_size` finds when asked about
  it by itself; nothing is said of the others (`Unmeasured`), lone names among them.
  The strengthening, `StackIsKnown`, is that every level is one of these or of those.
- `ImportsAreMeasured`: a file that was read to its end is accepted exactly when `object_size`
  takes it by itself for one object. What a commit asks of the new block in
  the RAM, with the allocation's own cells behind it, is carried over to the file and
  back by `SizeTravels`.
- `TransfersAreAtomic`: the refinement of `ObjectExchange`, step by step, without a condition on
  the INBOX or the stack.

The copies, the walk over the blocks and `object_size` are recursive functions. What is
needed of them is proved by least numbers (`LeastNumber`, from the library's
`NatLessThanWellFounded`, gives `Induction` and `StrongInduction` over sets of numbers):
`CopyUp` and `CopyDown` move their cells although the areas overlap, the walk finds any
tiling of the memory (`Tiles`), the collector's ranks keep the order of the cells it slides,
and `object_size` never returns more than it may read (`SizeIs`).

Model-checked only:

- `VerdictIsRight`: that `object_size` takes for one object what the formats say is one is a
  matter of the files, and of a recursion over their cells. TLC checks it for the INBOX and
  the stack of the run. It cannot hold of every file: beside names (see Findings),
  `object_size` accepts a string shorter than its length word and a list that ends in a tag
  without its object, and refuses what is nested deeper than `MAX_OBJECT_NESTING`.
- `ArithmeticIsExact`: an induction over the digits, and `RegisterOps` uses the bit
  operators, which the prover does not have.
- Everything that needs fairness: `OffTerminates`, `EventsGoOn`, `WarmStartEnds`,
  `RequestsServed`, `PendingTaken`, `WritesReachThePanel`.

## Findings

One divergence has a run whose counterexample shows it; `PROJECT.json` quotes the
document:

- `keyboard_stuck`: branches that test Ctrl (or Alt) return before the release of a
  key that was pressed without it.

Other behaviour that differs from the documents or comments, met while modelling and
stated by no run. Card, snapshot and OFF:

- A boot without marker files looks at `PORT2.CRD` alone (`port2_card.c:200`), which is
  missing between the two renames of a save: it selects PORT1 and creates a card there.
- The SD card is unmounted before the PMU is asked to cut the power
  (`keyboard.c:503`) and not mounted again when it does not; every later save fails.
- When promoting NEW, restoring BAK and removing NEW all fail (`port2_card.c:117`), the
  next boot promotes NEW beside the older snapshot, the split that `state.c:54` wants
  to avoid (`SplitOnlyAfterCutOrRecovery` says when this can be).
- A drawn OFF while the sequence of an earlier request holds teal or ON, whose save fails, resets
  the sequence without releasing that key (`keyboard.c:736`): it stays down until the next
  OFF request or reset, although the status says "OFF CANCELED". `KeysReleasedWhenDone`,
  `NoChord` and `SafeToCutPower` know this case as the `snapshot` "canceled", and only the first
  has to except it.
- The drawn OFF key saves before it releases the keys (`keyboard.c:729`), so a snapshot
  has matrix bits that a boot restores with no finger on them (`state.c:110`).
- A cut during the very first save of a card leaves a short NEW and nothing else;
  every later boot then reports BAD IMAGE and creates no card (`port2_card.c:156`).

Keyboard and main loop:

- The pending context is cleared when an action that used it is released, so a
  second key pressed before that is shifted too (`OneShotEndsWithItsAction` states
  what does hold), and an action that began with an earlier context clears the one
  that is pending at its release (`keyboard.c:389`).
- A warm start by Alt+Esc after a refused save, while Space is still down on the drawn
  OFF, forgets the drawn key and leaves `s_nav_poweroff_active` set (`start_warm_start`;
  `start_graceful_poweroff` clears it at line 597). The next key drawn with Space is
  then not released (line 752).
- OFF and warm start clear the Alpha context and leave Alpha Lock set
  (`keyboard.c:603`), so the footer shows TXT over the base legends.
- With Caps Lock on, a tapped shift is replaced by Alpha at the next look at the
  lock bit (`keyboard.c:305`).
- The drawn OFF key starts the OFF sequence while a warm start is pending
  (`keyboard.c:729`), which the power key does not.
- ON of a committed import is released by the main loop only (`main.c:204`). The HP
  is awake then, but when it sleeps again before 75 ms are over the loop is not
  reached, and ON stays down until the next wake. An ON that the user holds when the 75 ms
  are over is released by it too.
- `keyboard_poll` compares `now < s_next_poll_ms` without regard to the wrap of the
  clock (`keyboard.c:948`), where `power_sequence.c` and `held_keys.c` compare by
  difference.

Import and export:

- A collection stopped by its budget of instructions leaves the HP's RAM half
  compacted with the old CPU (`rpl_object.c:229`), although `docs/SD_CARD.md:69` says that
  only the ROM's intended compaction is retained. `ObjectExchange` has this as `Tear`.
- `object_size` measures names (`DOIDNT`, `DOLAM`) as it does `DOTAG` (`rpl_object.c:113`), with
  the object that follows. A file that holds a name is refused as bad, and one with a name and an
  object is taken for one object, although `docs/SD_CARD.md:26` asks for "standard binary HP 48
  object files" and `README.md:340` lists their import and export. An export of a name
  on level 1 goes on with what lies behind it: in temporary memory that is the size
  word of its block, which gets into the file. A name followed by more of a list is
  measured right in the end, but each counts as a level of nesting, so that a program or list with
  64 or more of them in a row is refused. `VerdictIsRight` excepts what ends in a name;
  the run has a name on its stack and in three files.
- `object_size` accepts a string whose length word is below 5 (its own length), and a tag or
  directory that is followed by the end of a list in place of its object
  (`rpl_object.c:161`, `rpl_object.c:119`).
- An export requested while the HP is awake is served at once (`main.c:224`), when the ROM
  may be in the middle of a command and `DSKTOP` out of date; the model starts transfers
  between commands.

Display:

- A second change of the layout exactly when the countdown of the first is over
  leaves `display_touched` at 1 and `sched_display` at 0; the next `schedule()` subtracts the
  instruction since and the refresh is forgotten until the next change or `SHUTDN`
  (`emulate.c:2257`, `device.c:76`). `missed` is this case.
- Menu rows beyond the eighth, which a main area of fewer than 56 lines shows, are
  never noticed by the write hook (`display.c:175`); a write to them alone does not
  reach the panel, not even at `SHUTDN`, although the comment at `actions.c:594` says
  that it captures them.
- `old_line_offset` (`memory.c:154`) is static and survives a reset.
- Annunciators and new layouts are presented in the middle of a scan frame, whatever
  the line counter says.
- A program that changes the layout more often than every 16 instructions
  postpones its refresh for ever; `WritesReachThePanel` is about programs that settle.
- In `platform_ui.c:484` a comment says that a stopped animation does not stay paired;
  while the program goes on polling the line counter it does.

Memory:

- Reads ask the MMIO controller for a bank switch at 90000 (`memory.c:1114`), writes ask
  BANK (`memory.c:809`); `DecodersAgree` excepts that page.

## Not modelled

- The I2C transactions with the keyboard controller and their recovery, the
  battery reading, the backlight: pure I/O.
- The drawing of `platform_ui.c` and `lcd.c`, labels and status texts.
- The contents of the guide files `storage.c` writes.
- Of the instructions: D0 and D1, the scratch registers, the status bits, jumps, loads
  and stores, each of which is one assignment or a loop of reads or writes.
- `exchange_reg` and the serial port, which do nothing here; the SX variants of the
  decoders, which the GX never calls; C=ID; the value of the CRC.
- The values of the timers (`timer.c`, `schedule()`): arithmetic on the host's clock.
- The pacer and the sound: arithmetic on one or two numbers, and hardware timing.

## Plan

Done: the card, the snapshot, OFF, the keyboard, sleep and interrupts, object import
and export, the display controller, registers, return stack and memory controller; the
safety properties of all of them but `ArithmeticIsExact` and `VerdictIsRight` are proved.
Left, in this order:

1. The values of the timers through sleep, and the pacer.
2. The scratch registers and the status bits in `Registers`.
