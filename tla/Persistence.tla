---------------------------- MODULE Persistence ----------------------------
(***************************************************************************)
(* The calculator's two persistent stores together: the snapshot of the    *)
(* Saturn CPU and the built-in RAM in the Pico's flash                     *)
(* (src/platform/state.c), and the virtual card on the SD card             *)
(* (CardStore).  state_save commits the card and then replaces the         *)
(* snapshot; main() loads the snapshot, then attaches a card, and resumes  *)
(* only when the card sits in the slot the snapshot was made with.         *)
(*                                                                         *)
(* What the CPU and the RAM hold is numbered from the same clock as the    *)
(* card images, so an image and a RAM content that belong together can be  *)
(* told from a pair that does not.                                         *)
(***************************************************************************)
EXTENDS CardStore

CONSTANTS
  Erased,     \* flash that holds no header, or no complete RAM
  NoCard      \* the slot of a snapshot made without a card

ASSUME FlashAssumption ==
  /\ Erased \notin Nat
  /\ NoCard \notin Slots

Cold == Blank      \* the CPU and RAM after hp48_core_init or hp48_core_reset

VARIABLES
  header,     \* the header sector: the saved CPU, its card slot and the CRC
              \* of the RAM that goes with it, or Erased
  pages,      \* the RAM pages in flash, or Erased while they are torn
  cpu,        \* the saturn structure
  ram,        \* the built-in RAM, s_ram
  restored,   \* main(): the header a snapshot was restored from, or Erased
  step,       \* state_save: the next flash operation
  safe,       \* history: the RAM of the last state_save that returned true,
              \* Erased after a reset
  torn,       \* history: power went during the flash update
  cut,        \* history: power went during a state_save, and none has
              \* succeeded since
  adopted     \* history: a boot promoted a NEW that a save left behind, and
              \* no state_save has succeeded since

flashVars  == <<header, pages>>
memVars    == <<cpu, ram>>
stateVars  == <<header, pages, cpu, ram, restored, step, safe, torn, cut, adopted>>

cardStore == vars
allVars == <<cardStore, stateVars>>

Snapshot == [cpu : Images, slot : Slots \cup {NoCard}, ram : Images,
             card : Images \cup {Missing}]

ASSUME HeaderAssumption == Erased \notin Snapshot

PersistenceTypeOK ==
  /\ TypeOK
  /\ header \in Snapshot \cup {Erased}
  /\ pages \in Images \cup {Erased}
  /\ cpu \in Images /\ ram \in Images
  /\ restored \in Snapshot \cup {Erased}
  /\ step \in {"none", "header", "pages"}
  /\ safe \in Images \cup {Erased}
  /\ torn \in BOOLEAN /\ cut \in BOOLEAN /\ adopted \in BOOLEAN

ActiveSlot == IF attached THEN slot ELSE NoCard

(* The header state_save builds.  card is not stored: it records which     *)
(* image was in memory, for the properties.                                *)
NewHeader == [cpu |-> cpu, slot |-> ActiveSlot, ram |-> ram,
              card |-> IF attached THEN image ELSE Missing]

-----------------------------------------------------------------------------

PersistenceInit ==
  /\ Init
  /\ header = Erased /\ pages = Erased
  /\ cpu = Cold /\ ram = Cold
  /\ restored = Erased /\ step = "none"
  /\ safe = Erased /\ torn = FALSE /\ cut = FALSE /\ adopted = FALSE

(* state_load accepts a header whose CRC of the RAM pages is right.        *)
Loadable == header # Erased /\ pages = header.ram

(* storage_init, hp48_core_init and state_load.                            *)
PowerOnAndLoad ==
  /\ PowerOn
  /\ \/ Loadable /\ cpu' = header.cpu /\ ram' = pages /\ restored' = header
     \/ ~Loadable /\ cpu' = Cold /\ ram' = Cold /\ restored' = Erased
  /\ UNCHANGED <<flashVars, step, safe, torn, cut, adopted>>

(* Mutants: the slot is not compared; and a reset forgets the RAM.         *)
ResumeAnySlot == EnterLoop /\ UNCHANGED stateVars

(* main() after port2_card_init: a snapshot of another slot is not resumed. *)
SlotMatches == restored.slot = ActiveSlot

ResumeKeepsRam ==
  /\ EnterLoop
  /\ IF restored = Erased \/ SlotMatches
     THEN UNCHANGED <<cpu, restored>>
     ELSE cpu' = Cold /\ restored' = Erased
  /\ UNCHANGED <<flashVars, ram, step, safe, torn, cut, adopted>>

Resume ==
  /\ EnterLoop
  /\ IF restored = Erased \/ SlotMatches
     THEN UNCHANGED <<memVars, restored>>
     ELSE cpu' = Cold /\ ram' = Cold /\ restored' = Erased
  /\ UNCHANGED <<flashVars, step, safe, torn, cut, adopted>>

(* The Saturn CPU runs: it changes its registers and the RAM, and may      *)
(* change the card.                                                        *)
Compute ==
  /\ \/ Edit
     \/ /\ pc = "run" /\ clock < MaxImage /\ clock' = clock + 1
        /\ UNCHANGED <<sdVars, storageVars, cardVars, bootVars, saveVars,
                       faultVars, crashes, pc, promised>>
  /\ cpu' = clock' /\ ram' = clock'
  /\ UNCHANGED <<flashVars, restored, step, safe, torn, cut, adopted>>

(* Mutant: state_save does not save the card.                              *)
StateSaveWithoutCard ==
  /\ pc = "run" /\ caller' = "loop" /\ moved' = FALSE /\ calm' = TRUE
  /\ Return(TRUE)
  /\ UNCHANGED <<sdVars, storageVars, cardVars, bootVars, faults, budgetVars,
                 promised, stateVars>>

(* state_save, first half: the card.                                       *)
StateSave == Save /\ UNCHANGED stateVars

(* Mutant: the flash is erased before the card is saved.                   *)
SaveRefusedAfterErase ==
  /\ ~okay /\ SaveReturned
  /\ header' = Erased /\ pages' = Erased
  /\ UNCHANGED <<memVars, restored, step, safe, torn, cut, adopted>>

(* The card could not be saved: state_save returns false.                  *)
SaveRefused ==
  /\ ~okay /\ SaveReturned
  /\ UNCHANGED stateVars

(* Second half, with interrupts off: erase everything, program the header, *)
(* program the RAM page by page.                                           *)
EraseFlash ==
  /\ pc = "saved" /\ caller = "loop" /\ okay /\ step = "none"
  /\ header' = Erased /\ pages' = Erased
  /\ step' = "header"
  /\ UNCHANGED <<cardStore, memVars, restored, safe, torn, cut, adopted>>

ProgramHeader ==
  /\ step = "header"
  /\ header' = NewHeader
  /\ step' = "pages"
  /\ UNCHANGED <<cardStore, pages, memVars, restored, safe, torn, cut, adopted>>

ProgramPages ==
  /\ step = "pages"
  /\ pages' = ram
  /\ step' = "none" /\ SaveReturned
  /\ safe' = ram /\ torn' = FALSE /\ cut' = FALSE /\ adopted' = FALSE
  /\ UNCHANGED <<header, memVars, restored>>

(* Ctrl+Esc: state_clear erases the header sector, hp48_core_reset clears  *)
(* CPU and RAM and keeps the card.                                         *)
Reset ==
  /\ pc = "run"
  /\ header' = Erased
  /\ cpu' = Cold /\ ram' = Cold
  /\ safe' = Erased /\ torn' = FALSE
  /\ UNCHANGED <<cardStore, pages, restored, step, cut, adopted>>

PowerCut ==
  /\ PowerLoss
  /\ cpu' = Cold /\ ram' = Cold
  /\ restored' = Erased /\ step' = "none"
  /\ torn' = (torn \/ step # "none")
  /\ cut' = (cut \/ (pc \in SaveSteps /\ caller = "loop"))
  /\ UNCHANGED <<flashVars, safe, adopted>>

(* The steps of CardStore that leave the flash and the memory alone.       *)
CardStep ==
  /\ \/ NotReady \/ ModeError \/ SelectSlot \/ LoadCurrent \/ LoadNew
     \/ LoadBackup \/ RestoreBackup \/ CreateBlank \/ Created
     \/ SaveNext \/ PowerOffTimeout
     \/ \E s \in Slots : ToggleMarker(s)
  /\ UNCHANGED stateVars

PromoteStep ==
  /\ PromoteNew
  /\ adopted' = (adopted \/ status' = "RECOVERED")
  /\ UNCHANGED <<flashVars, memVars, restored, step, safe, torn, cut>>

PersistenceNext ==
  \/ PowerOnAndLoad \/ Resume \/ Compute \/ StateSave \/ SaveRefused
  \/ EraseFlash \/ ProgramHeader \/ ProgramPages \/ Reset \/ PowerCut
  \/ CardStep \/ PromoteStep

PersistenceSpec == PersistenceInit /\ [][PersistenceNext]_allVars

-----------------------------------------------------------------------------
(* Properties.                                                             *)

Resumed == pc = "run" /\ restored # Erased

(* The registers and the RAM the calculator runs with are of one moment:   *)
(* a snapshot whose update was cut short is never resumed.                 *)
MemoryOfOneMoment == pc = "run" => cpu = ram

(* "Never resume a snapshot made with the other slot" (main.c): the ROM's  *)
(* library and covered-port tables in RAM are those of the attached card,  *)
(* and the card is not older than the RAM that refers to it, so a merged   *)
(* Port 1 never loses user memory the RAM still points at.                 *)
CardMatchesSnapshot ==
  Resumed => /\ SlotMatches
             /\ attached => image >= restored.card

(* A snapshot reported as saved is in flash, whole, until another save     *)
(* replaces it or Ctrl+Esc deletes it, whatever happens to the SD card:    *)
(* only a power cut during the flash update itself loses it.               *)
SnapshotKept ==
  step = "none" /\ ~torn =>
    IF safe = Erased THEN ~Loadable ELSE Loadable /\ pages = safe

(* The card and the snapshot a boot resumes belong together unless power   *)
(* went during a state_save, or a boot recovered a NEW that a failed save  *)
(* could not remove, since the snapshot was made.                          *)
SplitOnlyAfterCutOrRecovery ==
  [][pc = "booted" /\ pc' = "run" /\ restored' # Erased /\ attached =>
       image = restored.card \/ cut \/ adopted]_allVars

-----------------------------------------------------------------------------
(* The inductive invariant behind these properties, on top of CardInv.     *)

(* CPU and RAM are of one moment, in memory and in every complete header.  *)
MomentInv == cpu = ram /\ (header # Erased => header.cpu = header.ram)

(* The flash is written between a card that was saved and the return.      *)
FlashInv ==
  /\ step # "none" => pc = "saved" /\ caller = "loop" /\ okay
  /\ step = "header" => header = Erased
  /\ step = "pages" => header # Erased /\ header.ram = ram
  /\ SnapshotKept

(* A save that returned true and a boot that found an image leave no dirty *)
(* card; a new card is made only where none was promised; and a boot keeps *)
(* the header that was loaded.                                             *)
Booting == pc \in BootSteps \/ (pc \in SaveSteps /\ caller = "boot")

BootInv ==
  /\ pc = "saved" /\ okay => ~attached \/ ~dirty
  /\ pc \in {"promote_new", "restore_backup", "booted"} => ~attached \/ ~dirty
  /\ pc \in SaveSteps \ {"saved"} /\ caller = "boot" => promised[slot] = Missing
  /\ Booting => restored \in {Erased, header}

(* What was resumed belongs to the attached slot.                          *)
LoopInv ==
  pc = "run" \/ (pc \in SaveSteps /\ caller = "loop") =>
    restored = Erased \/ SlotMatches

(* The card of a snapshot was promised, and promises only get newer.       *)
CardOf(h) ==
  h.slot \in Slots =>
    /\ h.card \in Images /\ promised[h.slot] \in Images
    /\ h.card <= promised[h.slot]

PairInv ==
  /\ header # Erased => CardOf(header)
  /\ restored # Erased => CardOf(restored)

(* It is the promised one until a save goes on to replace the snapshot, or *)
(* a cut or a recovery comes between.                                      *)
Replacing == pc = "saved" /\ caller = "loop" /\ okay /\ step = "none"

AgreeInv ==
  header # Erased /\ header.slot \in Slots
    /\ (step = "pages" \/ ~(cut \/ adopted \/ Replacing)) =>
      promised[header.slot] = header.card

PersistInv ==
  /\ CardInv /\ PersistenceTypeOK
  /\ MomentInv /\ FlashInv /\ BootInv /\ LoopInv /\ PairInv /\ AgreeInv
=============================================================================
