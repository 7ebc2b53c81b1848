----------------------------- MODULE CardStore -----------------------------
(***************************************************************************)
(* The virtual RAM card of the calculator and its image files on the SD    *)
(* card: src/platform/port2_card.c, run against FatFs (external) and       *)
(* against power cuts.                                                     *)
(*                                                                         *)
(* Each slot has three files.  CRD is the committed image, NEW is an image *)
(* being written and BAK is the image committed before.  A save writes     *)
(* NEW, moves CRD to BAK and promotes NEW to CRD; the boot code puts the   *)
(* files right again when the power went away in between.                  *)
(*                                                                         *)
(* Every FatFs call that changes the SD card is an action of its own, so   *)
(* power can go between any two of them.  A call that only reads changes   *)
(* nothing a power cut would keep, so load_image is one action.            *)
(*                                                                         *)
(* Images are numbered: Blank is the all-zero image, Existing the image an *)
(* SD card may come with, and each edit of the card by the Saturn CPU      *)
(* makes a new, higher number.  What a file holds is Missing, BadSize (a   *)
(* user's file of another size, or a half-written NEW) or an image.        *)
(***************************************************************************)
EXTENDS Integers

CONSTANTS
  MaxImage,    \* bound: the highest image number, so the number of edits
  MaxFaults,   \* bound: how many FatFs calls fail, over all boots
  MaxCrashes,  \* bound: power cuts while a save or a boot is under way
  Missing,     \* there is no such file
  BadSize      \* a file whose size is not that of a card image

Blank == 0
Existing == 1

ASSUME BoundsAssumption ==
  /\ MaxImage \in Nat /\ MaxImage >= Existing
  /\ MaxFaults \in Nat
  /\ MaxCrashes \in Nat

ASSUME FileAssumption ==
  /\ Missing \notin Nat
  /\ BadSize \notin Nat
  /\ Missing # BadSize

Slots == {"PORT1", "PORT2"}
Files == {"CRD", "NEW", "BAK"}
Images == Blank .. MaxImage
Content == Images \cup {Missing, BadSize}

ImageResults == {"OK", "MISSING", "BAD_SIZE", "IO_ERROR"}

CardStatuses == {"READY", "CREATED", "RECOVERED", "NO_SD", "STORAGE_ERROR",
                 "BAD_IMAGE", "IO_ERROR", "MODE_ERROR"}

(* Where the program is: powered off, in a step of the boot, idle in the   *)
(* main loop, or at one FatFs call of port2_card_save.                     *)
BootSteps == {"select", "load_current", "load_new", "promote_new",
              "load_backup", "restore_backup", "create_blank", "booted"}
SaveSteps == {"unlink_new", "open_new", "write_new", "stat_current",
              "unlink_backup", "retire", "promote", "restore_current",
              "cleanup", "saved"}
Steps == {"off", "run"} \cup BootSteps \cup SaveSteps

VARIABLES
  files,      \* files[s][f]: what file f of slot s holds on the SD card
  markers,    \* the slots whose PORTn.MODE marker file exists
  ready,      \* storage_ready(): storage.c's s_status is STORAGE_READY
  mounted,    \* s_sd_card.state.mounted: FatFs has the volume
  slot,       \* s_slot: the slot whose files are used
  attached,   \* hp48_card_slot() is s_slot rather than HP48_CARD_NONE
  image,      \* the image in s_card_packed
  dirty,      \* s_card_dirty
  status,     \* s_status of port2_card.c
  pc,         \* where the program is
  pending,    \* recover_missing_image: the result of loading NEW
  moved,      \* port2_card_save: moved_previous
  caller,     \* who called port2_card_save: the "boot" or the "loop"
  okay,       \* what port2_card_save returned
  faults,     \* how many FatFs calls have failed
  crashes,    \* how many power cuts hit a boot or a save
  clock,      \* the highest image number given to an edit
  calm,       \* history: no FatFs call failed since this boot or save began
  promised    \* history: promised[s] is the image the program last said is
              \* safe, by loading it at boot or by a save that succeeded

sdVars      == <<files, markers>>
storageVars == <<ready, mounted>>
cardVars    == <<attached, image, dirty>>
bootVars    == <<slot, status, pending>>
saveVars    == <<moved, caller, okay>>
faultVars   == <<faults, calm>>
budgetVars  == <<crashes, clock>>

vars == <<sdVars, storageVars, cardVars, bootVars, saveVars, faultVars,
          budgetVars, pc, promised>>

FlagsOK ==
  {ready, mounted, attached, dirty, moved, okay, calm} \subseteq BOOLEAN

DataOK ==
  /\ files \in [Slots -> [Files -> Content]]
  /\ markers \subseteq Slots
  /\ slot \in Slots
  /\ image \in Images
  /\ status \in CardStatuses
  /\ pc \in Steps
  /\ pending \in ImageResults
  /\ caller \in {"boot", "loop"}
  /\ faults \in 0 .. MaxFaults
  /\ crashes \in 0 .. MaxCrashes
  /\ clock \in Existing .. MaxImage
  /\ promised \in [Slots -> Images \cup {Missing}]

TypeOK == FlagsOK /\ DataOK

-----------------------------------------------------------------------------
(* FatFs, as port2_card.c uses it.  A call on an unmounted volume fails    *)
(* (FR_NOT_ENABLED); one on a mounted volume may fail while the budget of  *)
(* I/O errors lasts.                                                       *)

Succeeds == mounted /\ UNCHANGED faultVars

Fails ==
  \/ ~mounted /\ UNCHANGED faultVars
  \/ /\ mounted
     /\ faults < MaxFaults
     /\ faults' = faults + 1
     /\ calm' = FALSE

Put(f, content) == files' = [files EXCEPT ![slot][f] = content]

(* f_unlink fails and leaves the file, or leaves no file; FR_NO_FILE counts *)
(* as success in unlink_if_present.                                        *)
unlink_if_present(f, ok) ==
  \/ ok /\ Succeeds /\ Put(f, Missing)
  \/ ~ok /\ Fails /\ UNCHANGED files

(* f_rename needs the old name to exist and the new one to be free.        *)
Renamable(from, to) == files[slot][from] # Missing /\ files[slot][to] = Missing

f_rename(from, to, ok) ==
  \/ /\ ok /\ Succeeds
     /\ Renamable(from, to)
     /\ files' = [files EXCEPT ![slot][from] = Missing,
                               ![slot][to] = files[slot][from]]
  \/ /\ ~ok /\ UNCHANGED files
     /\ Fails \/ (~Renamable(from, to) /\ UNCHANGED faultVars)

(* Mutant: f_stat's size is not compared.                                  *)
SizeUnchecked(content) == IF content = Missing THEN "MISSING" ELSE "OK"

SizeOf(content) ==
  CASE content = Missing -> "MISSING"
    [] content = BadSize -> "BAD_SIZE"
    [] OTHER -> "OK"

image_info(content, result) ==
  \/ result = SizeOf(content) /\ Succeeds
  \/ result = "IO_ERROR" /\ Fails

Attach(content, isDirty) ==
  attached' = TRUE /\ image' = content /\ dirty' = isDirty

Detach == attached' = FALSE /\ image' = Blank /\ dirty' = FALSE

(* load_image attaches only a file it read completely.  Nothing is         *)
(* attached when it is called, so a failed f_stat leaves what the detach   *)
(* after a failed open or read leaves.                                     *)
load_image(f, result) ==
  /\ image_info(files[slot][f], result)
  /\ IF result = "OK" THEN Attach(files[slot][f], FALSE) ELSE Detach

Promise(content) == promised' = [promised EXCEPT ![slot] = content]

-----------------------------------------------------------------------------
(* Power on, storage_init and port2_card_init.                             *)

(* An SD card as a user brings it: for each slot no file at all, a card    *)
(* image (for PORT2 that of a 2.0 installation), or a file that is not one. *)
FreshSlot(current) == [f \in Files |-> IF f = "CRD" THEN current ELSE Missing]

Init ==
  /\ \E current \in [Slots -> {Missing, BadSize, Existing}] :
       /\ files = [s \in Slots |-> FreshSlot(current[s])]
       /\ promised = [s \in Slots |-> IF current[s] = Existing
                                      THEN Existing ELSE Missing]
  /\ markers = {}
  /\ ready = FALSE /\ mounted = FALSE
  /\ slot = "PORT1" /\ status = "NO_SD" /\ pending = "MISSING"
  /\ attached = FALSE /\ image = Blank /\ dirty = FALSE
  /\ moved = FALSE /\ caller = "loop" /\ okay = FALSE
  /\ calm = TRUE /\ pc = "off"
  /\ faults = 0 /\ crashes = 0 /\ clock = Existing

(* The marker files are changed "only while off" (CARDS.TXT).              *)
ToggleMarker(s) ==
  /\ pc = "off"
  /\ markers' = IF s \in markers THEN markers \ {s} ELSE markers \cup {s}
  /\ UNCHANGED <<files, storageVars, cardVars, bootVars, saveVars, faultVars,
                 budgetVars, pc, promised>>

(* storage_init: the volume may not mount, or mount and then fail to get   *)
(* its folders and guides, which leaves it mounted but not ready.          *)
PowerOn ==
  /\ pc = "off"
  /\ \/ mounted' = TRUE /\ ready' = TRUE /\ UNCHANGED faultVars
     \/ /\ faults < MaxFaults /\ faults' = faults + 1 /\ calm' = FALSE
        /\ ready' = FALSE /\ mounted' \in BOOLEAN
  /\ pc' = "select"
  /\ UNCHANGED <<sdVars, cardVars, bootVars, saveVars, budgetVars, promised>>

(* The end of port2_card_init with status st.                              *)
Booted(st) == status' = st /\ pc' = "booted"

NotReady ==
  /\ pc = "select" /\ ~ready
  /\ \E st \in {"NO_SD", "STORAGE_ERROR"} : Booted(st)
  /\ Detach
  /\ UNCHANGED <<sdVars, storageVars, slot, pending, saveVars, faultVars,
                 budgetVars, promised>>

(* Both markers are examined before either is acted on.                    *)
ModeError ==
  /\ pc = "select" /\ ready
  /\ \/ Fails /\ Booted("IO_ERROR")
     \/ markers = Slots /\ Succeeds /\ Booted("MODE_ERROR")
  /\ Detach
  /\ UNCHANGED <<sdVars, storageVars, slot, pending, saveVars, budgetVars,
                 promised>>

(* Without a marker PORT2 is used when PORT2.CRD is not missing: a bad     *)
(* size or an I/O error counts as present.                                 *)
AutoSlot(result) == IF result # "MISSING" THEN "PORT2" ELSE "PORT1"

SelectSlot ==
  /\ pc = "select" /\ ready
  /\ \/ \E s \in Slots : markers = {s} /\ slot' = s /\ Succeeds
     \/ /\ markers = {}
        /\ \E result \in ImageResults :
             /\ image_info(files["PORT2"]["CRD"], result)
             /\ slot' = AutoSlot(result)
  /\ Detach
  /\ pc' = "load_current"
  /\ UNCHANGED <<sdVars, storageVars, status, pending, saveVars, budgetVars,
                 promised>>

(* Mutant: an I/O error on CRD is taken for a missing file.                *)
LoadCurrentErrorIsMissing ==
  /\ pc = "load_current"
  /\ \E result \in ImageResults :
       /\ load_image("CRD", result)
       /\ \/ result = "OK" /\ Booted("READY") /\ Promise(image')
          \/ /\ result \in {"MISSING", "IO_ERROR"} /\ pc' = "load_new"
             /\ UNCHANGED <<status, promised>>
          \/ /\ result = "BAD_SIZE" /\ Booted("BAD_IMAGE")
             /\ UNCHANGED promised
  /\ UNCHANGED <<sdVars, storageVars, slot, pending, saveVars, budgetVars>>

LoadCurrent ==
  /\ pc = "load_current"
  /\ \E result \in ImageResults :
       /\ load_image("CRD", result)
       /\ \/ result = "OK" /\ Booted("READY") /\ Promise(image')
          \/ /\ result = "MISSING" /\ pc' = "load_new"
             /\ UNCHANGED <<status, promised>>
          \/ /\ result = "BAD_SIZE" /\ Booted("BAD_IMAGE")
             /\ UNCHANGED promised
          \/ /\ result = "IO_ERROR" /\ Booted("IO_ERROR")
             /\ UNCHANGED promised
  /\ UNCHANGED <<sdVars, storageVars, slot, pending, saveVars, budgetVars>>

-----------------------------------------------------------------------------
(* recover_missing_image: CRD is missing.                                  *)

(* Mutant: an unusable NEW ends the boot before BAK is looked at.          *)
LoadNewDecides ==
  /\ pc = "load_new"
  /\ \E result \in ImageResults :
       /\ load_image("NEW", result)
       /\ pending' = result
       /\ \/ result = "OK" /\ pc' = "promote_new" /\ UNCHANGED status
          \/ result = "MISSING" /\ pc' = "load_backup" /\ UNCHANGED status
          \/ result = "BAD_SIZE" /\ Booted("BAD_IMAGE")
          \/ result = "IO_ERROR" /\ Booted("IO_ERROR")
  /\ UNCHANGED <<sdVars, storageVars, slot, saveVars, budgetVars, promised>>

LoadNew ==
  /\ pc = "load_new"
  /\ \E result \in ImageResults :
       /\ load_image("NEW", result)
       /\ pending' = result
       /\ pc' = IF result = "OK" THEN "promote_new" ELSE "load_backup"
  /\ UNCHANGED <<sdVars, storageVars, slot, status, saveVars, budgetVars,
                 promised>>

(* Rename a recovered file to CRD; when that fails the card is detached.   *)
Adopt(f) ==
  \/ /\ f_rename(f, "CRD", TRUE)
     /\ Booted("RECOVERED") /\ Promise(image)
     /\ UNCHANGED cardVars
  \/ /\ f_rename(f, "CRD", FALSE)
     /\ Booted("IO_ERROR") /\ Detach
     /\ UNCHANGED promised

PromoteNew ==
  /\ pc = "promote_new"
  /\ Adopt("NEW")
  /\ UNCHANGED <<markers, storageVars, slot, pending, saveVars, budgetVars>>

(* An unusable BAK decides the status before an unusable NEW does; a blank *)
(* card is made only when neither file is there.                           *)
LoadBackup ==
  /\ pc = "load_backup"
  /\ \E result \in ImageResults :
       /\ load_image("BAK", result)
       /\ \/ result = "OK" /\ pc' = "restore_backup" /\ UNCHANGED status
          \/ result = "BAD_SIZE" /\ Booted("BAD_IMAGE")
          \/ result = "IO_ERROR" /\ Booted("IO_ERROR")
          \/ /\ result = "MISSING"
             /\ \/ pending = "BAD_SIZE" /\ Booted("BAD_IMAGE")
                \/ pending = "IO_ERROR" /\ Booted("IO_ERROR")
                \/ /\ pending = "MISSING" /\ pc' = "create_blank"
                   /\ UNCHANGED status
  /\ UNCHANGED <<sdVars, storageVars, slot, pending, saveVars, budgetVars,
                 promised>>

RestoreBackup ==
  /\ pc = "restore_backup"
  /\ Adopt("BAK")
  /\ UNCHANGED <<markers, storageVars, slot, pending, saveVars, budgetVars>>

(* A new card is attached dirty and port2_card_save is called at once.     *)
CreateBlank ==
  /\ pc = "create_blank"
  /\ Attach(Blank, TRUE)
  /\ caller' = "boot" /\ moved' = FALSE
  /\ pc' = "unlink_new"
  /\ UNCHANGED <<sdVars, storageVars, bootVars, okay, faultVars, budgetVars,
                 promised>>

(* What recover_missing_image does with the save's result.                 *)
Created ==
  /\ pc = "saved" /\ caller = "boot"
  /\ \/ okay /\ Booted("CREATED") /\ UNCHANGED cardVars
     \/ ~okay /\ Booted("IO_ERROR") /\ Detach
  /\ UNCHANGED <<sdVars, storageVars, slot, pending, saveVars, faultVars,
                 budgetVars, promised>>

-----------------------------------------------------------------------------
(* port2_card_save.                                                        *)

Return(result) == okay' = result /\ pc' = "saved"

(* The call itself: nothing to do, no SD card, or the first FatFs call.    *)
EnterSave ==
  /\ caller' = "loop" /\ moved' = FALSE /\ calm' = TRUE
  /\ \/ (~attached \/ ~dirty) /\ Return(TRUE)
     \/ attached /\ dirty /\ ~ready /\ Return(FALSE)
     \/ attached /\ dirty /\ ready /\ pc' = "unlink_new" /\ UNCHANGED okay
  /\ UNCHANGED <<sdVars, storageVars, cardVars, bootVars, faults, budgetVars,
                 promised>>

UnlinkNew ==
  /\ pc = "unlink_new"
  /\ \/ /\ unlink_if_present("NEW", TRUE)
        /\ pc' = "open_new" /\ UNCHANGED okay
     \/ unlink_if_present("NEW", FALSE) /\ Return(FALSE)
  /\ UNCHANGED <<markers, storageVars, cardVars, bootVars, moved, caller,
                 budgetVars, promised>>

(* FA_CREATE_ALWAYS makes an empty file, which a failed open may leave.    *)
OpenNew ==
  /\ pc = "open_new"
  /\ \/ /\ Succeeds /\ Put("NEW", BadSize)
        /\ pc' = "write_new" /\ UNCHANGED okay
     \/ /\ Fails /\ Return(FALSE)
        /\ \/ UNCHANGED files
           \/ mounted /\ Put("NEW", BadSize)
  /\ UNCHANGED <<markers, storageVars, cardVars, bootVars, moved, caller,
                 budgetVars, promised>>

(* f_write, f_sync and f_close.  The file is short until the sync, and may *)
(* be complete although f_sync or f_close reported an error.               *)
WriteNew ==
  /\ pc = "write_new"
  /\ \/ Succeeds /\ Put("NEW", image) /\ pc' = "stat_current"
     \/ /\ Fails /\ pc' = "cleanup"
        /\ \/ UNCHANGED files
           \/ mounted /\ Put("NEW", image)
  /\ UNCHANGED <<markers, storageVars, cardVars, bootVars, saveVars,
                 budgetVars, promised>>

(* A CRD that is there but is not an image is never replaced.              *)
StatCurrent ==
  /\ pc = "stat_current"
  /\ \E result \in ImageResults :
       /\ image_info(files[slot]["CRD"], result)
       /\ pc' = CASE result = "OK" -> "unlink_backup"
                  [] result = "MISSING" -> "promote"
                  [] OTHER -> "cleanup"
  /\ UNCHANGED <<sdVars, storageVars, cardVars, bootVars, saveVars,
                 budgetVars, promised>>

(* Mutant: an old BAK is left, and f_rename refuses to replace it.         *)
UnlinkBackupSkipped ==
  /\ pc = "unlink_backup" /\ pc' = "retire"
  /\ UNCHANGED <<sdVars, storageVars, cardVars, bootVars, saveVars, faultVars,
                 budgetVars, promised>>

UnlinkBackup ==
  /\ pc = "unlink_backup"
  /\ \/ unlink_if_present("BAK", TRUE) /\ pc' = "retire"
     \/ unlink_if_present("BAK", FALSE) /\ pc' = "cleanup"
  /\ UNCHANGED <<markers, storageVars, cardVars, bootVars, saveVars,
                 budgetVars, promised>>

(* Mutants: CRD is removed instead of moved, and NEW is moved in its place. *)
RetireRemoves ==
  /\ pc = "retire"
  /\ \/ unlink_if_present("CRD", TRUE) /\ moved' = TRUE /\ pc' = "promote"
     \/ unlink_if_present("CRD", FALSE) /\ UNCHANGED moved /\ pc' = "cleanup"
  /\ UNCHANGED <<markers, storageVars, cardVars, bootVars, caller, okay,
                 budgetVars, promised>>

RetireWrongFile ==
  /\ pc = "retire"
  /\ \/ f_rename("NEW", "BAK", TRUE) /\ moved' = TRUE /\ pc' = "promote"
     \/ f_rename("NEW", "BAK", FALSE) /\ UNCHANGED moved /\ pc' = "cleanup"
  /\ UNCHANGED <<markers, storageVars, cardVars, bootVars, caller, okay,
                 budgetVars, promised>>

Retire ==
  /\ pc = "retire"
  /\ \/ f_rename("CRD", "BAK", TRUE) /\ moved' = TRUE /\ pc' = "promote"
     \/ f_rename("CRD", "BAK", FALSE) /\ UNCHANGED moved /\ pc' = "cleanup"
  /\ UNCHANGED <<markers, storageVars, cardVars, bootVars, caller, okay,
                 budgetVars, promised>>

(* Mutant: s_card_dirty is cleared before the result of f_rename is known. *)
PromoteClearsFirst ==
  /\ pc = "promote" /\ dirty' = FALSE
  /\ \/ f_rename("NEW", "CRD", TRUE) /\ Promise(image) /\ Return(TRUE)
     \/ /\ f_rename("NEW", "CRD", FALSE)
        /\ pc' = IF moved THEN "restore_current" ELSE "cleanup"
        /\ UNCHANGED <<promised, okay>>
  /\ UNCHANGED <<markers, storageVars, attached, image, bootVars, moved,
                 caller, budgetVars>>

Promote ==
  /\ pc = "promote"
  /\ \/ /\ f_rename("NEW", "CRD", TRUE)
        /\ dirty' = FALSE /\ Promise(image) /\ Return(TRUE)
     \/ /\ f_rename("NEW", "CRD", FALSE)
        /\ pc' = IF moved THEN "restore_current" ELSE "cleanup"
        /\ UNCHANGED <<dirty, promised, okay>>
  /\ UNCHANGED <<markers, storageVars, attached, image, bootVars, moved,
                 caller, budgetVars>>

(* The results of these two calls are ignored.                             *)
RestoreCurrent ==
  /\ pc = "restore_current"
  /\ \E ok \in BOOLEAN : f_rename("BAK", "CRD", ok)
  /\ pc' = "cleanup"
  /\ UNCHANGED <<markers, storageVars, cardVars, bootVars, saveVars,
                 budgetVars, promised>>

Cleanup ==
  /\ pc = "cleanup"
  /\ \E ok \in BOOLEAN : unlink_if_present("NEW", ok)
  /\ Return(FALSE)
  /\ UNCHANGED <<markers, storageVars, cardVars, bootVars, moved, caller,
                 budgetVars, promised>>

-----------------------------------------------------------------------------
(* The running calculator.                                                 *)

EnterLoop ==
  /\ pc = "booted" /\ pc' = "run"
  /\ UNCHANGED <<sdVars, storageVars, cardVars, bootVars, saveVars, faultVars,
                 budgetVars, promised>>

(* The Saturn CPU writes a nibble that differs: write_card_nibble.         *)
Edit ==
  /\ pc = "run" /\ attached
  /\ clock < MaxImage
  /\ clock' = clock + 1 /\ image' = clock + 1 /\ dirty' = TRUE
  /\ UNCHANGED <<sdVars, storageVars, attached, bootVars, saveVars, faultVars,
                 crashes, pc, promised>>

Save == pc = "run" /\ EnterSave

SaveReturned ==
  /\ pc = "saved" /\ caller = "loop" /\ pc' = "run"
  /\ UNCHANGED <<sdVars, storageVars, cardVars, bootVars, saveVars, faultVars,
                 budgetVars, promised>>

(* request_system_poweroff unmounts the SD card; when the PMU does not cut *)
(* the power within nine seconds the calculator runs on.                   *)
PowerOffTimeout ==
  /\ pc = "run"
  /\ mounted' = FALSE
  /\ UNCHANGED <<sdVars, ready, cardVars, bootVars, saveVars, faultVars,
                 budgetVars, pc, promised>>

(* Power goes.  While the main loop is idle this is free of charge.        *)
PowerLoss ==
  /\ pc # "off"
  /\ \/ pc = "run" /\ UNCHANGED crashes
     \/ pc # "run" /\ crashes < MaxCrashes /\ crashes' = crashes + 1
  /\ ready' = FALSE /\ mounted' = FALSE
  /\ slot' = "PORT1" /\ status' = "NO_SD" /\ pending' = "MISSING"
  /\ Detach
  /\ moved' = FALSE /\ caller' = "loop" /\ okay' = FALSE
  /\ calm' = TRUE /\ pc' = "off"
  /\ UNCHANGED <<sdVars, faults, clock, promised>>

BootNext ==
  \/ PowerOn \/ NotReady \/ ModeError \/ SelectSlot \/ LoadCurrent
  \/ LoadNew \/ PromoteNew \/ LoadBackup \/ RestoreBackup \/ CreateBlank
  \/ Created

SaveNext ==
  \/ UnlinkNew \/ OpenNew \/ WriteNew \/ StatCurrent \/ UnlinkBackup
  \/ Retire \/ Promote \/ RestoreCurrent \/ Cleanup

RunNext == EnterLoop \/ Edit \/ Save \/ SaveReturned \/ PowerOffTimeout

Next ==
  \/ BootNext \/ SaveNext \/ RunNext \/ PowerLoss
  \/ \E s \in Slots : ToggleMarker(s)

Spec == Init /\ [][Next]_vars

-----------------------------------------------------------------------------
(* Properties.                                                             *)

(* The file port2_card_init ends up with for slot s if nothing fails: CRD, *)
(* or a complete NEW, or BAK.                                              *)
Survivor(s) ==
  IF files[s]["CRD"] # Missing THEN files[s]["CRD"]
  ELSE IF files[s]["NEW"] \in Images THEN files[s]["NEW"]
  ELSE files[s]["BAK"]

(* Whatever failed and wherever the power went, the next boot of a slot    *)
(* finds the image last said to be safe, or a newer one: neither a save    *)
(* that was cut short nor a boot that was repairing the files loses it.    *)
Durable ==
  \A s \in Slots : promised[s] # Missing =>
                     Survivor(s) \in Images /\ Survivor(s) >= promised[s]

(* While the calculator runs, a card that is not dirty is the same on the  *)
(* SD card: write_card_nibble, attach, save and recovery keep s_card_dirty *)
(* honest, so a save that returns early has nothing to write.              *)
CleanMeansSaved ==
  pc \in {"run", "booted"} /\ attached /\ ~dirty =>
    files[slot]["CRD"] = image

(* A user's PORTn.CRD of another size is never replaced, moved or removed. *)
ForeignImageUntouched ==
  [][\A s \in Slots : files[s]["CRD"] = BadSize => files'[s]["CRD"] = BadSize]_vars

(* "PORT2.BAK is the previous committed image" (storage.c, CARDS.TXT): no  *)
(* image gets into BAK that the program had not reported as safe.          *)
BackupWasCommitted ==
  [][\A s \in Slots :
       files'[s]["BAK"] \in {files[s]["BAK"], Missing, promised[s]}]_vars

(* A save of a ready, mounted SD card fails only when a FatFs call failed  *)
(* during it: nothing an earlier failure or power cut left behind (a stale *)
(* NEW, an old BAK, a missing CRD) can wedge saving.                       *)
SaveFailsOnlyOnFault ==
  pc = "saved" /\ caller = "loop" /\ ~okay => ~calm \/ ~ready \/ ~mounted

(* Likewise a boot with at most one marker refuses the card only when a    *)
(* call failed during it, when the user's CRD is not an image, or in the   *)
(* state a cut during the very first creation of the card leaves: a short  *)
(* NEW and neither CRD nor BAK.                                            *)
HalfCreated(s) ==
  /\ files[s]["CRD"] = Missing
  /\ files[s]["NEW"] = BadSize
  /\ files[s]["BAK"] = Missing

BootFailsOnlyOnFault ==
  pc = "booted" /\ calm /\ markers # Slots =>
    attached \/ files[slot]["CRD"] = BadSize \/ HalfCreated(slot)

-----------------------------------------------------------------------------
(* The inductive invariant behind Durable.                                 *)

(* Where the promised image of a slot is: in CRD or, while CRD is away, in *)
(* BAK; NEW may hold a newer image but never an older one.  Nothing is in  *)
(* BAK that was not promised.                                              *)
SlotInv(s) ==
  LET current == files[s]["CRD"]  new == files[s]["NEW"]
      backup == files[s]["BAK"]
  IN /\ current \in Images => current = promised[s]
     /\ promised[s] \in Images =>
          current = promised[s] \/ (current = Missing /\ backup = promised[s])
     /\ promised[s] = Missing => backup = Missing
     /\ backup # BadSize
     /\ promised[s] \in Images => promised[s] <= clock
     /\ new \in Images =>
          new <= clock /\ (promised[s] \in Images => new >= promised[s])

FilesInv == \A s \in Slots : SlotInv(s)

(* The card in memory is never older than what was promised for its slot,  *)
(* and a clean one is what CRD holds.                                      *)
MemoryInv ==
  attached =>
    /\ image <= clock
    /\ promised[slot] \in Images => image >= promised[slot]
    /\ files[slot]["CRD"] # BadSize
    /\ dirty \/ pc \in {"promote_new", "restore_backup"}
         \/ files[slot]["CRD"] = image

(* What the program counter says about the files of the selected slot.     *)
ControlInv ==
  LET current == files[slot]["CRD"]  new == files[slot]["NEW"]
      backup == files[slot]["BAK"]
  IN /\ pc \in {"load_new", "promote_new", "load_backup", "restore_backup",
               "create_blank"} => current = Missing
     /\ pc = "promote_new" => attached /\ new = image
     /\ pc = "restore_backup" => attached /\ backup = image
     /\ pc = "create_blank" => backup = Missing
     /\ pc \in SaveSteps \ {"saved"} => attached /\ dirty
     /\ pc \in {"stat_current", "unlink_backup", "retire", "promote"} =>
          new = image
     /\ pc \in {"unlink_backup", "retire"} => current \in Images

CardInv == TypeOK /\ FilesInv /\ MemoryInv /\ ControlInv

-----------------------------------------------------------------------------
(* What has to be added to CardInv for the properties about faults and for *)
(* the refinement of CardPromise (CardStoreRefinement).                    *)

Failed == ~calm \/ ~ready \/ ~mounted

(* A save turns back only because of a fault: where it renames, the old    *)
(* name is there and the new one is free.                                  *)
SaveFaultInv ==
  /\ pc \in {"restore_current", "cleanup"} => Failed
  /\ pc = "saved" /\ ~okay => Failed
  /\ pc = "retire" => files[slot]["BAK"] = Missing
  /\ pc = "promote" => files[slot]["CRD"] = Missing

(* A boot without a fault has the volume, and what it remembers of NEW is  *)
(* what NEW is.                                                            *)
BootHasVolume ==
  pc \in BootSteps \/ (pc \in SaveSteps /\ caller = "boot") =>
    ~calm \/ (ready /\ mounted)

NewRemembered ==
  LET new == files[slot]["NEW"]
  IN /\ pc = "load_backup" =>
          /\ pending \in {"MISSING", "BAD_SIZE", "IO_ERROR"}
          /\ pending = "MISSING" => new = Missing
          /\ pending = "BAD_SIZE" => new = BadSize
          /\ pending = "IO_ERROR" => ~calm
     /\ pc = "create_blank" => new = Missing

BootFaultInv == BootHasVolume /\ NewRemembered /\ BootFailsOnlyOnFault

(* Nothing is attached while a boot looks for an image; a new card stays   *)
(* attached while it is saved.                                             *)
BootCardInv ==
  /\ pc \in {"load_current", "load_new", "load_backup", "create_blank"} =>
       ~attached
  /\ pc \in SaveSteps /\ caller = "boot" => attached

FaultInv == SaveFaultInv /\ BootFaultInv /\ BootCardInv
=============================================================================
