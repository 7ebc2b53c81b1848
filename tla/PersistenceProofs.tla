------------------------- MODULE PersistenceProofs -------------------------
(***************************************************************************)
(* Proofs about what survives a power cut, for every number of edits, of   *)
(* failing FatFs calls and of cuts.                                        *)
(*                                                                         *)
(* First the card on the SD card, CardStore: type correctness, the         *)
(* inductive invariant CardInv, what follows from it, what a save and a    *)
(* boot know of the calls that failed, and the refinement of CardPromise.  *)
(*                                                                         *)
(* Then Persistence, which puts the snapshot in flash beside it: its steps *)
(* keep CardInv, and PersistInv adds the flash and the memory.             *)
(***************************************************************************)
EXTENDS Persistence, CardStoreRefinement, TLAPS

-----------------------------------------------------------------------------
(* The constant sets.  The step lemmas cite these facts and leave Steps,   *)
(* Images and Content unexpanded.                                          *)

(* The names actions give pc are steps, and the resting points of the boot *)
(* and the main loop are not steps of a save.                              *)
LEMMA StepNames ==
  /\ {"off", "run", "select", "load_current", "load_new", "promote_new",
      "load_backup", "restore_backup", "create_blank", "booted",
      "unlink_new", "open_new", "write_new", "stat_current",
      "unlink_backup", "retire", "promote", "restore_current",
      "cleanup", "saved"} = Steps
  /\ {"off", "run", "booted"} \cap SaveSteps = {}
BY DEF Steps, BootSteps, SaveSteps

(* The sentinels of a file are not images, and images are numbers.         *)
LEMMA Values ==
  /\ Blank \in Images /\ Existing \in Images
  /\ Missing \notin Images /\ BadSize \notin Images /\ Missing # BadSize
  /\ Images \subseteq Nat /\ Existing .. MaxImage \subseteq Images
  /\ \A i \in Images : Blank <= i
  /\ Content = Images \cup {Missing, BadSize}
BY BoundsAssumption, FileAssumption DEF Blank, Existing, Images, Content

-----------------------------------------------------------------------------
(* Type correctness.                                                       *)

(* The first state is well typed.                                          *)
LEMMA InitTyped == Init => TypeOK
<1> SUFFICES ASSUME Init PROVE TypeOK
  OBVIOUS
<1>1. FlagsOK
  BY Zenon DEF Init, FlagsOK
<1>2. DataOK
  BY BoundsAssumption, StepNames, Values
     DEF Init, DataOK, FreshSlot, Slots, Files, ImageResults, CardStatuses
<1> QED
  BY <1>1, <1>2 DEF TypeOK

(* Every step leaves the Boolean variables Boolean.                        *)
LEMMA StepFlags == TypeOK /\ [Next]_vars => FlagsOK'
<1> SUFFICES ASSUME TypeOK, [Next]_vars PROVE FlagsOK'
  OBVIOUS
<1> USE StepNames, Values
    DEF TypeOK, FlagsOK, DataOK, Slots, Files, ImageResults, CardStatuses,
        vars, sdVars, storageVars, cardVars, bootVars, saveVars, faultVars,
        budgetVars
<1>1. CASE PowerOn
  BY Zenon, <1>1 DEF PowerOn
<1>2. CASE NotReady
  BY Zenon, <1>2 DEF NotReady, Booted, Detach
<1>3. CASE ModeError
  BY Zenon, <1>3 DEF ModeError, Booted, Detach, Fails, Succeeds
<1>4. CASE SelectSlot
  BY Zenon, <1>4 DEF SelectSlot, Detach, image_info, Fails, Succeeds, AutoSlot
<1>5. CASE LoadCurrent
  BY Zenon, <1>5 DEF LoadCurrent, load_image, image_info, Fails, Succeeds,
      Attach, Detach, Booted, Promise, SizeOf
<1>6. CASE LoadNew
  BY Zenon, <1>6 DEF LoadNew, load_image, image_info, Fails, Succeeds, Attach,
      Detach, SizeOf
<1>7. CASE PromoteNew
  BY Zenon, <1>7 DEF PromoteNew, Adopt, f_rename, Renamable, Fails, Succeeds,
      Booted, Promise, Detach
<1>8. CASE LoadBackup
  BY Zenon, <1>8 DEF LoadBackup, load_image, image_info, Fails, Succeeds,
      Attach, Detach, Booted, SizeOf
<1>9. CASE RestoreBackup
  BY Zenon, <1>9 DEF RestoreBackup, Adopt, f_rename, Renamable, Fails,
      Succeeds, Booted, Promise, Detach
<1>10. CASE CreateBlank
  BY Zenon, <1>10 DEF CreateBlank, Attach
<1>11. CASE Created
  BY Zenon, <1>11 DEF Created, Booted, Detach
<1>12. CASE UnlinkNew
  BY Zenon, <1>12 DEF UnlinkNew, unlink_if_present, Put, Fails, Succeeds,
      Return
<1>13. CASE OpenNew
  BY Zenon, <1>13 DEF OpenNew, Put, Fails, Succeeds, Return
<1>14. CASE WriteNew
  BY Zenon, <1>14 DEF WriteNew, Put, Fails, Succeeds
<1>15. CASE StatCurrent
  BY Zenon, <1>15 DEF StatCurrent, image_info, Fails, Succeeds, SizeOf
<1>16. CASE UnlinkBackup
  BY Zenon, <1>16 DEF UnlinkBackup, unlink_if_present, Put, Fails, Succeeds
<1>17. CASE Retire
  BY Zenon, <1>17 DEF Retire, f_rename, Renamable, Fails, Succeeds
<1>18. CASE Promote
  BY Zenon, <1>18 DEF Promote, f_rename, Renamable, Fails, Succeeds, Promise,
      Return
<1>19. CASE RestoreCurrent
  BY Zenon, <1>19 DEF RestoreCurrent, f_rename, Renamable, Fails, Succeeds
<1>20. CASE Cleanup
  BY Zenon, <1>20 DEF Cleanup, unlink_if_present, Put, Fails, Succeeds, Return
<1>21. CASE EnterLoop
  BY Zenon, <1>21 DEF EnterLoop
<1>22. CASE Edit
  BY Zenon, <1>22 DEF Edit
<1>23. CASE Save
  BY Zenon, <1>23 DEF Save, EnterSave, Return
<1>24. CASE SaveReturned
  BY Zenon, <1>24 DEF SaveReturned
<1>25. CASE PowerOffTimeout
  BY Zenon, <1>25 DEF PowerOffTimeout
<1>26. CASE PowerLoss
  BY Zenon, <1>26 DEF PowerLoss, Detach
<1>27. CASE \E s \in Slots : ToggleMarker(s)
  BY Zenon, <1>27 DEF ToggleMarker
<1>28. CASE UNCHANGED vars
  BY Zenon, <1>28
<1> QED
  BY <1>1, <1>2, <1>3, <1>4, <1>5, <1>6, <1>7, <1>8, <1>9, <1>10, <1>11,
      <1>12, <1>13, <1>14, <1>15, <1>16, <1>17, <1>18, <1>19, <1>20, <1>21,
      <1>22, <1>23, <1>24, <1>25, <1>26, <1>27, <1>28
     DEF Next, BootNext, SaveNext, RunNext

(* Every step leaves the other variables in their sets; only Edit moves    *)
(* the clock, and its guard keeps it within MaxImage.                      *)
LEMMA StepData == TypeOK /\ [Next]_vars => DataOK'
<1> SUFFICES ASSUME TypeOK, [Next]_vars PROVE DataOK'
  OBVIOUS
<1> USE BoundsAssumption, StepNames, Values
    DEF TypeOK, FlagsOK, DataOK, Slots, Files, ImageResults, CardStatuses,
        vars, sdVars, storageVars, cardVars, bootVars, saveVars, faultVars,
        budgetVars
<1>1. CASE PowerOn
  BY <1>1 DEF PowerOn
<1>2. CASE NotReady
  BY <1>2 DEF NotReady, Booted, Detach
<1>3. CASE ModeError
  BY <1>3 DEF ModeError, Booted, Detach, Fails, Succeeds
<1>4. CASE SelectSlot
  BY <1>4 DEF SelectSlot, Detach, image_info, Fails, Succeeds, AutoSlot
<1>5. CASE LoadCurrent
  BY <1>5 DEF LoadCurrent, load_image, image_info, Fails, Succeeds, Attach,
      Detach, Booted, Promise, SizeOf
<1>6. CASE LoadNew
  BY <1>6 DEF LoadNew, load_image, image_info, Fails, Succeeds, Attach,
      Detach, SizeOf
<1>7. CASE PromoteNew
  BY <1>7 DEF PromoteNew, Adopt, f_rename, Renamable, Fails, Succeeds, Booted,
      Promise, Detach
<1>8. CASE LoadBackup
  BY <1>8 DEF LoadBackup, load_image, image_info, Fails, Succeeds, Attach,
      Detach, Booted, SizeOf
<1>9. CASE RestoreBackup
  BY <1>9 DEF RestoreBackup, Adopt, f_rename, Renamable, Fails, Succeeds,
      Booted, Promise, Detach
<1>10. CASE CreateBlank
  BY <1>10 DEF CreateBlank, Attach
<1>11. CASE Created
  BY <1>11 DEF Created, Booted, Detach
<1>12. CASE UnlinkNew
  BY <1>12 DEF UnlinkNew, unlink_if_present, Put, Fails, Succeeds, Return
<1>13. CASE OpenNew
  BY <1>13 DEF OpenNew, Put, Fails, Succeeds, Return
<1>14. CASE WriteNew
  BY <1>14 DEF WriteNew, Put, Fails, Succeeds
<1>15. CASE StatCurrent
  BY <1>15 DEF StatCurrent, image_info, Fails, Succeeds, SizeOf
<1>16. CASE UnlinkBackup
  BY <1>16 DEF UnlinkBackup, unlink_if_present, Put, Fails, Succeeds
<1>17. CASE Retire
  BY <1>17 DEF Retire, f_rename, Renamable, Fails, Succeeds
<1>18. CASE Promote
  BY <1>18 DEF Promote, f_rename, Renamable, Fails, Succeeds, Promise, Return
<1>19. CASE RestoreCurrent
  BY <1>19 DEF RestoreCurrent, f_rename, Renamable, Fails, Succeeds
<1>20. CASE Cleanup
  BY <1>20 DEF Cleanup, unlink_if_present, Put, Fails, Succeeds, Return
<1>21. CASE EnterLoop
  BY <1>21 DEF EnterLoop
<1>22. CASE Edit
  BY <1>22 DEF Edit, Images, Existing, Blank
<1>23. CASE Save
  BY <1>23 DEF Save, EnterSave, Return
<1>24. CASE SaveReturned
  BY <1>24 DEF SaveReturned
<1>25. CASE PowerOffTimeout
  BY <1>25 DEF PowerOffTimeout
<1>26. CASE PowerLoss
  BY <1>26 DEF PowerLoss, Detach
<1>27. CASE \E s \in Slots : ToggleMarker(s)
  BY <1>27 DEF ToggleMarker
<1>28. CASE UNCHANGED vars
  BY <1>28
<1> QED
  BY <1>1, <1>2, <1>3, <1>4, <1>5, <1>6, <1>7, <1>8, <1>9, <1>10, <1>11,
      <1>12, <1>13, <1>14, <1>15, <1>16, <1>17, <1>18, <1>19, <1>20, <1>21,
      <1>22, <1>23, <1>24, <1>25, <1>26, <1>27, <1>28
     DEF Next, BootNext, SaveNext, RunNext

(* Type correctness: in particular pc stays on a step of the program, a    *)
(* file holds an image, garbage or nothing, and the image in memory is     *)
(* always a real one.                                                      *)
THEOREM Typed == Spec => []TypeOK
<1>1. Init => TypeOK
  BY InitTyped
<1>2. TypeOK /\ [Next]_vars => TypeOK'
  BY StepFlags, StepData DEF TypeOK
<1> QED
  BY <1>1, <1>2, PTL DEF Spec

-----------------------------------------------------------------------------
(* What a rename and a promise do to each slot.                            *)

(* A rename that succeeds moves one file of the selected slot to a free    *)
(* name and touches nothing else.                                          *)
LEMMA Renamed ==
  ASSUME TypeOK, NEW from \in Files, NEW to \in Files, from # to,
         f_rename(from, to, TRUE)
  PROVE  /\ files'[slot][from] = Missing
         /\ files'[slot][to] = files[slot][from]
         /\ files[slot][from] # Missing /\ files[slot][to] = Missing
         /\ \A f \in Files \ {from, to} : files'[slot][f] = files[slot][f]
         /\ \A s \in Slots \ {slot} : files'[s] = files[s]
BY DEF TypeOK, DataOK, f_rename, Renamable, Files

(* A promise is about the selected slot only.                              *)
LEMMA Promised ==
  ASSUME TypeOK, NEW content, Promise(content)
  PROVE  /\ promised'[slot] = content
         /\ \A s \in Slots \ {slot} : promised'[s] = promised[s]
BY DEF TypeOK, DataOK, Promise

-----------------------------------------------------------------------------
(* The inductive invariant.                                                *)

(* A fresh SD card satisfies the invariant: what it holds is promised.     *)
LEMMA InitCard == Init => CardInv
<1> SUFFICES ASSUME Init PROVE CardInv
  OBVIOUS
<1>1. FilesInv
  BY Values DEF Init, FilesInv, SlotInv, FreshSlot, Slots, Files, Existing
<1>2. MemoryInv
  BY Zenon DEF Init, MemoryInv
<1>3. ControlInv
  BY DEF Init, ControlInv, SaveSteps
<1> QED
  BY InitTyped, <1>1, <1>2, <1>3 DEF CardInv

(* Promoting a recovered file makes the image in memory the promised one.  *)
(* MemoryInv says it is not older than the promise it replaces.            *)
LEMMA AdoptFiles ==
  ASSUME CardInv, NEW f \in {"NEW", "BAK"}, Adopt(f), files[slot][f] = image,
         UNCHANGED clock,
         files[slot]["CRD"] = Missing, attached
  PROVE  FilesInv'
<1>1. CASE f_rename(f, "CRD", TRUE) /\ Promise(image)
  <2> SUFFICES ASSUME NEW s \in Slots PROVE SlotInv(s)'
    BY DEF FilesInv
  <2>1. SlotInv(s)
    BY DEF CardInv, FilesInv
  <2>2. CASE s = slot
    <3>1. /\ files'[slot]["CRD"] = image /\ files'[slot][f] = Missing
          /\ \A g \in Files \ {f, "CRD"} : files'[slot][g] = files[slot][g]
          /\ promised'[slot] = image
      BY <1>1, Renamed, Promised DEF CardInv, Files
    <3>2. image \in Images /\ image <= clock
          /\ (promised[slot] \in Images => image >= promised[slot])
      BY DEF CardInv, MemoryInv, TypeOK, DataOK
    <3> QED
      BY <2>1, <2>2, <3>1, <3>2, Values DEF SlotInv, Files, CardInv, TypeOK, DataOK
  <2>3. CASE s # slot
    <3>1. files'[s] = files[s] /\ promised'[s] = promised[s]
      BY <1>1, <2>3, Renamed, Promised DEF CardInv, Files
    <3> QED
      BY <2>1, <3>1 DEF SlotInv
  <2> QED
    BY <2>2, <2>3
<1>2. CASE UNCHANGED <<files, promised>>
  BY <1>2 DEF CardInv, FilesInv, SlotInv
<1> QED
  BY <1>1, <1>2 DEF Adopt, f_rename

(* Promoting NEW at the end of a save: the same, and BAK is left alone.    *)
LEMMA PromoteFiles ==
  ASSUME CardInv, Promote PROVE FilesInv'
<1>1. CASE f_rename("NEW", "CRD", TRUE) /\ Promise(image)
  <2> SUFFICES ASSUME NEW s \in Slots PROVE SlotInv(s)'
    BY DEF FilesInv
  <2>1. SlotInv(s)
    BY DEF CardInv, FilesInv
  <2>0. clock' = clock
    BY DEF Promote, budgetVars
  <2>2. CASE s = slot
    <3>1. /\ files'[slot]["CRD"] = image /\ files'[slot]["NEW"] = Missing
          /\ files'[slot]["BAK"] = files[slot]["BAK"]
          /\ promised'[slot] = image
      BY <1>1, Renamed, Promised DEF CardInv, Files, Promote, ControlInv
    <3>2. image \in Images /\ image <= clock
          /\ (promised[slot] \in Images => image >= promised[slot])
      BY DEF CardInv, MemoryInv, TypeOK, DataOK, Promote, ControlInv, SaveSteps
    <3> QED
      BY <2>0, <2>1, <2>2, <3>1, <3>2, Values DEF SlotInv, Files, CardInv, TypeOK, DataOK
  <2>3. CASE s # slot
    <3>1. files'[s] = files[s] /\ promised'[s] = promised[s]
      BY <1>1, <2>3, Renamed, Promised DEF CardInv, Files
    <3> QED
      BY <2>0, <2>1, <3>1 DEF SlotInv
  <2> QED
    BY <2>2, <2>3
<1>2. CASE UNCHANGED <<files, promised>>
  BY <1>2 DEF Promote, budgetVars, CardInv, FilesInv, SlotInv
<1> QED
  BY <1>1, <1>2 DEF Promote, f_rename

(* After the promotion the image in memory is what CRD holds.              *)
LEMMA PromoteMemory ==
  ASSUME CardInv, Promote PROVE MemoryInv'
<1>1. /\ attached /\ dirty /\ slot \in Slots /\ image \in Images
      /\ files[slot]["NEW"] = image
      /\ UNCHANGED <<attached, image, slot, clock>>
  BY Zenon DEF CardInv, ControlInv, TypeOK, DataOK, Promote, SaveSteps, bootVars,
     budgetVars
<1>2. image' <= clock'
  BY <1>1 DEF CardInv, MemoryInv
<1>3. CASE f_rename("NEW", "CRD", TRUE) /\ Promise(image)
  <2>1. files'[slot']["CRD"] = image' /\ promised'[slot'] = image'
    BY <1>1, <1>3, Renamed, Promised DEF CardInv, Files
  <2>2. image' >= promised'[slot'] /\ files'[slot']["CRD"] # BadSize
    BY <1>1, <2>1, Values
  <2> QED
    BY Zenon, <1>2, <2>1, <2>2 DEF MemoryInv
<1>4. CASE UNCHANGED <<files, promised, dirty>>
  BY Zenon, <1>1, <1>2, <1>4 DEF CardInv, MemoryInv
<1> QED
  BY <1>3, <1>4 DEF Promote, f_rename

(* An edit makes an image newer than everything on the SD card.            *)
LEMMA EditFiles ==
  ASSUME CardInv, Edit PROVE FilesInv' /\ MemoryInv'
<1>1. /\ clock \in Nat /\ clock' = clock + 1 /\ image' = clock'
      /\ UNCHANGED <<files, promised, slot>> /\ dirty' /\ attached'
  BY Values, Zenon DEF CardInv, TypeOK, DataOK, Edit, sdVars, bootVars
<1>2. \A s \in Slots : promised[s] \in Images => promised[s] \in Nat
  BY Values
<1>3. \A s \in Slots : files[s]["NEW"] \in Images => files[s]["NEW"] \in Nat
  BY Values
<1>4. FilesInv'
  BY <1>1, <1>2, <1>3 DEF CardInv, FilesInv, SlotInv
<1>5. slot \in Slots /\ files[slot]["CRD"] # BadSize
  BY DEF CardInv, MemoryInv, Edit, TypeOK, DataOK
<1>6. image' <= clock' /\ (promised'[slot'] \in Images => image' >= promised'[slot'])
  BY <1>1, <1>2, <1>4, <1>5 DEF FilesInv, SlotInv
<1>7. files'[slot']["CRD"] # BadSize /\ dirty'
  BY <1>1, <1>5
<1> QED
  BY Zenon, <1>4, <1>6, <1>7 DEF MemoryInv

(* Every step keeps the files of every slot consistent with the promise.   *)
LEMMA StepFiles == CardInv /\ [Next]_vars => FilesInv'
<1> SUFFICES ASSUME CardInv, [Next]_vars PROVE FilesInv'
  OBVIOUS
<1> USE Values
    DEF CardInv, TypeOK, DataOK, FlagsOK, SlotInv, FilesInv, MemoryInv,
        ControlInv, Slots, Files, SaveSteps,
        vars, sdVars, storageVars, cardVars, bootVars, saveVars, faultVars,
        budgetVars
<1>1. CASE PowerOn
  BY <1>1 DEF PowerOn
<1>2. CASE NotReady
  BY <1>2 DEF NotReady, Booted, Detach
<1>3. CASE ModeError
  BY <1>3 DEF ModeError, Booted, Detach, Fails, Succeeds
<1>4. CASE SelectSlot
  BY <1>4 DEF SelectSlot, Detach, image_info, Fails, Succeeds, AutoSlot
<1>5. CASE LoadCurrent
  BY <1>5 DEF LoadCurrent, load_image, image_info, Fails, Succeeds, Attach,
      Detach, Booted, Promise, SizeOf
<1>6. CASE LoadNew
  BY <1>6 DEF LoadNew, load_image, image_info, Fails, Succeeds, Attach,
      Detach, SizeOf
<1>7. CASE PromoteNew
  BY <1>7, AdoptFiles DEF PromoteNew
<1>8. CASE LoadBackup
  BY <1>8 DEF LoadBackup, load_image, image_info, Fails, Succeeds, Attach,
      Detach, Booted, SizeOf
<1>9. CASE RestoreBackup
  BY <1>9, AdoptFiles DEF RestoreBackup
<1>10. CASE CreateBlank
  BY <1>10 DEF CreateBlank, Attach
<1>11. CASE Created
  BY <1>11 DEF Created, Booted, Detach
<1>12. CASE UnlinkNew
  BY <1>12 DEF UnlinkNew, unlink_if_present, Put, Fails, Succeeds, Return
<1>13. CASE OpenNew
  BY <1>13 DEF OpenNew, Put, Fails, Succeeds, Return
<1>14. CASE WriteNew
  BY <1>14 DEF WriteNew, Put, Fails, Succeeds
<1>15. CASE StatCurrent
  BY <1>15 DEF StatCurrent, image_info, Fails, Succeeds, SizeOf
<1>16. CASE UnlinkBackup
  BY <1>16 DEF UnlinkBackup, unlink_if_present, Put, Fails, Succeeds
<1>17. CASE Retire
  BY <1>17 DEF Retire, f_rename, Renamable, Fails, Succeeds
<1>18. CASE Promote
  BY <1>18, PromoteFiles
<1>19. CASE RestoreCurrent
  BY <1>19 DEF RestoreCurrent, f_rename, Renamable, Fails, Succeeds
<1>20. CASE Cleanup
  BY <1>20 DEF Cleanup, unlink_if_present, Put, Fails, Succeeds, Return
<1>21. CASE EnterLoop
  BY <1>21 DEF EnterLoop
<1>22. CASE Edit
  BY <1>22, EditFiles
<1>23. CASE Save
  BY <1>23 DEF Save, EnterSave, Return
<1>24. CASE SaveReturned
  BY <1>24 DEF SaveReturned
<1>25. CASE PowerOffTimeout
  BY <1>25 DEF PowerOffTimeout
<1>26. CASE PowerLoss
  BY <1>26 DEF PowerLoss, Detach
<1>27. CASE \E s \in Slots : ToggleMarker(s)
  BY <1>27 DEF ToggleMarker
<1>28. CASE UNCHANGED vars
  BY <1>28
<1> QED
  BY <1>1, <1>2, <1>3, <1>4, <1>5, <1>6, <1>7, <1>8, <1>9, <1>10, <1>11,
      <1>12, <1>13, <1>14, <1>15, <1>16, <1>17, <1>18, <1>19, <1>20, <1>21,
      <1>22, <1>23, <1>24, <1>25, <1>26, <1>27, <1>28
     DEF Next, BootNext, SaveNext, RunNext

(* Every step keeps the card in memory at least as new as the promise, and *)
(* a clean one equal to CRD.                                               *)
LEMMA StepMemory == CardInv /\ [Next]_vars => MemoryInv'
<1> SUFFICES ASSUME CardInv, [Next]_vars PROVE MemoryInv'
  OBVIOUS
<1> USE Values
    DEF CardInv, TypeOK, DataOK, FlagsOK, SlotInv, FilesInv, MemoryInv,
        ControlInv, Slots, Files, SaveSteps,
        vars, sdVars, storageVars, cardVars, bootVars, saveVars, faultVars,
        budgetVars
<1>1. CASE PowerOn
  BY <1>1 DEF PowerOn
<1>2. CASE NotReady
  BY <1>2 DEF NotReady, Booted, Detach
<1>3. CASE ModeError
  BY <1>3 DEF ModeError, Booted, Detach, Fails, Succeeds
<1>4. CASE SelectSlot
  BY <1>4 DEF SelectSlot, Detach, image_info, Fails, Succeeds, AutoSlot
<1>5. CASE LoadCurrent
  BY <1>5 DEF LoadCurrent, load_image, image_info, Fails, Succeeds, Attach,
      Detach, Booted, Promise, SizeOf
<1>6. CASE LoadNew
  BY <1>6 DEF LoadNew, load_image, image_info, Fails, Succeeds, Attach,
      Detach, SizeOf
<1>7. CASE PromoteNew
  BY <1>7 DEF PromoteNew, Adopt, f_rename, Renamable, Fails, Succeeds, Booted,
      Promise, Detach
<1>8. CASE LoadBackup
  BY <1>8 DEF LoadBackup, load_image, image_info, Fails, Succeeds, Attach,
      Detach, Booted, SizeOf
<1>9. CASE RestoreBackup
  BY <1>9 DEF RestoreBackup, Adopt, f_rename, Renamable, Fails, Succeeds,
      Booted, Promise, Detach
<1>10. CASE CreateBlank
  BY <1>10 DEF CreateBlank, Attach
<1>11. CASE Created
  BY <1>11 DEF Created, Booted, Detach
<1>12. CASE UnlinkNew
  BY <1>12 DEF UnlinkNew, unlink_if_present, Put, Fails, Succeeds, Return
<1>13. CASE OpenNew
  BY <1>13 DEF OpenNew, Put, Fails, Succeeds, Return
<1>14. CASE WriteNew
  BY <1>14 DEF WriteNew, Put, Fails, Succeeds
<1>15. CASE StatCurrent
  BY <1>15 DEF StatCurrent, image_info, Fails, Succeeds, SizeOf
<1>16. CASE UnlinkBackup
  BY <1>16 DEF UnlinkBackup, unlink_if_present, Put, Fails, Succeeds
<1>17. CASE Retire
  BY <1>17 DEF Retire, f_rename, Renamable, Fails, Succeeds
<1>18. CASE Promote
  BY <1>18, PromoteMemory
<1>19. CASE RestoreCurrent
  BY <1>19 DEF RestoreCurrent, f_rename, Renamable, Fails, Succeeds
<1>20. CASE Cleanup
  BY <1>20 DEF Cleanup, unlink_if_present, Put, Fails, Succeeds, Return
<1>21. CASE EnterLoop
  BY <1>21 DEF EnterLoop
<1>22. CASE Edit
  BY <1>22, EditFiles
<1>23. CASE Save
  BY <1>23 DEF Save, EnterSave, Return
<1>24. CASE SaveReturned
  BY <1>24 DEF SaveReturned
<1>25. CASE PowerOffTimeout
  BY <1>25 DEF PowerOffTimeout
<1>26. CASE PowerLoss
  BY <1>26 DEF PowerLoss, Detach
<1>27. CASE \E s \in Slots : ToggleMarker(s)
  BY <1>27 DEF ToggleMarker
<1>28. CASE UNCHANGED vars
  BY <1>28
<1> QED
  BY <1>1, <1>2, <1>3, <1>4, <1>5, <1>6, <1>7, <1>8, <1>9, <1>10, <1>11,
      <1>12, <1>13, <1>14, <1>15, <1>16, <1>17, <1>18, <1>19, <1>20, <1>21,
      <1>22, <1>23, <1>24, <1>25, <1>26, <1>27, <1>28
     DEF Next, BootNext, SaveNext, RunNext

(* Every step establishes what the next value of pc says about the files.  *)
LEMMA StepControl == CardInv /\ [Next]_vars => ControlInv'
<1> SUFFICES ASSUME CardInv, [Next]_vars PROVE ControlInv'
  OBVIOUS
<1> USE Values
    DEF CardInv, TypeOK, DataOK, FlagsOK, SlotInv, FilesInv, MemoryInv,
        ControlInv, Slots, Files, SaveSteps,
        vars, sdVars, storageVars, cardVars, bootVars, saveVars, faultVars,
        budgetVars
<1>1. CASE PowerOn
  BY <1>1 DEF PowerOn
<1>2. CASE NotReady
  BY <1>2 DEF NotReady, Booted, Detach
<1>3. CASE ModeError
  BY <1>3 DEF ModeError, Booted, Detach, Fails, Succeeds
<1>4. CASE SelectSlot
  BY <1>4 DEF SelectSlot, Detach, image_info, Fails, Succeeds, AutoSlot
<1>5. CASE LoadCurrent
  BY <1>5 DEF LoadCurrent, load_image, image_info, Fails, Succeeds, Attach,
      Detach, Booted, Promise, SizeOf
<1>6. CASE LoadNew
  BY <1>6 DEF LoadNew, load_image, image_info, Fails, Succeeds, Attach,
      Detach, SizeOf
<1>7. CASE PromoteNew
  BY <1>7 DEF PromoteNew, Adopt, f_rename, Renamable, Fails, Succeeds, Booted,
      Promise, Detach
<1>8. CASE LoadBackup
  BY <1>8 DEF LoadBackup, load_image, image_info, Fails, Succeeds, Attach,
      Detach, Booted, SizeOf
<1>9. CASE RestoreBackup
  BY <1>9 DEF RestoreBackup, Adopt, f_rename, Renamable, Fails, Succeeds,
      Booted, Promise, Detach
<1>10. CASE CreateBlank
  BY <1>10 DEF CreateBlank, Attach
<1>11. CASE Created
  BY <1>11 DEF Created, Booted, Detach
<1>12. CASE UnlinkNew
  BY <1>12 DEF UnlinkNew, unlink_if_present, Put, Fails, Succeeds, Return
<1>13. CASE OpenNew
  BY <1>13 DEF OpenNew, Put, Fails, Succeeds, Return
<1>14. CASE WriteNew
  BY <1>14 DEF WriteNew, Put, Fails, Succeeds
<1>15. CASE StatCurrent
  BY <1>15 DEF StatCurrent, image_info, Fails, Succeeds, SizeOf
<1>16. CASE UnlinkBackup
  BY <1>16 DEF UnlinkBackup, unlink_if_present, Put, Fails, Succeeds
<1>17. CASE Retire
  BY <1>17 DEF Retire, f_rename, Renamable, Fails, Succeeds
<1>18. CASE Promote
  BY <1>18 DEF Promote, f_rename, Renamable, Fails, Succeeds, Promise, Return
<1>19. CASE RestoreCurrent
  BY <1>19 DEF RestoreCurrent, f_rename, Renamable, Fails, Succeeds
<1>20. CASE Cleanup
  BY <1>20 DEF Cleanup, unlink_if_present, Put, Fails, Succeeds, Return
<1>21. CASE EnterLoop
  BY <1>21 DEF EnterLoop
<1>22. CASE Edit
  BY <1>22 DEF Edit
<1>23. CASE Save
  BY <1>23 DEF Save, EnterSave, Return
<1>24. CASE SaveReturned
  BY <1>24 DEF SaveReturned
<1>25. CASE PowerOffTimeout
  BY <1>25 DEF PowerOffTimeout
<1>26. CASE PowerLoss
  BY <1>26 DEF PowerLoss, Detach
<1>27. CASE \E s \in Slots : ToggleMarker(s)
  BY <1>27 DEF ToggleMarker
<1>28. CASE UNCHANGED vars
  BY <1>28
<1> QED
  BY <1>1, <1>2, <1>3, <1>4, <1>5, <1>6, <1>7, <1>8, <1>9, <1>10, <1>11,
      <1>12, <1>13, <1>14, <1>15, <1>16, <1>17, <1>18, <1>19, <1>20, <1>21,
      <1>22, <1>23, <1>24, <1>25, <1>26, <1>27, <1>28
     DEF Next, BootNext, SaveNext, RunNext

(* The inductive invariant: each slot keeps its promised image in CRD or,  *)
(* between two renames, in BAK, whatever fails and wherever power goes.    *)
THEOREM CardInvariant == Spec => []CardInv
<1>1. Init => CardInv
  BY InitCard
<1>2. CardInv /\ [Next]_vars => CardInv'
  BY StepFlags, StepData, StepFiles, StepMemory, StepControl
     DEF CardInv, TypeOK
<1> QED
  BY <1>1, <1>2, PTL DEF Spec

-----------------------------------------------------------------------------
(* What the invariant gives.                                               *)

(* No interleaving of saves, repairs at boot, failing FatFs calls and      *)
(* power cuts loses the image last reported as safe.                       *)
THEOREM CardIsDurable == Spec => []Durable
<1>1. CardInv => Durable
  <2> SUFFICES ASSUME CardInv, NEW s \in Slots, promised[s] # Missing
               PROVE  Survivor(s) \in Images /\ Survivor(s) >= promised[s]
    BY DEF Durable
  <2>1. promised[s] \in Images /\ promised[s] \in Nat
    BY Values DEF CardInv, TypeOK, DataOK
  <2>2. SlotInv(s)
    BY DEF CardInv, FilesInv
  <2>3. CASE files[s]["CRD"] = promised[s]
    BY <2>1, <2>3, Values DEF Survivor
  <2>4. CASE files[s]["CRD"] = Missing /\ files[s]["BAK"] = promised[s]
    BY <2>1, <2>2, <2>4, Values DEF Survivor, SlotInv
  <2> QED
    BY <2>1, <2>2, <2>3, <2>4 DEF SlotInv
<1> QED
  BY CardInvariant, <1>1, PTL

(* While the calculator runs, a card that is not dirty is on the SD card.  *)
THEOREM CleanIsSaved == Spec => []CleanMeansSaved
<1>1. CardInv => CleanMeansSaved
  BY DEF CardInv, MemoryInv, CleanMeansSaved
<1> QED
  BY CardInvariant, <1>1, PTL

(* Only a save and the two repairs at boot change the files.               *)
LEMMA Writers ==
  ASSUME [Next]_vars, ~SaveNext, ~PromoteNew, ~RestoreBackup
  PROVE  files' = files
<1> USE DEF vars, sdVars
<1>1. CASE BootNext
  BY Zenon, <1>1 DEF BootNext, PowerOn, NotReady, ModeError, SelectSlot, LoadCurrent,
     LoadNew, LoadBackup, CreateBlank, Created
<1>2. CASE RunNext
  BY Zenon, <1>2 DEF RunNext, EnterLoop, Edit, Save, EnterSave, SaveReturned,
     PowerOffTimeout
<1>3. CASE PowerLoss \/ \E s \in Slots : ToggleMarker(s)
  BY Zenon, <1>3 DEF PowerLoss, ToggleMarker
<1>4. CASE UNCHANGED vars
  BY Zenon, <1>4
<1> QED
  BY Zenon, <1>1, <1>2, <1>3, <1>4 DEF Next

(* What a step may do to the files of one slot, put together: CRD is never *)
(* taken from a user's file of another size, and BAK is only ever removed  *)
(* or given the promised image.                                            *)
LEMMA StepOfFiles ==
  ASSUME CardInv, [Next]_vars, NEW s \in Slots
  PROVE  /\ files[s]["CRD"] = BadSize => files'[s]["CRD"] = BadSize
         /\ files'[s]["BAK"] \in {files[s]["BAK"], Missing, promised[s]}
<1> USE Values DEF CardInv, TypeOK, DataOK, FilesInv, SlotInv, ControlInv, MemoryInv,
        Slots, Files, SaveSteps
<1>0. ASSUME NEW content, Put("NEW", content)
      PROVE  /\ files'[s]["CRD"] = files[s]["CRD"]
             /\ files'[s]["BAK"] = files[s]["BAK"]
  BY <1>0 DEF Put
<1>1. CASE UnlinkNew
  <2>1. files' = files \/ Put("NEW", Missing)
    BY Zenon, <1>1 DEF UnlinkNew, unlink_if_present
  <2> QED
    BY <1>0, <2>1
<1>2. CASE OpenNew
  <2>1. files' = files \/ Put("NEW", BadSize)
    BY Zenon, <1>2 DEF OpenNew
  <2> QED
    BY <1>0, <2>1
<1>3. CASE WriteNew
  <2>1. files' = files \/ Put("NEW", image)
    BY Zenon, <1>3 DEF WriteNew
  <2> QED
    BY <1>0, <2>1
<1>4. CASE StatCurrent
  BY <1>4 DEF StatCurrent, sdVars
<1>5. CASE UnlinkBackup
  BY <1>5 DEF UnlinkBackup, unlink_if_present, Put
<1>6. CASE Retire
  BY <1>6 DEF Retire, f_rename, Renamable
<1>7. CASE Promote
  <2>1. files' = files \/ f_rename("NEW", "CRD", TRUE)
    BY Zenon, <1>7 DEF Promote, f_rename
  <2>2. "NEW" \in Files /\ "CRD" \in Files /\ "BAK" \in Files
    OBVIOUS
  <2> QED
    BY <2>1, <2>2, Renamed
<1>8. CASE RestoreCurrent
  BY <1>8 DEF RestoreCurrent, f_rename, Renamable
<1>9. CASE Cleanup
  BY <1>9 DEF Cleanup, unlink_if_present, Put
<1>10. CASE PromoteNew
  BY <1>10 DEF PromoteNew, Adopt, f_rename, Renamable
<1>11. CASE RestoreBackup
  BY <1>11 DEF RestoreBackup, Adopt, f_rename, Renamable
<1>12. CASE files' = files
  BY <1>12
<1> QED
  <2>1. \/ SaveNext \/ PromoteNew \/ RestoreBackup \/ files' = files
    BY Zenon, Writers
  <2> QED
    BY <2>1, <1>1, <1>2, <1>3, <1>4, <1>5, <1>6, <1>7, <1>8, <1>9, <1>10,
       <1>11, <1>12 DEF SaveNext

(* A user's PORTn.CRD of another size is never replaced or removed.        *)
THEOREM ForeignImageIsSafe == Spec => ForeignImageUntouched
<1>1. CardInv /\ [Next]_vars =>
        [\A s \in Slots : files[s]["CRD"] = BadSize =>
                            files'[s]["CRD"] = BadSize]_vars
  BY StepOfFiles
<1> QED
  BY CardInvariant, <1>1, PTL DEF Spec, ForeignImageUntouched

(* Nothing gets into PORTn.BAK that was not reported as safe before.       *)
THEOREM BackupIsCommitted == Spec => BackupWasCommitted
<1>1. CardInv /\ [Next]_vars =>
        [\A s \in Slots :
           files'[s]["BAK"] \in {files[s]["BAK"], Missing, promised[s]}]_vars
  BY StepOfFiles
<1> QED
  BY CardInvariant, <1>1, PTL DEF Spec, BackupWasCommitted

-----------------------------------------------------------------------------
(* What the steps of a save and of a boot do to the promise.               *)

BootRead == NotReady \/ ModeError \/ SelectSlot \/ LoadCurrent \/ LoadNew
              \/ LoadBackup \/ RestoreBackup \/ CreateBlank \/ Created

(* A promise of what is promised already changes nothing.                  *)
LEMMA PromiseAgain ==
  ASSUME TypeOK, Promise(promised[slot]) PROVE promised' = promised
BY DEF TypeOK, DataOK, Promise

(* Only Promote, when it succeeds, changes the promise within a save; it   *)
(* is then that the card becomes clean and the save returns true.          *)
LEMMA SaveShape ==
  ASSUME CardInv, SaveNext
  PROVE  /\ pc \in SaveSteps \ {"saved"} /\ pc' \in SaveSteps
         /\ UNCHANGED <<attached, image, slot, caller, clock>>
         /\ \/ UNCHANGED <<promised, dirty>> /\ (pc' = "saved" => ~okay')
            \/ Promise(image) /\ ~dirty' /\ pc' = "saved" /\ okay'
<1> USE DEF SaveSteps, cardVars, bootVars, saveVars, budgetVars, Return
<1>1. CASE UnlinkNew
  BY <1>1 DEF UnlinkNew
<1>2. CASE OpenNew
  BY <1>2 DEF OpenNew
<1>3. CASE WriteNew
  BY <1>3 DEF WriteNew
<1>4. CASE StatCurrent
  BY <1>4 DEF StatCurrent
<1>5. CASE UnlinkBackup
  BY <1>5 DEF UnlinkBackup
<1>6. CASE Retire
  BY <1>6 DEF Retire
<1>7. CASE Promote
  BY <1>7 DEF Promote
<1>8. CASE RestoreCurrent
  BY <1>8 DEF RestoreCurrent
<1>9. CASE Cleanup
  BY <1>9 DEF Cleanup
<1> QED
  BY <1>1, <1>2, <1>3, <1>4, <1>5, <1>6, <1>7, <1>8, <1>9 DEF SaveNext

(* A step of the boot that reads, or restores BAK, promises nothing new: a *)
(* file that is adopted without being NEW is the promised one.             *)
LEMMA BootPromise ==
  ASSUME CardInv, BootRead
  PROVE  promised' = promised
<1> USE DEF CardInv, TypeOK, DataOK, FilesInv, SlotInv
<1>1. CASE LoadCurrent
  <2>1. CASE Promise(image') /\ load_image("CRD", "OK")
    <3>1. image' = files[slot]["CRD"] /\ files[slot]["CRD"] \in Images
      BY <2>1, Values DEF load_image, image_info, SizeOf, Attach, Files
    <3> QED
      BY Zenon, <2>1, <3>1, PromiseAgain
  <2> QED
    BY Zenon, <1>1, <2>1 DEF LoadCurrent
<1>2. CASE RestoreBackup
  <2>1. CASE Promise(image)
    <3>1. files[slot]["BAK"] = image /\ files[slot]["CRD"] = Missing
      BY <1>2 DEF ControlInv, RestoreBackup
    <3>2. promised[slot] = image
      BY <3>1, Values
    <3> QED
      BY Zenon, <2>1, <3>2, PromiseAgain
  <2> QED
    BY Zenon, <1>2, <2>1 DEF RestoreBackup, Adopt
<1>3. CASE NotReady \/ ModeError \/ SelectSlot \/ LoadNew \/ LoadBackup
             \/ CreateBlank \/ Created
  BY Zenon, <1>3 DEF NotReady, ModeError, SelectSlot, LoadNew, LoadBackup,
     CreateBlank, Created
<1> QED
  BY Zenon, <1>1, <1>2, <1>3 DEF BootRead

-----------------------------------------------------------------------------
(* Saves and boots fail only because of a fault.                           *)

(* A call that fails is a fault.                                           *)
LEMMA FailsIsFault ==
  ASSUME Fails, UNCHANGED storageVars PROVE Failed'
BY Zenon DEF Fails, Failed, storageVars, faultVars

(* The steps of a save that turn back were stopped by a fault.             *)
LEMMA StepSaveFault ==
  ASSUME CardInv, FaultInv, [Next]_vars PROVE SaveFaultInv'
<1> DEFINE Turning == {"restore_current", "cleanup", "saved", "retire", "promote"}
<1> USE DEF SaveFaultInv
<1>0. SaveFaultInv /\ slot \in Slots
  BY Zenon DEF FaultInv, CardInv, TypeOK, DataOK
<1>1. ASSUME pc' \notin Turning PROVE SaveFaultInv'
  BY Zenon, <1>1
<1>2. CASE BootNext \/ PowerLoss \/ \E s \in Slots : ToggleMarker(s)
  <2>1. pc' \notin Turning
    BY <1>2 DEF BootNext, PowerOn, NotReady, ModeError, SelectSlot, LoadCurrent,
       LoadNew, PromoteNew, LoadBackup, RestoreBackup, Adopt, CreateBlank,
       Created, Booted, PowerLoss, ToggleMarker
  <2> QED
    BY Zenon, <1>1, <2>1
<1>3. CASE EnterLoop \/ Edit \/ SaveReturned \/ PowerOffTimeout
  <2>1. pc' = "run"
    BY <1>3 DEF EnterLoop, Edit, SaveReturned, PowerOffTimeout
  <2> QED
    BY <1>1, <2>1
<1>4. CASE Save
  <2>1. CASE pc' = "unlink_new"
    BY <1>1, <2>1
  <2>2. CASE pc' = "saved" /\ okay' = TRUE
    BY Zenon, <2>2
  <2>3. CASE pc' = "saved" /\ ~ready /\ ready' = ready
    BY <2>3 DEF Failed
  <2> QED
    BY Zenon, <1>4, <2>1, <2>2, <2>3 DEF Save, EnterSave, Return, storageVars
<1>5. CASE UnlinkNew
  <2>1. CASE Fails /\ pc' = "saved"
    BY Zenon, <1>5, <2>1, FailsIsFault DEF UnlinkNew
  <2>2. CASE pc' = "open_new"
    BY <1>1, <2>2
  <2> QED
    BY Zenon, <1>5, <2>1, <2>2 DEF UnlinkNew, unlink_if_present, Return
<1>6. CASE OpenNew
  <2>1. CASE Fails /\ pc' = "saved"
    BY Zenon, <1>6, <2>1, FailsIsFault DEF OpenNew
  <2>2. CASE pc' = "write_new"
    BY <1>1, <2>2
  <2> QED
    BY Zenon, <1>6, <2>1, <2>2 DEF OpenNew, Return
<1>7. CASE WriteNew
  <2>1. CASE Fails /\ pc' = "cleanup"
    BY Zenon, <1>7, <2>1, FailsIsFault DEF WriteNew
  <2>2. CASE pc' = "stat_current"
    BY <1>1, <2>2
  <2> QED
    BY Zenon, <1>7, <2>1, <2>2 DEF WriteNew
<1>8. CASE StatCurrent
  <2>1. files[slot]["CRD"] \in Images \cup {Missing} /\ Missing \notin Images
    BY <1>0, <1>8, Values
       DEF CardInv, TypeOK, DataOK, MemoryInv, ControlInv, StatCurrent, SaveSteps,
           Files
  <2>2. PICK result \in ImageResults :
          /\ image_info(files[slot]["CRD"], result)
          /\ pc' = CASE result = "OK" -> "unlink_backup"
                     [] result = "MISSING" -> "promote"
                     [] OTHER -> "cleanup"
    BY Zenon, <1>8 DEF StatCurrent
  <2>3. CASE Fails /\ result = "IO_ERROR"
    <3>1. pc' = "cleanup"
      BY <2>2, <2>3
    <3> QED
      BY Zenon, <1>8, <2>3, <3>1, FailsIsFault DEF StatCurrent
  <2>4. CASE result = "OK"
    BY <1>1, <2>2, <2>4
  <2>5. CASE result = SizeOf(files[slot]["CRD"]) /\ result # "OK"
    <3>1. files[slot]["CRD"] = Missing /\ result = "MISSING"
      BY <2>1, <2>5, Values DEF SizeOf
    <3>2. pc' = "promote" /\ files' = files /\ slot' = slot
      BY <1>8, <2>2, <3>1 DEF StatCurrent, sdVars, bootVars
    <3> QED
      BY <3>1, <3>2
  <2> QED
    BY Zenon, <2>2, <2>3, <2>4, <2>5 DEF image_info
<1>9. CASE UnlinkBackup
  <2>1. CASE Fails /\ pc' = "cleanup"
    BY Zenon, <1>9, <2>1, FailsIsFault DEF UnlinkBackup
  <2>2. CASE Put("BAK", Missing) /\ pc' = "retire"
    <3>1. files'[slot']["BAK"] = Missing
      BY <1>0, <1>9, <2>2
         DEF Put, UnlinkBackup, bootVars, CardInv, TypeOK, DataOK, Files
    <3> QED
      BY <2>2, <3>1
  <2> QED
    BY Zenon, <1>9, <2>1, <2>2 DEF UnlinkBackup, unlink_if_present
<1>10. CASE Retire
  <2>1. Renamable("CRD", "BAK") /\ slot' = slot
    BY <1>0, <1>10, Values DEF Renamable, Retire, bootVars, CardInv, ControlInv
  <2>2. CASE Fails /\ pc' = "cleanup"
    BY Zenon, <1>10, <2>2, FailsIsFault DEF Retire
  <2>3. CASE f_rename("CRD", "BAK", TRUE) /\ pc' = "promote"
    <3>1. files'[slot]["CRD"] = Missing
      BY <2>3, Renamed DEF CardInv, Files
    <3> QED
      BY <2>1, <2>3, <3>1
  <2> QED
    BY Zenon, <1>10, <2>1, <2>2, <2>3 DEF Retire, f_rename
<1>11. CASE Promote
  <2>1. Renamable("NEW", "CRD")
    BY <1>0, <1>11, Values
       DEF Renamable, Promote, CardInv, ControlInv, TypeOK, DataOK
  <2>2. CASE Fails /\ pc' \in {"restore_current", "cleanup"}
    <3>1. Failed'
      BY Zenon, <1>11, <2>2, FailsIsFault DEF Promote
    <3> QED
      BY <2>2, <3>1
  <2>3. CASE pc' = "saved" /\ okay' = TRUE
    BY Zenon, <2>3
  <2> QED
    BY Zenon, <1>11, <2>1, <2>2, <2>3 DEF Promote, f_rename, Return
<1>12. CASE RestoreCurrent \/ Cleanup
  <2>1. Failed /\ pc' \in {"cleanup", "saved"}
    BY <1>0, <1>12 DEF RestoreCurrent, Cleanup, Return
  <2>2. Fails \/ UNCHANGED faultVars
    BY Zenon, <1>12
       DEF RestoreCurrent, Cleanup, f_rename, unlink_if_present, Succeeds
  <2>3. UNCHANGED storageVars
    BY Zenon, <1>12 DEF RestoreCurrent, Cleanup
  <2>4. Failed'
    BY Zenon, <2>1, <2>2, <2>3, FailsIsFault DEF Failed, faultVars, storageVars
  <2> QED
    BY <2>1, <2>4
<1>13. CASE UNCHANGED vars
  BY Zenon, <1>0, <1>13
     DEF vars, sdVars, storageVars, bootVars, saveVars, faultVars, Failed
<1> QED
  BY Zenon, <1>2, <1>3, <1>4, <1>5, <1>6, <1>7, <1>8, <1>9, <1>10, <1>11, <1>12,
     <1>13 DEF Next, SaveNext, RunNext

(* A boot has nothing attached before it loads an image.                   *)
LEMMA StepBootCard ==
  ASSUME CardInv, FaultInv, [Next]_vars PROVE BootCardInv'
<1> DEFINE Looking == {"load_current", "load_new", "load_backup", "create_blank"}
<1> USE DEF BootCardInv
<1>0. BootCardInv
  BY DEF FaultInv
<1>1. ASSUME pc' \notin Looking \cup SaveSteps PROVE BootCardInv'
  BY Zenon, <1>1
<1>2. ASSUME pc' \notin SaveSteps, Detach PROVE BootCardInv'
  BY Zenon, <1>2 DEF Detach
<1>3. CASE PowerOn \/ NotReady \/ ModeError \/ PromoteNew \/ RestoreBackup \/ Created
  <2>1. pc' \in {"select", "booted"}
    BY <1>3 DEF PowerOn, NotReady, ModeError, PromoteNew, RestoreBackup, Adopt,
       Created, Booted
  <2> QED
    BY <1>1, <2>1 DEF SaveSteps
<1>4. CASE SelectSlot
  BY <1>2, <1>4 DEF SelectSlot, SaveSteps
<1>5. CASE LoadCurrent
  <2>1. pc' = "booted" \/ (pc' = "load_new" /\ Detach)
    BY <1>5 DEF LoadCurrent, load_image, Booted
  <2> QED
    BY <1>1, <1>2, <2>1 DEF SaveSteps
<1>6. CASE LoadNew
  <2>1. pc' = "promote_new" \/ (pc' = "load_backup" /\ Detach)
    BY <1>6 DEF LoadNew, load_image
  <2> QED
    BY <1>1, <1>2, <2>1 DEF SaveSteps
<1>7. CASE LoadBackup
  <2>1. pc' \in {"restore_backup", "booted"} \/ (pc' = "create_blank" /\ Detach)
    BY <1>7 DEF LoadBackup, load_image, Booted
  <2> QED
    BY <1>1, <1>2, <2>1 DEF SaveSteps
<1>8. CASE CreateBlank
  BY <1>8 DEF CreateBlank, Attach
<1>9. CASE SaveNext
  <2>1. /\ pc \in SaveSteps /\ pc' \notin Looking
        /\ UNCHANGED <<attached, caller>>
    BY <1>9, SaveShape DEF SaveSteps
  <2> QED
    BY Zenon, <1>0, <2>1
<1>10. CASE Save
  BY <1>10 DEF Save, EnterSave, Return
<1>11. CASE EnterLoop \/ Edit \/ SaveReturned \/ PowerOffTimeout \/ PowerLoss
              \/ \E s \in Slots : ToggleMarker(s)
  <2>1. pc' \in {"run", "off"}
    BY <1>11 DEF EnterLoop, Edit, SaveReturned, PowerOffTimeout, PowerLoss,
       ToggleMarker
  <2> QED
    BY <1>1, <2>1 DEF SaveSteps
<1>12. CASE UNCHANGED vars
  BY Zenon, <1>0, <1>12 DEF vars, cardVars, saveVars
<1> QED
  BY Zenon, <1>3, <1>4, <1>5, <1>6, <1>7, <1>8, <1>9, <1>10, <1>11, <1>12
     DEF Next, BootNext, RunNext

(* A boot under way has the volume, unless a fault has stopped it.         *)
LEMMA StepVolume ==
  ASSUME CardInv, BootHasVolume, [Next]_vars PROVE BootHasVolume'
<1> USE DEF BootHasVolume
<1>1. ASSUME pc' \in {"run", "off"} \/ (caller' = "loop" /\ pc' \notin BootSteps)
      PROVE  BootHasVolume'
  BY <1>1 DEF BootSteps, SaveSteps
<1>2. ASSUME pc \in BootSteps \/ (pc \in SaveSteps /\ caller = "boot"),
             UNCHANGED storageVars, Fails \/ UNCHANGED faultVars
      PROVE  BootHasVolume'
  BY Zenon, <1>2 DEF Fails, storageVars, faultVars
<1>3. CASE PowerOn
  BY Zenon, <1>3 DEF PowerOn
<1>4. CASE NotReady \/ ModeError \/ SelectSlot \/ LoadCurrent \/ LoadNew
             \/ PromoteNew \/ LoadBackup \/ RestoreBackup \/ CreateBlank
             \/ Created
  <2>1. pc \in BootSteps \/ (pc \in SaveSteps /\ caller = "boot")
    BY <1>4 DEF NotReady, ModeError, SelectSlot, LoadCurrent, LoadNew,
       PromoteNew, LoadBackup, RestoreBackup, CreateBlank, Created, BootSteps,
       SaveSteps
  <2>2. Fails \/ UNCHANGED faultVars
    BY Zenon, <1>4 DEF NotReady, ModeError, SelectSlot, LoadCurrent, LoadNew,
       PromoteNew, LoadBackup, RestoreBackup, Adopt, CreateBlank, Created,
       load_image, image_info, f_rename, Succeeds
  <2>3. UNCHANGED storageVars
    BY Zenon, <1>4 DEF NotReady, ModeError, SelectSlot, LoadCurrent, LoadNew,
       PromoteNew, LoadBackup, RestoreBackup, CreateBlank, Created
  <2> QED
    BY Zenon, <1>2, <2>1, <2>2, <2>3
<1>5. CASE SaveNext
  <2>1. pc \in SaveSteps /\ pc' \in SaveSteps /\ caller' = caller
    BY Zenon, <1>5, SaveShape
  <2>2. Fails \/ UNCHANGED faultVars
    BY Zenon, <1>5 DEF SaveNext, UnlinkNew, OpenNew, WriteNew, StatCurrent,
       UnlinkBackup, Retire, Promote, RestoreCurrent, Cleanup, f_rename,
       unlink_if_present, image_info, Succeeds
  <2>3. UNCHANGED storageVars
    BY Zenon, <1>5 DEF SaveNext, UnlinkNew, OpenNew, WriteNew, StatCurrent,
       UnlinkBackup, Retire, Promote, RestoreCurrent, Cleanup
  <2>4. CASE caller = "boot"
    BY Zenon, <1>2, <2>1, <2>2, <2>3, <2>4
  <2>5. CASE caller # "boot"
    BY <2>1, <2>5 DEF BootSteps, SaveSteps
  <2> QED
    BY <2>4, <2>5
<1>6. CASE Save
  BY <1>1, <1>6 DEF Save, EnterSave, Return, BootSteps
<1>7. CASE EnterLoop \/ Edit \/ SaveReturned \/ PowerOffTimeout \/ PowerLoss
             \/ \E s \in Slots : ToggleMarker(s)
  BY <1>1, <1>7 DEF EnterLoop, Edit, SaveReturned, PowerOffTimeout, PowerLoss,
     ToggleMarker
<1>8. CASE UNCHANGED vars
  BY Zenon, <1>8 DEF vars, storageVars, saveVars, faultVars
<1> QED
  BY Zenon, <1>3, <1>4, <1>5, <1>6, <1>7, <1>8 DEF Next, BootNext, RunNext

(* A call that fails in a boot that had no fault is a fault.               *)
LEMMA BootCallFails ==
  ASSUME BootHasVolume, pc \in BootSteps, Fails PROVE ~calm'
BY Zenon DEF BootHasVolume, Fails, faultVars

(* What a boot remembers of NEW when it goes on to BAK.                    *)
LEMMA StepRemembered ==
  ASSUME CardInv, FaultInv, [Next]_vars PROVE NewRemembered'
<1> USE DEF NewRemembered
<1>0. NewRemembered /\ BootHasVolume
  BY DEF FaultInv, BootFaultInv
<1>1. CASE pc' \notin {"load_backup", "create_blank"}
  BY Zenon, <1>1
<1>2. CASE LoadNew
  <2>1. PICK result \in ImageResults :
          /\ image_info(files[slot]["NEW"], result)
          /\ pending' = result
          /\ pc' = IF result = "OK" THEN "promote_new" ELSE "load_backup"
    BY Zenon, <1>2 DEF LoadNew, load_image
  <2>2. files'[slot']["NEW"] = files[slot]["NEW"]
    BY <1>2 DEF LoadNew, sdVars
  <2>3. CASE result = "OK"
    BY <1>1, <2>1, <2>3
  <2>4. CASE result # "OK" /\ result = SizeOf(files[slot]["NEW"])
    <3>1. \/ result = "MISSING" /\ files[slot]["NEW"] = Missing
          \/ result = "BAD_SIZE" /\ files[slot]["NEW"] = BadSize
      BY <2>4 DEF SizeOf
    <3> QED
      BY <2>1, <2>2, <3>1
  <2>5. CASE result = "IO_ERROR" /\ Fails
    <3>1. ~calm'
      BY <1>0, <1>2, <2>5, BootCallFails DEF LoadNew, BootSteps
    <3> QED
      BY <2>1, <2>5, <3>1
  <2> QED
    BY Zenon, <2>1, <2>3, <2>4, <2>5 DEF image_info
<1>3. CASE LoadBackup /\ pc' \in {"load_backup", "create_blank"}
  <2>1. pc = "load_backup" /\ pc' = "create_blank" /\ pending = "MISSING"
    BY <1>3 DEF LoadBackup, Booted
  <2>2. files'[slot']["NEW"] = files[slot]["NEW"]
    BY Zenon, <1>3 DEF LoadBackup, sdVars
  <2> QED
    BY <1>0, <2>1, <2>2
<1>4. CASE UNCHANGED vars
  BY Zenon, <1>0, <1>4 DEF vars, sdVars, bootVars, faultVars
<1>5. CASE BootNext /\ ~LoadNew /\ ~LoadBackup
  <2>1. pc' \notin {"load_backup", "create_blank"}
    BY <1>5 DEF BootNext, PowerOn, NotReady, ModeError, SelectSlot, LoadCurrent,
       PromoteNew, RestoreBackup, Adopt, CreateBlank, Created, Booted
  <2> QED
    BY <1>1, <2>1
<1>6. CASE SaveNext
  BY <1>1, <1>6, SaveShape DEF SaveSteps
<1>7. CASE RunNext \/ PowerLoss \/ \E s \in Slots : ToggleMarker(s)
  <2>1. pc' \in {"run", "off", "saved", "unlink_new"}
    BY <1>7 DEF RunNext, EnterLoop, Edit, Save, EnterSave, Return, SaveReturned,
       PowerOffTimeout, PowerLoss, ToggleMarker
  <2> QED
    BY <1>1, <2>1
<1> QED
  BY Zenon, <1>1, <1>2, <1>3, <1>4, <1>5, <1>6, <1>7 DEF Next

(* A boot that ends without a card met a fault, or a file that is not an   *)
(* image, or what a cut in the very first creation left.                   *)
LEMMA StepBootFails ==
  ASSUME CardInv, FaultInv, [Next]_vars PROVE BootFailsOnlyOnFault'
<1> USE DEF BootFailsOnlyOnFault
<1>0. /\ BootFailsOnlyOnFault /\ BootHasVolume /\ NewRemembered
      /\ SaveFaultInv /\ BootCardInv /\ ControlInv
  BY DEF FaultInv, BootFaultInv, CardInv
<1>1. CASE pc' # "booted"
  BY Zenon, <1>1
<1>2. CASE ~calm'
  BY Zenon, <1>2
<1>3. CASE NotReady
  <2>1. ~calm /\ calm' = calm
    BY <1>0, <1>3 DEF NotReady, BootHasVolume, BootSteps, faultVars
  <2> QED
    BY Zenon, <1>2, <2>1
<1>4. CASE ModeError
  <2>1. CASE Fails
    <3>1. pc \in BootSteps
      BY <1>4 DEF ModeError, BootSteps
    <3> QED
      BY Zenon, <1>0, <1>2, <2>1, <3>1, BootCallFails
  <2>2. CASE markers = Slots
    BY Zenon, <1>4, <2>2 DEF ModeError, sdVars
  <2> QED
    BY Zenon, <1>4, <2>1, <2>2 DEF ModeError
<1>5. CASE LoadCurrent
  <2>1. pc \in BootSteps /\ UNCHANGED <<files, slot>>
    BY <1>5 DEF LoadCurrent, BootSteps, sdVars
  <2>2. CASE Fails
    BY Zenon, <1>0, <1>2, <2>1, <2>2, BootCallFails
  <2>3. CASE load_image("CRD", "OK")
    BY Zenon, <2>3 DEF load_image, Attach
  <2>4. CASE SizeOf(files[slot]["CRD"]) = "BAD_SIZE"
    BY <2>1, <2>4 DEF SizeOf
  <2>5. CASE pc' = "load_new"
    BY <1>1, <2>5
  <2>6. "IO_ERROR" # SizeOf(files[slot]["CRD"])
    BY DEF SizeOf
  <2> QED
    BY Zenon, <1>5, <2>2, <2>3, <2>4, <2>5, <2>6
       DEF LoadCurrent, load_image, image_info
<1>6. CASE PromoteNew
  <2>1. pc \in BootSteps /\ attached /\ Renamable("NEW", "CRD")
    BY <1>0, <1>6, Values
       DEF PromoteNew, BootSteps, ControlInv, Renamable, CardInv, TypeOK, DataOK
  <2>2. CASE Fails
    BY Zenon, <1>0, <1>2, <2>1, <2>2, BootCallFails
  <2>3. CASE UNCHANGED cardVars
    BY Zenon, <2>1, <2>3 DEF cardVars
  <2> QED
    BY Zenon, <1>6, <2>1, <2>2, <2>3 DEF PromoteNew, Adopt, f_rename
<1>7. CASE RestoreBackup
  <2>1. pc \in BootSteps /\ attached /\ Renamable("BAK", "CRD")
    BY <1>0, <1>7, Values
       DEF RestoreBackup, BootSteps, ControlInv, Renamable, CardInv, TypeOK,
           DataOK
  <2>2. CASE Fails
    BY Zenon, <1>0, <1>2, <2>1, <2>2, BootCallFails
  <2>3. CASE UNCHANGED cardVars
    BY Zenon, <2>1, <2>3 DEF cardVars
  <2> QED
    BY Zenon, <1>7, <2>1, <2>2, <2>3 DEF RestoreBackup, Adopt, f_rename
<1>8. CASE LoadBackup
  <2>1. /\ pc = "load_backup" /\ pc \in BootSteps
        /\ UNCHANGED <<files, slot>> /\ slot \in Slots
    BY <1>8 DEF LoadBackup, BootSteps, sdVars, CardInv, TypeOK, DataOK
  <2>2. PICK result \in ImageResults :
          /\ image_info(files[slot]["BAK"], result)
          /\ \/ result = "OK" /\ pc' = "restore_backup"
             \/ result = "BAD_SIZE"
             \/ result = "IO_ERROR"
             \/ /\ result = "MISSING"
                /\ \/ pending \in {"BAD_SIZE", "IO_ERROR"}
                   \/ pc' = "create_blank"
    BY <1>8 DEF LoadBackup, load_image
  <2>3. CASE Fails
    BY Zenon, <1>0, <1>2, <2>1, <2>3, BootCallFails
  <2>4. CASE result = SizeOf(files[slot]["BAK"]) /\ UNCHANGED faultVars
    <3>1. files[slot]["BAK"] # BadSize /\ files[slot]["CRD"] = Missing
      BY <1>0, <2>1 DEF CardInv, FilesInv, SlotInv, ControlInv
    <3>2. result \notin {"BAD_SIZE", "IO_ERROR"}
      BY <2>4, <3>1 DEF SizeOf
    <3>3. CASE pc' \in {"restore_backup", "create_blank"}
      BY <1>1, <3>3
    <3>4. CASE result = "MISSING" /\ pending = "IO_ERROR"
      <4>1. ~calm /\ calm' = calm
        BY Zenon, <1>0, <2>1, <2>4, <3>4 DEF NewRemembered, faultVars
      <4> QED
        BY Zenon, <1>2, <4>1
    <3>5. CASE result = "MISSING" /\ pending = "BAD_SIZE"
      <4>1. files[slot]["BAK"] = Missing
        BY <2>4, <3>5 DEF SizeOf
      <4>2. files[slot]["NEW"] = BadSize
        BY Zenon, <1>0, <2>1, <3>5 DEF NewRemembered
      <4>3. HalfCreated(slot)'
        BY Zenon, <2>1, <3>1, <4>1, <4>2 DEF HalfCreated
      <4> QED
        BY Zenon, <4>3
    <3> QED
      BY <2>2, <3>2, <3>3, <3>4, <3>5
  <2> QED
    BY Zenon, <2>2, <2>3, <2>4 DEF image_info, Succeeds
<1>9. CASE Created
  <2>1. pc = "saved" /\ pc \in SaveSteps /\ caller = "boot"
    BY <1>9 DEF Created, SaveSteps
  <2>2. CASE okay
    BY Zenon, <1>0, <1>9, <2>1, <2>2 DEF Created, BootCardInv, cardVars
  <2>3. CASE ~okay
    <3>1. ~calm /\ calm' = calm
      BY Zenon, <1>0, <1>9, <2>1, <2>3
         DEF Created, SaveFaultInv, Failed, BootHasVolume, faultVars
    <3> QED
      BY Zenon, <1>2, <3>1
  <2> QED
    BY Zenon, <2>2, <2>3
<1>10. CASE PowerOn \/ SelectSlot \/ LoadNew \/ CreateBlank \/ RunNext \/ PowerLoss
              \/ \E s \in Slots : ToggleMarker(s)
  <2>1. pc' # "booted"
    BY <1>10 DEF PowerOn, SelectSlot, LoadNew, CreateBlank, RunNext, EnterLoop,
       Edit, Save, EnterSave, Return, SaveReturned, PowerOffTimeout, PowerLoss,
       ToggleMarker
  <2> QED
    BY <1>1, <2>1
<1>11. CASE SaveNext
  BY <1>1, <1>11, SaveShape DEF SaveSteps
<1>12. CASE UNCHANGED vars
  BY Zenon, <1>0, <1>12
     DEF vars, sdVars, cardVars, bootVars, faultVars, HalfCreated
<1> QED
  BY Zenon, <1>3, <1>4, <1>5, <1>6, <1>7, <1>8, <1>9, <1>10, <1>11, <1>12
     DEF Next, BootNext

(* The invariant about faults is inductive next to CardInv.                *)
THEOREM FaultInvariant == Spec => []FaultInv
<1>1. Init => FaultInv
  <2> SUFFICES ASSUME Init PROVE FaultInv
    OBVIOUS
  <2>1. pc = "off" /\ caller = "loop" /\ "off" \notin BootSteps \cup SaveSteps
    BY DEF Init, BootSteps, SaveSteps
  <2> QED
    BY <2>1 DEF FaultInv, SaveFaultInv, BootFaultInv, BootHasVolume,
       NewRemembered, BootFailsOnlyOnFault, BootCardInv
<1>2. CardInv /\ FaultInv /\ [Next]_vars => FaultInv'
  <2> SUFFICES ASSUME CardInv, FaultInv, [Next]_vars PROVE FaultInv'
    OBVIOUS
  <2>1. BootHasVolume
    BY DEF FaultInv, BootFaultInv
  <2> QED
    BY Zenon, <2>1, StepSaveFault, StepBootCard, StepVolume, StepRemembered,
       StepBootFails DEF FaultInv, BootFaultInv
<1> QED
  BY <1>1, <1>2, CardInvariant, PTL DEF Spec

(* A save of a mounted SD card that fails met a failing FatFs call: no     *)
(* leftover of an earlier failure or power cut can make it fail.           *)
THEOREM SavesCannotWedge == Spec => []SaveFailsOnlyOnFault
<1>1. FaultInv => SaveFailsOnlyOnFault
  BY Zenon DEF FaultInv, SaveFaultInv, Failed, SaveFailsOnlyOnFault
<1> QED
  BY FaultInvariant, <1>1, PTL

(* A boot that ends without a card met a failing FatFs call, a CRD of the  *)
(* user that is not an image, or the remains of a cut first creation.      *)
THEOREM BootsCannotWedge == Spec => []BootFailsOnlyOnFault
<1>1. FaultInv => BootFailsOnlyOnFault
  BY Zenon DEF FaultInv, BootFaultInv
<1> QED
  BY FaultInvariant, <1>1, PTL
-----------------------------------------------------------------------------
(* The card files implement CardPromise.                                   *)

(* The durable image of a slot is an image or none, and depends on the     *)
(* files of that slot only.                                                *)
LEMMA DurableSlot ==
  ASSUME NEW s \in Slots
  PROVE  /\ DurableImage(s) \in Images \cup {Missing}
         /\ files'[s] = files[s] => DurableImage(s)' = DurableImage(s)
BY DEF DurableImage, Survivor

(* A step that changes the files of slot s only makes i its durable image. *)
LEMMA DurableBecomes ==
  ASSUME NEW s \in Slots, NEW i, DurableImage(s)' = i,
         \A t \in Slots \ {s} : files'[t] = files[t]
  PROVE  Card!Durable(s, i)
BY DEF Card!Durable, DurableImage, Survivor

LEMMA DurableStays ==
  ASSUME files' = files
  PROVE  [s \in Slots |-> DurableImage(s)]' = [s \in Slots |-> DurableImage(s)]
BY DEF DurableImage, Survivor

(* The steps that change nothing the promise is about.                     *)
LEMMA Stutters ==
  ASSUME UNCHANGED <<files, promised, attached, slot, image>>
  PROVE  UNCHANGED Card!vars
BY DurableStays DEF Card!vars

(* The steps after which nothing is attached lose the card in memory.      *)
LEMMA Loses ==
  ASSUME TypeOK', UNCHANGED <<files, promised>>, ~attached'
  PROVE  Card!Lose
<1>1. [held |-> attached, slot |-> slot, image |-> image]' \in Card!Memory
  BY Zenon DEF TypeOK, FlagsOK, DataOK, Card!Memory
<1> QED
  BY <1>1, DurableStays DEF Card!Lose

(* What the files of the selected slot say about its durable image.        *)
LEMMA DurableOfSelected ==
  ASSUME CardInv, NEW s \in Slots, s = slot
  PROVE  /\ files[s]["CRD"] \in Images =>
              DurableImage(s) = files[s]["CRD"] /\ files[s]["CRD"] = promised[s]
         /\ files[s]["CRD"] = Missing /\ files[s]["NEW"] \in Images =>
              DurableImage(s) = files[s]["NEW"]
         /\ files[s]["CRD"] = Missing /\ files[s]["NEW"] \notin Images =>
              DurableImage(s) = promised[s]
         /\ files[s]["CRD"] = Missing /\ files[s]["BAK"] # Missing =>
              files[s]["BAK"] = promised[s]
<1>1. SlotInv(s) /\ files[s]["BAK"] \in Content
      /\ promised[s] \in Images \cup {Missing}
  BY DEF CardInv, FilesInv, TypeOK, DataOK, Files
<1> QED
  BY <1>1, Values DEF SlotInv, DurableImage, Survivor

(* The steps of a save write the image in memory, take it back, or report  *)
(* it as safe.                                                             *)
LEMMA SaveKeepsPromise ==
  ASSUME CardInv, FaultInv, SaveNext
  PROVE  [Card!Next]_(Card!vars)
<1> SUFFICES ASSUME NEW s \in Slots, s = slot
             PROVE  [Card!Next]_(Card!vars)
  BY DEF CardInv, TypeOK, DataOK
<1> DEFINE Elsewhere == \A t \in Slots \ {s} : files'[t] = files[t]
<1>0. /\ attached /\ image \in Images /\ files[s] \in [Files -> Content]
      /\ files[s]["CRD"] \in Images \cup {Missing}
      /\ promised[s] \in Images \cup {Missing}
      /\ SlotInv(s)
      /\ UNCHANGED <<attached, image, slot>>
  <2>1. attached /\ UNCHANGED <<attached, image, slot>>
    BY SaveShape DEF CardInv, ControlInv
  <2> QED
    BY <2>1, Values DEF CardInv, TypeOK, DataOK, MemoryInv, FilesInv, Files
<1>1. ASSUME files' = files, promised' = promised
      PROVE  [Card!Next]_(Card!vars)
  BY Zenon, <1>0, <1>1, Stutters
<1>2. ASSUME Elsewhere, DurableImage(s)' = promised[s], promised' = promised
      PROVE  [Card!Next]_(Card!vars)
  BY <1>0, <1>2, DurableBecomes DEF Card!Next, Card!Revert
<1>3. ASSUME Elsewhere, DurableImage(s)' = image, promised' = promised
      PROVE  [Card!Next]_(Card!vars)
  BY <1>0, <1>3, DurableBecomes DEF Card!Next, Card!Write, Card!Holds
<1>4. ASSUME NEW content \in {Missing, BadSize}, Put("NEW", content),
             promised' = promised
      PROVE  [Card!Next]_(Card!vars)
  <2>1. /\ Elsewhere /\ files'[s]["CRD"] = files[s]["CRD"]
        /\ files'[s]["BAK"] = files[s]["BAK"] /\ files'[s]["NEW"] \notin Images
    BY <1>4, Values DEF Put, CardInv, TypeOK, DataOK, Files
  <2>2. DurableImage(s)' = promised[s]
    BY <1>0, <2>1, Values DEF DurableImage, Survivor, SlotInv
  <2> QED
    BY <1>2, <1>4, <2>1, <2>2
<1>5. CASE UnlinkNew
  BY Zenon, <1>1, <1>4, <1>5 DEF UnlinkNew, unlink_if_present
<1>6. CASE OpenNew
  BY Zenon, <1>1, <1>4, <1>6 DEF OpenNew
<1>7. CASE WriteNew
  <2>1. CASE Put("NEW", image)
    <3>1. /\ Elsewhere /\ files'[s]["CRD"] = files[s]["CRD"]
          /\ files'[s]["NEW"] = image
      BY <2>1 DEF Put, CardInv, TypeOK, DataOK, Files
    <3>2. DurableImage(s)' \in {image, promised[s]}
      BY <1>0, <3>1, Values DEF DurableImage, Survivor, SlotInv
    <3> QED
      BY <1>2, <1>3, <1>7, <3>1, <3>2 DEF WriteNew
  <2> QED
    BY Zenon, <1>1, <1>7, <2>1 DEF WriteNew
<1>8. CASE StatCurrent
  BY Zenon, <1>1, <1>8 DEF StatCurrent, sdVars
<1>9. CASE UnlinkBackup
  <2>1. CASE Put("BAK", Missing)
    <3>1. Elsewhere /\ files'[s]["CRD"] = files[s]["CRD"]
      BY <2>1 DEF Put, CardInv, TypeOK, DataOK, Files
    <3>2. files[s]["CRD"] \in Images
      BY <1>9 DEF UnlinkBackup, CardInv, ControlInv
    <3>3. DurableImage(s)' = promised[s]
      BY <1>0, <3>1, <3>2, Values DEF DurableImage, Survivor, SlotInv
    <3> QED
      BY <1>2, <1>9, <3>1, <3>3 DEF UnlinkBackup
  <2> QED
    BY Zenon, <1>1, <1>9, <2>1 DEF UnlinkBackup, unlink_if_present
<1>10. CASE Retire
  <2>1. CASE f_rename("CRD", "BAK", TRUE)
    <3>1. /\ Elsewhere /\ files'[s]["CRD"] = Missing
          /\ files'[s]["NEW"] = files[s]["NEW"]
      BY <2>1, Renamed DEF CardInv, Files
    <3>2. files[s]["NEW"] = image
      BY <1>10 DEF Retire, CardInv, ControlInv
    <3>3. DurableImage(s)' = image
      BY <1>0, <3>1, <3>2 DEF DurableImage, Survivor
    <3> QED
      BY <1>3, <1>10, <3>1, <3>3 DEF Retire
  <2> QED
    BY Zenon, <1>1, <1>10, <2>1 DEF Retire, f_rename
<1>11. CASE Promote
  <2>1. CASE f_rename("NEW", "CRD", TRUE) /\ Promise(image)
    <3>1. Elsewhere /\ files[s]["CRD"] = Missing /\ files[s]["NEW"] = image
          /\ files'[s]["CRD"] = image
      BY <1>11, <2>1, Renamed DEF CardInv, Files, ControlInv, Promote
    <3>2. DurableImage(s)' = image /\ DurableImage(s) = image
      BY <1>0, <3>1, Values DEF DurableImage, Survivor
    <3>3. Card!Commit(s, image)
      BY <1>0, <2>1, <3>1, <3>2, DurableBecomes
         DEF Card!Commit, Card!Holds, Card!Promised, Promise
    <3> QED
      BY <1>0, <3>3 DEF Card!Next
  <2> QED
    BY Zenon, <1>1, <1>11, <2>1 DEF Promote, f_rename
<1>12. CASE RestoreCurrent
  <2>1. CASE f_rename("BAK", "CRD", TRUE)
    <3>1. /\ Elsewhere /\ files[s]["CRD"] = Missing /\ files[s]["BAK"] # Missing
          /\ files'[s]["CRD"] = files[s]["BAK"]
      BY <2>1, Renamed DEF CardInv, Files
    <3>2. promised[s] \in Images /\ files'[s]["CRD"] = promised[s]
      BY <1>0, <3>1, Values DEF SlotInv
    <3>3. DurableImage(s)' = promised[s]
      BY <3>2, Values DEF DurableImage, Survivor
    <3> QED
      BY <1>2, <1>12, <3>1, <3>3 DEF RestoreCurrent
  <2> QED
    BY Zenon, <1>1, <1>12, <2>1 DEF RestoreCurrent, f_rename
<1>13. CASE Cleanup
  BY Zenon, <1>1, <1>4, <1>13 DEF Cleanup, unlink_if_present
<1> QED
  BY Zenon, <1>5, <1>6, <1>7, <1>8, <1>9, <1>10, <1>11, <1>12, <1>13 DEF SaveNext

(* The steps of a boot load the durable image or the promised one, make a  *)
(* card where there is none, and may report what they loaded as safe.      *)
LEMMA BootKeepsPromise ==
  ASSUME CardInv, TypeOK', FaultInv, BootNext
  PROVE  [Card!Next]_(Card!vars)
<1> SUFFICES ASSUME NEW s \in Slots, s = slot
             PROVE  [Card!Next]_(Card!vars)
  BY DEF CardInv, TypeOK, DataOK
<1>0. /\ image \in Images /\ files[s] \in [Files -> Content]
      /\ promised[s] \in Images \cup {Missing}
      /\ SlotInv(s) /\ ControlInv /\ BootCardInv
  BY DEF CardInv, TypeOK, DataOK, FilesInv, FaultInv
<1>1. ASSUME UNCHANGED <<files, promised>>, Detach PROVE [Card!Next]_(Card!vars)
  BY Zenon, <1>1, Loses DEF Detach, Card!Next
<1>2. ASSUME UNCHANGED <<files, promised, slot>>, UNCHANGED cardVars
      PROVE  [Card!Next]_(Card!vars)
  BY Zenon, <1>2, Stutters DEF cardVars
<1>3. ASSUME UNCHANGED <<files, slot>>, ~attached, NEW i \in Images,
             Attach(i, FALSE), i \in {DurableImage(s), promised[s]},
             UNCHANGED promised \/ (DurableImage(s) = i /\ Promise(i))
      PROVE  [Card!Next]_(Card!vars)
  <2>1. Card!Load(s, i)
    BY <1>3, DurableStays, Values
       DEF Card!Load, Card!InMemory, Card!Promised, Promise, Attach
  <2> QED
    BY <2>1 DEF Card!Next
<1>4. ASSUME NEW f \in {"NEW", "BAK"}, Adopt(f), attached, files[s][f] = image,
             files[s]["CRD"] = Missing, UNCHANGED slot
      PROVE  [Card!Next]_(Card!vars)
  <2>1. CASE f_rename(f, "CRD", TRUE) /\ Promise(image) /\ UNCHANGED cardVars
    <3>1. /\ \A t \in Slots \ {s} : files'[t] = files[t]
          /\ files'[s]["CRD"] = image
      BY <1>4, <2>1, Renamed DEF CardInv, Files
    <3>2. DurableImage(s)' = image
      BY <1>0, <3>1, Values DEF DurableImage, Survivor
    <3>3. image \in {DurableImage(s), promised[s]}
      BY <1>0, <1>4, Values DEF DurableImage, Survivor, SlotInv
    <3>4. Card!Commit(s, image)
      BY <1>4, <2>1, <3>1, <3>2, <3>3, DurableBecomes
         DEF Card!Commit, Card!Holds, Card!Promised, Promise, cardVars
    <3> QED
      BY <1>0, <3>4 DEF Card!Next
  <2> QED
    BY Zenon, <1>1, <1>4, <2>1 DEF Adopt, f_rename
<1>5. CASE PowerOn
  BY Zenon, <1>2, <1>5 DEF PowerOn, sdVars, bootVars
<1>6. CASE NotReady \/ ModeError \/ SelectSlot
  BY Zenon, <1>1, <1>6 DEF NotReady, ModeError, SelectSlot, sdVars
<1>7. CASE LoadCurrent
  <2>1. ~attached /\ UNCHANGED <<files, slot>>
    BY Zenon, <1>0, <1>7 DEF LoadCurrent, BootCardInv, sdVars
  <2>2. CASE load_image("CRD", "OK") /\ Promise(image')
    <3>1. files[s]["CRD"] \in Images /\ image' = files[s]["CRD"]
          /\ Attach(files[s]["CRD"], FALSE)
      BY <1>0, <2>2, Values DEF load_image, image_info, SizeOf, Attach, Files
    <3>2. DurableImage(s) = files[s]["CRD"]
      BY <3>1, DurableOfSelected
    <3> QED
      BY Zenon, <1>3, <2>1, <2>2, <3>1, <3>2
  <2>3. CASE Detach /\ UNCHANGED promised
    BY Zenon, <1>1, <2>1, <2>3
  <2> QED
    BY Zenon, <1>7, <2>2, <2>3 DEF LoadCurrent, load_image
<1>8. CASE LoadNew
  <2>1. /\ ~attached /\ UNCHANGED <<files, slot, promised>>
        /\ files[s]["CRD"] = Missing
    BY <1>0, <1>8 DEF LoadNew, BootCardInv, sdVars, ControlInv
  <2>2. CASE load_image("NEW", "OK")
    <3>1. files[s]["NEW"] \in Images /\ Attach(files[s]["NEW"], FALSE)
      BY <1>0, <2>2, Values DEF load_image, image_info, SizeOf, Files
    <3>2. DurableImage(s) = files[s]["NEW"]
      BY <2>1, <3>1, DurableOfSelected
    <3> QED
      BY Zenon, <1>3, <2>1, <3>1, <3>2
  <2> QED
    BY Zenon, <1>1, <1>8, <2>1, <2>2 DEF LoadNew, load_image
<1>9. CASE PromoteNew
  BY <1>0, <1>4, <1>9 DEF PromoteNew, ControlInv
<1>10. CASE LoadBackup
  <2>1. /\ ~attached /\ UNCHANGED <<files, slot, promised>>
        /\ files[s]["CRD"] = Missing
    BY <1>0, <1>10 DEF LoadBackup, BootCardInv, sdVars, ControlInv
  <2>2. CASE load_image("BAK", "OK")
    <3>1. files[s]["BAK"] \in Images /\ Attach(files[s]["BAK"], FALSE)
      BY <1>0, <2>2, Values DEF load_image, image_info, SizeOf, Files
    <3>2. files[s]["BAK"] = promised[s]
      BY <2>1, <3>1, DurableOfSelected, Values
    <3> QED
      BY Zenon, <1>3, <2>1, <3>1, <3>2
  <2> QED
    BY Zenon, <1>1, <1>10, <2>1, <2>2 DEF LoadBackup, load_image
<1>11. CASE RestoreBackup
  BY <1>0, <1>4, <1>11 DEF RestoreBackup, ControlInv
<1>12. CASE CreateBlank
  <2>1. /\ ~attached /\ UNCHANGED <<files, slot, promised>>
        /\ files[s] \in [Files -> {Missing}]
        /\ attached' = TRUE /\ image' = Blank
    BY <1>0, <1>12 DEF CreateBlank, Attach, BootCardInv, sdVars, bootVars,
       ControlInv, FaultInv, BootFaultInv, NewRemembered, Files
  <2>2. DurableImage(s) = Missing /\ promised[s] = Missing
    BY <1>0, <2>1, Values DEF DurableImage, Survivor, SlotInv, Files
  <2>3. Card!Create(s)
    BY <2>1, <2>2, DurableStays DEF Card!Create, Card!InMemory
  <2> QED
    BY <2>3 DEF Card!Next
<1>13. CASE Created
  BY Zenon, <1>1, <1>2, <1>13 DEF Created, sdVars
<1> QED
  BY Zenon, <1>5, <1>6, <1>7, <1>8, <1>9, <1>10, <1>11, <1>12, <1>13 DEF BootNext

(* Of the steps of the running calculator only an edit matters.            *)
LEMMA RunKeepsPromise ==
  ASSUME CardInv, TypeOK', RunNext
  PROVE  [Card!Next]_(Card!vars)
<1>1. CASE Edit
  <2>1. /\ slot \in Slots /\ attached /\ image' = clock + 1
        /\ UNCHANGED <<files, promised, attached, slot>>
        /\ clock + 1 \in Images
    BY <1>1 DEF CardInv, TypeOK, DataOK, Edit, sdVars, bootVars
  <2>2. Card!Edit(slot, clock + 1)
    BY <2>1, DurableStays DEF Card!Edit, Card!InMemory
  <2> QED
    BY <2>1, <2>2 DEF Card!Next
<1>2. CASE EnterLoop \/ Save \/ SaveReturned \/ PowerOffTimeout
  BY Zenon, <1>2, Stutters DEF EnterLoop, Save, EnterSave, SaveReturned,
     PowerOffTimeout, sdVars, cardVars, bootVars
<1> QED
  BY Zenon, <1>1, <1>2 DEF RunNext

(* The files, FatFs calls and repairs of port2_card.c implement the card   *)
(* that CardPromise describes.                                             *)
THEOREM CardKeepsItsPromise == Spec => CardPromiseKept
<1>1. Init => Card!Init
  <2> SUFFICES ASSUME Init PROVE Card!Init
    OBVIOUS
  <2>1. \A s \in Slots : promised[s] = DurableImage(s)
    BY Values DEF Init, FreshSlot, DurableImage, Survivor, Files
  <2>2. promised = [s \in Slots |-> DurableImage(s)]
    BY <2>1, InitTyped DEF TypeOK, DataOK
  <2>3. [held |-> attached, slot |-> slot, image |-> image] \in Card!Memory
    BY Zenon, InitTyped DEF TypeOK, FlagsOK, DataOK, Card!Memory
  <2> QED
    BY <2>2, <2>3, DurableSlot DEF Init, Card!Init
<1>2. CardInv /\ CardInv' /\ FaultInv /\ [Next]_vars => [Card!Next]_(Card!vars)
  <2> SUFFICES ASSUME CardInv, CardInv', FaultInv, [Next]_vars
               PROVE  [Card!Next]_(Card!vars)
    OBVIOUS
  <2>1. TypeOK'
    BY DEF CardInv
  <2>2. CASE PowerLoss
    BY Zenon, <2>1, <2>2, Loses DEF PowerLoss, Detach, sdVars, Card!Next
  <2>3. CASE (\E s \in Slots : ToggleMarker(s)) \/ UNCHANGED vars
    BY Zenon, <2>3, Stutters DEF ToggleMarker, vars, sdVars, cardVars, bootVars
  <2> QED
    BY Zenon, <2>1, <2>2, <2>3, SaveKeepsPromise, BootKeepsPromise,
       RunKeepsPromise DEF Next
<1> QED
  BY <1>1, <1>2, CardInvariant, FaultInvariant, PTL
     DEF Spec, CardPromiseKept, Card!Spec
-----------------------------------------------------------------------------
(* The card.                                                               *)

(* A step of Persistence is a step of the card, or leaves it alone but for *)
(* the clock the CPU's own changes are numbered from.                      *)
LEMMA CardPart ==
  ASSUME [PersistenceNext]_allVars
  PROVE  \/ [Next]_vars
         \/ Compute /\ ~Edit
<1>1. CASE CardStep
  BY Zenon, <1>1 DEF CardStep, Next, BootNext, SaveNext, RunNext
<1>2. CASE PromoteStep \/ PowerOnAndLoad
  BY Zenon, <1>2 DEF PromoteStep, PowerOnAndLoad, Next, BootNext
<1>3. CASE Resume \/ StateSave \/ SaveRefused \/ ProgramPages
  BY Zenon, <1>3 DEF Resume, StateSave, SaveRefused, ProgramPages, Next, RunNext
<1>4. CASE EraseFlash \/ ProgramHeader \/ Reset \/ UNCHANGED allVars
  BY Zenon, <1>4 DEF EraseFlash, ProgramHeader, Reset, cardStore, allVars
<1>5. CASE PowerCut
  BY Zenon, <1>5 DEF PowerCut, Next
<1>6. CASE Compute
  BY Zenon, <1>6 DEF Next, RunNext
<1> QED
  BY <1>1, <1>2, <1>3, <1>4, <1>5, <1>6 DEF PersistenceNext

(* What the CPU does on its own only makes room for newer images.          *)
LEMMA ComputeCard ==
  ASSUME CardInv, Compute, ~Edit
  PROVE  /\ CardInv'
         /\ UNCHANGED <<files, attached, image, dirty, slot, pc, caller, okay,
                        promised>>
<1>1. /\ UNCHANGED <<files, markers, ready, mounted, attached, image, dirty,
                     slot, status, pending, moved, caller, okay, faults, calm,
                     crashes, pc, promised>>
      /\ clock < MaxImage /\ clock' = clock + 1
  BY Zenon DEF Compute, sdVars, storageVars, cardVars, bootVars,
     saveVars, faultVars
<1>2. clock \in Existing .. MaxImage /\ clock \in Nat /\ clock' \in Existing .. MaxImage
  BY <1>1, BoundsAssumption DEF CardInv, TypeOK, DataOK, Existing
<1>3. FlagsOK'
  BY Zenon, <1>1 DEF CardInv, TypeOK, FlagsOK
<1>4. DataOK'
  BY <1>1, <1>2 DEF CardInv, TypeOK, DataOK
<1>5. /\ \A s \in Slots : promised[s] \in Images => promised[s] \in Nat
      /\ \A s \in Slots : files[s]["NEW"] \in Images => files[s]["NEW"] \in Nat
      /\ image \in Nat
  BY Values DEF CardInv, TypeOK, DataOK
<1>6. FilesInv'
  BY <1>1, <1>2, <1>5 DEF CardInv, FilesInv, SlotInv
<1>7. MemoryInv'
  <2>1. MemoryInv /\ (image <= clock => image' <= clock')
    BY <1>1, <1>2, <1>5 DEF CardInv
  <2> QED
    BY Zenon, <1>1, <2>1 DEF MemoryInv
<1>8. ControlInv'
  BY Zenon, <1>1 DEF CardInv, ControlInv
<1> QED
  BY <1>1, <1>3, <1>4, <1>6, <1>7, <1>8 DEF CardInv, TypeOK

(* Every step of Persistence keeps the card's invariant.                   *)
LEMMA StepCard == CardInv /\ [PersistenceNext]_allVars => CardInv'
<1> SUFFICES ASSUME CardInv, [PersistenceNext]_allVars PROVE CardInv'
  OBVIOUS
<1>1. CASE [Next]_vars
  BY <1>1, StepFlags, StepData, StepFiles, StepMemory, StepControl
     DEF CardInv, TypeOK
<1>2. CASE Compute /\ ~Edit
  BY <1>2, ComputeCard
<1> QED
  BY <1>1, <1>2, CardPart

-----------------------------------------------------------------------------
(* What the steps of the card do to the promise and to the control state.  *)

Clean == ~attached \/ ~dirty

(* The boot stays in the boot, or makes a new card where none was promised; *)
(* whatever image it ends with is clean.                                   *)
LEMMA BootShape ==
  ASSUME CardInv, BootInv, BootRead \/ PromoteNew
  PROVE  /\ Booting /\ pc # "booted"
         /\ \/ pc' \in BootSteps
            \/ /\ pc' = "unlink_new" /\ caller' = "boot"
               /\ promised[slot] = Missing /\ slot' = slot
         /\ pc' \in {"promote_new", "restore_backup", "booted"} => Clean'
<1> USE DEF BootSteps, Booting, SaveSteps, Clean
<1>1. CASE NotReady
  BY <1>1 DEF NotReady, Booted, Detach
<1>2. CASE ModeError
  BY <1>2 DEF ModeError, Booted, Detach
<1>3. CASE SelectSlot
  BY <1>3 DEF SelectSlot, Detach
<1>4. CASE LoadCurrent
  BY <1>4 DEF LoadCurrent, load_image, Attach, Detach, Booted
<1>5. CASE LoadNew
  BY <1>5 DEF LoadNew, load_image, Attach, Detach
<1>6. CASE LoadBackup
  BY <1>6 DEF LoadBackup, load_image, Attach, Detach, Booted
<1>7. CASE RestoreBackup
  <2>1. Clean /\ pc = "restore_backup" /\ pc' = "booted"
    BY <1>7 DEF RestoreBackup, Adopt, Booted, BootInv
  <2>2. Clean'
    BY Zenon, <1>7, <2>1 DEF RestoreBackup, Adopt, Detach, cardVars
  <2> QED
    BY ONLY <2>1, <2>2 DEF BootSteps, Booting, SaveSteps
<1>8. CASE PromoteNew
  <2>1. Clean /\ pc = "promote_new" /\ pc' = "booted"
    BY <1>8 DEF PromoteNew, Adopt, Booted, BootInv
  <2>2. Clean'
    BY Zenon, <1>8, <2>1 DEF PromoteNew, Adopt, Detach, cardVars
  <2> QED
    BY ONLY <2>1, <2>2 DEF BootSteps, Booting, SaveSteps
<1>9. CASE Created
  <2>1. pc = "saved" /\ caller = "boot" /\ pc' = "booted" /\ (okay => Clean)
    BY <1>9 DEF Created, Booted, BootInv
  <2>2. Clean'
    BY Zenon, <1>9, <2>1 DEF Created, Detach, cardVars
  <2> QED
    BY ONLY <2>1, <2>2 DEF BootSteps, Booting, SaveSteps
<1>10. CASE CreateBlank
  <2>1. files[slot]["CRD"] = Missing /\ files[slot]["BAK"] = Missing
    BY <1>10 DEF CardInv, ControlInv, CreateBlank
  <2>2. promised[slot] = Missing
    BY <2>1, Values DEF CardInv, TypeOK, DataOK, FilesInv, SlotInv
  <2> QED
    BY <1>10, <2>2 DEF CreateBlank, bootVars
<1> QED
  BY <1>1, <1>2, <1>3, <1>4, <1>5, <1>6, <1>7, <1>8, <1>9, <1>10 DEF BootRead

(* A promise never gets older.                                             *)
LEMMA PromiseGrows ==
  ASSUME CardInv, [PersistenceNext]_allVars, NEW s \in Slots, promised[s] \in Images
  PROVE  promised'[s] \in Images /\ promised'[s] >= promised[s]
<1> USE DEF CardInv, TypeOK, DataOK
<1>0. promised[s] >= promised[s]
  <2>1. promised[s] \in Nat
    BY Values
  <2> QED
    BY <2>1
<1>1. ASSUME Promise(image), attached PROVE promised'[s] \in Images /\ promised'[s] >= promised[s]
  <2>1. CASE s = slot
    BY <1>1, <2>1, Promised DEF MemoryInv
  <2>2. CASE s # slot
    BY <1>0, <1>1, <2>2, Promised
  <2> QED
    BY <2>1, <2>2
<1>2. CASE SaveNext
  BY Zenon, <1>0, <1>1, <1>2, SaveShape DEF ControlInv
<1>3. CASE BootRead
  BY Zenon, <1>0, <1>3, BootPromise
<1>4. CASE PromoteNew
  <2>1. attached /\ (Promise(image) \/ promised' = promised)
    BY Zenon, <1>4 DEF PromoteNew, Adopt, ControlInv
  <2> QED
    BY Zenon, <1>0, <1>1, <2>1
<1>5. CASE promised' = promised
  BY <1>0, <1>5
<1>6. \/ SaveNext \/ BootRead \/ PromoteNew \/ promised' = promised
  BY Zenon DEF PersistenceNext, allVars, cardStore, vars, CardStep, PromoteStep,
     BootRead, PowerOnAndLoad, PowerOn, Resume, EnterLoop, Compute, Edit,
     StateSave, Save, EnterSave, SaveRefused, SaveReturned, EraseFlash,
     ProgramHeader, ProgramPages, Reset, PowerCut, PowerLoss, PowerOffTimeout,
     ToggleMarker
<1> QED
  BY <1>2, <1>3, <1>4, <1>5, <1>6

-----------------------------------------------------------------------------
(* The flash and the memory.                                               *)

(* The sentinels of the flash are no images, snapshots or slots, and the   *)
(* fields of a snapshot are in their sets.                                 *)
LEMMA FlashValues ==
  /\ Erased \notin Snapshot /\ Erased \notin Images /\ Cold \in Images /\ NoCard \notin Slots
  /\ \A h \in Snapshot : /\ h.cpu \in Images /\ h.ram \in Images
                         /\ h.slot \in Slots \cup {NoCard}
                         /\ h.card \in Images \cup {Missing}
<1>1. Erased \notin Images
  BY FlashAssumption, Values
<1> QED
  BY <1>1, Values, FlashAssumption, HeaderAssumption DEF Cold, Snapshot

(* A calculator with nothing in flash starts with CPU and RAM cleared.     *)
LEMMA InitPersist == PersistenceInit => PersistInv
<1> SUFFICES ASSUME PersistenceInit PROVE PersistInv
  OBVIOUS
<1> USE FlashValues DEF PersistenceInit
<1>1. CardInv /\ TypeOK
  BY InitCard, InitTyped
<1>2. PersistenceTypeOK
  BY Zenon, <1>1 DEF PersistenceTypeOK
<1>3. MomentInv /\ PairInv /\ AgreeInv
  BY Zenon DEF MomentInv, PairInv, AgreeInv
<1>4. FlashInv
  BY DEF FlashInv, SnapshotKept, Loadable
<1>5. pc = "off"
  BY Zenon DEF Init
<1>6. BootInv /\ LoopInv
  BY <1>5, StepNames DEF BootInv, LoopInv, Booting, BootSteps
<1> QED
  BY Zenon, <1>1, <1>2, <1>3, <1>4, <1>6 DEF PersistInv

(* The header state_save builds is a snapshot.                             *)
LEMMA HeaderTyped ==
  ASSUME PersistInv PROVE NewHeader \in Snapshot
<1>1. slot \in Slots /\ image \in Images
  BY DEF PersistInv, CardInv, TypeOK, DataOK
<1>2. cpu \in Images /\ ram \in Images
  BY Zenon DEF PersistInv, PersistenceTypeOK
<1>3. ActiveSlot \in Slots \cup {NoCard}
  BY Zenon, <1>1 DEF ActiveSlot
<1>4. (IF attached THEN image ELSE Missing) \in Images \cup {Missing}
  BY Zenon, <1>1
<1> QED
  BY <1>2, <1>3, <1>4 DEF NewHeader, Snapshot

(* Every step keeps the types.                                             *)
LEMMA StepPersistTyped ==
  ASSUME PersistInv, [PersistenceNext]_allVars PROVE PersistenceTypeOK'
<1> DEFINE Flash == /\ header \in Snapshot \cup {Erased}
                    /\ pages \in Images \cup {Erased}
                    /\ cpu \in Images /\ ram \in Images
                    /\ restored \in Snapshot \cup {Erased}
                    /\ step \in {"none", "header", "pages"}
                    /\ safe \in Images \cup {Erased}
                    /\ torn \in BOOLEAN /\ cut \in BOOLEAN
                    /\ adopted \in BOOLEAN
<1> USE FlashValues DEF flashVars, memVars, stateVars
<1>0. Flash
  BY Zenon DEF PersistInv, PersistenceTypeOK
<1>1. TypeOK'
  BY StepCard DEF PersistInv, CardInv
<1>2. ASSUME UNCHANGED stateVars PROVE Flash'
  BY Zenon, <1>0, <1>2
<1>3. ASSUME PowerOnAndLoad PROVE Flash'
  BY Zenon, <1>0, <1>3 DEF PowerOnAndLoad, Loadable
<1>4. ASSUME Resume PROVE Flash'
  BY Zenon, <1>0, <1>4 DEF Resume
<1>5. ASSUME Compute PROVE Flash'
  <2>1. clock' \in Images
    BY <1>1, Values DEF TypeOK, DataOK
  <2> QED
    BY Zenon, <1>0, <1>5, <2>1 DEF Compute
<1>6. ASSUME EraseFlash PROVE Flash'
  BY Zenon, <1>0, <1>6 DEF EraseFlash
<1>7. ASSUME ProgramHeader PROVE Flash'
  BY Zenon, <1>0, <1>7, HeaderTyped DEF ProgramHeader
<1>8. ASSUME ProgramPages PROVE Flash'
  BY Zenon, <1>0, <1>8 DEF ProgramPages
<1>9. ASSUME Reset PROVE Flash'
  BY Zenon, <1>0, <1>9 DEF Reset
<1>10. ASSUME PowerCut PROVE Flash'
  BY Zenon, <1>0, <1>10 DEF PowerCut
<1>11. ASSUME PromoteStep PROVE Flash'
  BY Zenon, <1>0, <1>11 DEF PromoteStep
<1>12. ASSUME StateSave \/ SaveRefused \/ CardStep \/ UNCHANGED allVars
       PROVE  Flash'
  BY Zenon, <1>2, <1>12 DEF StateSave, SaveRefused, CardStep, allVars
<1>13. Flash'
  BY Zenon, <1>3, <1>4, <1>5, <1>6, <1>7, <1>8, <1>9, <1>10, <1>11, <1>12
     DEF PersistenceNext
<1> QED
  BY Zenon, <1>1, <1>13 DEF PersistenceTypeOK

(* CPU and RAM change together, and a header that is written or loaded is  *)
(* of one moment.                                                          *)
LEMMA StepMoment ==
  ASSUME PersistInv, [PersistenceNext]_allVars PROVE MomentInv'
<1> USE FlashValues DEF MomentInv, flashVars, memVars, stateVars
<1>0. MomentInv
  BY DEF PersistInv
<1>1. CASE PowerOnAndLoad
  BY Zenon, <1>0, <1>1 DEF PowerOnAndLoad, Loadable
<1>2. CASE Resume \/ Compute \/ PowerCut \/ Reset
  BY Zenon, <1>0, <1>2 DEF Resume, Compute, PowerCut, Reset
<1>3. CASE EraseFlash \/ ProgramPages
  BY Zenon, <1>0, <1>3 DEF EraseFlash, ProgramPages
<1>4. CASE ProgramHeader
  <2>1. NewHeader.cpu = cpu /\ NewHeader.ram = ram
    BY DEF NewHeader
  <2> QED
    BY Zenon, <1>0, <1>4, <2>1 DEF ProgramHeader
<1>5. CASE StateSave \/ SaveRefused \/ CardStep \/ PromoteStep \/ UNCHANGED allVars
  BY Zenon, <1>0, <1>5 DEF StateSave, SaveRefused, CardStep, PromoteStep, allVars
<1> QED
  BY Zenon, <1>1, <1>2, <1>3, <1>4, <1>5 DEF PersistenceNext

(* The steps of the boot and of a save leave a flash update alone: there   *)
(* is none, or the save has returned true to state_save.                   *)
LEMMA CardStepIdle ==
  ASSUME PersistInv, CardStep \/ PromoteStep \/ PowerOnAndLoad \/ Resume
                       \/ Compute \/ StateSave \/ SaveRefused \/ Reset
  PROVE  step = "none"
<1>1. step # "none" => pc = "saved" /\ caller = "loop" /\ okay
  BY DEF PersistInv, FlashInv
<1>2. CASE CardStep
  <2>1. \/ BootRead \/ SaveNext \/ PowerOffTimeout
        \/ \E s \in Slots : ToggleMarker(s)
    BY Zenon, <1>2 DEF CardStep, BootRead
  <2>2. CASE BootRead
    <3>1. Booting /\ pc # "booted"
      BY Zenon, <2>2, BootShape DEF PersistInv
    <3> QED
      BY <1>1, <3>1 DEF Booting, BootSteps
  <2>3. CASE SaveNext
    BY <1>1, <2>3, SaveShape DEF PersistInv
  <2>4. CASE PowerOffTimeout \/ \E s \in Slots : ToggleMarker(s)
    BY <1>1, <2>4 DEF PowerOffTimeout, ToggleMarker
  <2> QED
    BY <2>1, <2>2, <2>3, <2>4
<1>3. CASE PromoteStep \/ PowerOnAndLoad \/ Resume \/ StateSave \/ Reset
  BY <1>1, <1>3 DEF PromoteStep, PromoteNew, PowerOnAndLoad, PowerOn, Resume,
     EnterLoop, StateSave, Save, Reset
<1>4. CASE Compute
  BY <1>1, <1>4 DEF Compute, Edit
<1>5. CASE SaveRefused
  BY Zenon, <1>1, <1>5 DEF SaveRefused
<1> QED
  BY <1>2, <1>3, <1>4, <1>5

(* The flash holds the last snapshot reported as saved, but for an update  *)
(* that power cut off.                                                     *)
LEMMA StepFlash ==
  ASSUME PersistInv, [PersistenceNext]_allVars PROVE FlashInv'
<1> USE FlashValues DEF FlashInv, SnapshotKept, Loadable
<1>0. FlashInv /\ PersistenceTypeOK
  BY DEF PersistInv
<1>1. ASSUME step = "none", UNCHANGED <<header, pages, step, safe, torn>>
      PROVE  FlashInv'
  BY <1>0, <1>1
<1>2. CASE CardStep \/ PromoteStep \/ PowerOnAndLoad \/ Resume \/ Compute
             \/ StateSave \/ SaveRefused
  <2>1. step = "none"
    BY <1>2, CardStepIdle
  <2>2. UNCHANGED <<header, pages, step, safe, torn>>
    BY Zenon, <1>2 DEF CardStep, PromoteStep, PowerOnAndLoad, Resume, Compute,
       StateSave, SaveRefused, flashVars, stateVars
  <2> QED
    BY <1>1, <2>1, <2>2
<1>3. CASE EraseFlash
  BY <1>0, <1>3 DEF EraseFlash, cardStore, vars, saveVars
<1>4. CASE ProgramHeader
  <2>1. NewHeader.ram = ram /\ NewHeader # Erased
    BY HeaderTyped DEF NewHeader
  <2> QED
    BY <1>0, <1>4, <2>1 DEF ProgramHeader, cardStore, vars, saveVars, memVars
<1>5. CASE ProgramPages
  BY <1>0, <1>5 DEF ProgramPages, PersistenceTypeOK, memVars
<1>6. CASE Reset
  <2>1. step = "none"
    BY <1>6, CardStepIdle
  <2> QED
    BY <2>1, <1>6 DEF Reset
<1>7. CASE PowerCut
  <2>1. CASE step = "none"
    BY <1>0, <1>7, <2>1 DEF PowerCut, flashVars
  <2>2. CASE step # "none"
    BY <1>7, <2>2 DEF PowerCut
  <2> QED
    BY <2>1, <2>2
<1>8. CASE UNCHANGED allVars
  BY <1>0, <1>8 DEF allVars, cardStore, vars, saveVars, stateVars
<1> QED
  BY Zenon, <1>2, <1>3, <1>4, <1>5, <1>6, <1>7, <1>8 DEF PersistenceNext

-----------------------------------------------------------------------------
(* The boot and the slot.                                                  *)

(* CardStep without naming its actions: the four kinds of them.            *)
LEMMA CardStepKinds ==
  ASSUME CardStep
  PROVE  /\ UNCHANGED stateVars
         /\ \/ BootRead \/ SaveNext
            \/ /\ pc \in {"run", "off"}
               /\ UNCHANGED <<attached, image, dirty, slot, pc, caller, okay,
                              promised>>
<1>1. \/ BootRead \/ SaveNext \/ PowerOffTimeout
      \/ \E s \in Slots : ToggleMarker(s)
  BY Zenon DEF CardStep, BootRead
<1>2. CASE PowerOffTimeout \/ \E s \in Slots : ToggleMarker(s)
  BY <1>2 DEF CardStep, PowerOffTimeout, ToggleMarker, cardVars, bootVars, saveVars
<1> QED
  BY Zenon, <1>1, <1>2 DEF CardStep

(* A boot ends with a clean card or none, and remembers what it loaded.    *)
LEMMA StepBoot ==
  ASSUME PersistInv, [PersistenceNext]_allVars PROVE BootInv'
<1> USE DEF Booting, BootSteps, SaveSteps
<1>0. BootInv
  BY DEF PersistInv
<1>1. ASSUME pc' \in {"run", "off"} PROVE BootInv'
  BY <1>1 DEF BootInv
<1>2. CASE Resume \/ Compute \/ SaveRefused \/ ProgramPages \/ Reset \/ PowerCut
  <2>1. pc' \in {"run", "off"}
    BY <1>2 DEF Resume, EnterLoop, Compute, Edit, SaveRefused, ProgramPages,
       SaveReturned, Reset, cardStore, vars, PowerCut, PowerLoss
  <2> QED
    BY <1>1, <2>1
<1>3. CASE PowerOnAndLoad
  <2>1. pc' = "select" /\ restored' \in {Erased, header'}
    BY Zenon, <1>3 DEF PowerOnAndLoad, PowerOn, flashVars
  <2> QED
    BY <2>1 DEF BootInv
<1>4. CASE StateSave
  <2>1. caller' = "loop" /\ pc' \in {"saved", "unlink_new"}
    BY Zenon, <1>4 DEF StateSave, Save, EnterSave, Return
  <2>2. pc' = "saved" /\ okay' => Clean'
    <3>1. /\ UNCHANGED <<attached, dirty>>
          /\ Clean \/ (pc' = "saved" => okay' = FALSE)
      BY <1>4 DEF StateSave, Save, EnterSave, Return, cardVars, Clean
    <3> QED
      BY Zenon, <3>1 DEF Clean
  <2> QED
    BY Zenon, <2>1, <2>2 DEF BootInv, Clean
<1>5. CASE EraseFlash \/ ProgramHeader
  <2>1. pc = "saved" /\ caller = "loop" /\ UNCHANGED cardStore
    BY <1>5 DEF EraseFlash, ProgramHeader, PersistInv, FlashInv
  <2>2. UNCHANGED <<pc, caller, okay, attached, dirty>>
    BY Zenon, <2>1 DEF cardStore, vars, cardVars, saveVars
  <2> QED
    BY Zenon, <1>0, <2>1, <2>2 DEF BootInv
<1>6. ASSUME BootRead \/ PromoteNew, UNCHANGED <<header, restored>>
      PROVE  BootInv'
  <2>1. /\ Booting
        /\ \/ pc' \in BootSteps
           \/ /\ pc' = "unlink_new" /\ caller' = "boot"
              /\ promised[slot] = Missing /\ slot' = slot
        /\ pc' \in {"promote_new", "restore_backup", "booted"} => Clean'
    BY Zenon, <1>0, <1>6, BootShape DEF PersistInv
  <2>2. restored' \in {Erased, header'}
    BY Zenon, <1>0, <1>6, <2>1 DEF BootInv
  <2>3. pc' = "unlink_new" => promised'[slot'] = Missing
    <3>1. CASE BootRead
      BY <2>1, <3>1, BootPromise DEF PersistInv
    <3>2. CASE PromoteNew
      BY <3>2 DEF PromoteNew, Adopt, Booted
    <3> QED
      BY <1>6, <3>1, <3>2
  <2>4. pc' # "saved" /\ (pc' \in SaveSteps => pc' = "unlink_new")
    BY <2>1
  <2> QED
    BY Zenon, <2>1, <2>2, <2>3, <2>4 DEF BootInv, Clean
<1>7. ASSUME SaveNext, UNCHANGED <<header, restored>> PROVE BootInv'
  <2>1. /\ pc \in SaveSteps \ {"saved"} /\ pc' \in SaveSteps
        /\ UNCHANGED <<attached, image, slot, caller, clock>>
        /\ \/ UNCHANGED <<promised, dirty>> /\ (pc' = "saved" => ~okay')
           \/ Promise(image) /\ ~dirty' /\ pc' = "saved" /\ okay'
    BY Zenon, <1>7, SaveShape DEF PersistInv
  <2>2. pc' = "saved" /\ okay' => Clean'
    BY Zenon, <2>1 DEF Clean
  <2>3. pc' # "saved" /\ caller' = "boot" => promised'[slot'] = Missing
    BY Zenon, <1>0, <2>1 DEF BootInv
  <2>4. Booting' => restored' \in {Erased, header'}
    BY <1>0, <1>7, <2>1 DEF BootInv
  <2>5. pc' \notin {"promote_new", "restore_backup", "booted"}
    BY <2>1
  <2> QED
    BY Zenon, <2>2, <2>3, <2>4, <2>5 DEF BootInv, Clean
<1>8. CASE PromoteStep
  BY Zenon, <1>6, <1>8 DEF PromoteStep, flashVars
<1>9. CASE CardStep
  <2>1. UNCHANGED <<header, restored>>
    BY Zenon, <1>9, CardStepKinds DEF stateVars
  <2>2. CASE pc \in {"run", "off"} /\ pc' = pc
    BY <1>1, <2>2
  <2> QED
    BY Zenon, <1>6, <1>7, <1>9, <2>1, <2>2, CardStepKinds
<1>10. CASE UNCHANGED allVars
  BY Zenon, <1>0, <1>10
     DEF BootInv, allVars, cardStore, vars, cardVars, bootVars, saveVars, stateVars
<1> QED
  BY Zenon, <1>2, <1>3, <1>4, <1>5, <1>8, <1>9, <1>10 DEF PersistenceNext

(* A running calculator keeps the slot it resumed with.                    *)
LEMMA StepLoop ==
  ASSUME PersistInv, [PersistenceNext]_allVars PROVE LoopInv'
<1> USE DEF SlotMatches, ActiveSlot
<1> DEFINE InLoop == pc = "run" \/ (pc \in SaveSteps /\ caller = "loop")
<1>0. LoopInv /\ (step # "none" => pc = "saved" /\ caller = "loop")
  BY Zenon DEF PersistInv, FlashInv
<1>1. ASSUME InLoop, UNCHANGED <<attached, slot, restored>> PROVE LoopInv'
  BY Zenon, <1>0, <1>1 DEF LoopInv
<1>2. ASSUME ~InLoop' PROVE LoopInv'
  BY Zenon, <1>2 DEF LoopInv
<1>3. CASE PowerOnAndLoad \/ PowerCut
  <2>1. pc' \in {"select", "off"}
    BY Zenon, <1>3 DEF PowerOnAndLoad, PowerOn, PowerCut, PowerLoss
  <2> QED
    BY <1>2, <2>1 DEF SaveSteps
<1>4. CASE Resume
  <2>1. UNCHANGED <<attached, slot>>
    BY Zenon, <1>4 DEF Resume, EnterLoop, cardVars, bootVars
  <2> QED
    BY Zenon, <1>4, <2>1 DEF Resume, LoopInv
<1>5. CASE Compute \/ Reset \/ StateSave
  <2>1. pc = "run" /\ UNCHANGED <<attached, slot, restored>>
    BY Zenon, <1>5 DEF Compute, Edit, Reset, StateSave, Save, EnterSave, cardVars,
       bootVars, cardStore, vars, stateVars
  <2> QED
    BY Zenon, <1>1, <2>1
<1>6. CASE SaveRefused \/ ProgramPages
  <2>1. pc = "saved" /\ caller = "loop" /\ UNCHANGED <<attached, slot, restored>>
    BY Zenon, <1>6 DEF SaveRefused, ProgramPages, SaveReturned, cardVars,
       bootVars, stateVars
  <2> QED
    BY <1>1, <2>1 DEF SaveSteps
<1>7. CASE EraseFlash \/ ProgramHeader
  <2>1. pc = "saved" /\ caller = "loop"
    BY <1>0, <1>7 DEF EraseFlash, ProgramHeader
  <2>2. UNCHANGED <<attached, slot, restored>>
    BY Zenon, <1>7
       DEF EraseFlash, ProgramHeader, cardStore, vars, cardVars, bootVars
  <2> QED
    BY <1>1, <2>1, <2>2 DEF SaveSteps
<1>8. ASSUME BootRead \/ PromoteNew PROVE ~InLoop'
  BY <1>8, BootShape DEF PersistInv, BootSteps, SaveSteps
<1>9. CASE PromoteStep
  BY Zenon, <1>2, <1>8, <1>9 DEF PromoteStep
<1>10. CASE CardStep
  <2>1. restored' = restored
    BY Zenon, <1>10, CardStepKinds DEF stateVars
  <2>2. CASE BootRead
    BY Zenon, <1>2, <1>8, <2>2
  <2>3. CASE SaveNext
    <3>1. /\ pc \in SaveSteps \ {"saved"} /\ pc' \in SaveSteps
          /\ UNCHANGED <<attached, slot, caller>>
      BY Zenon, <2>3, SaveShape DEF PersistInv
    <3>2. CASE caller = "loop"
      BY Zenon, <1>1, <2>1, <3>1, <3>2
    <3>3. CASE caller # "loop"
      BY <1>2, <3>1, <3>3 DEF SaveSteps
    <3> QED
      BY <3>2, <3>3
  <2>4. CASE pc \in {"run", "off"} /\ UNCHANGED <<attached, slot, pc, caller>>
    BY <1>1, <1>2, <2>1, <2>4 DEF SaveSteps
  <2> QED
    BY Zenon, <1>10, <2>2, <2>3, <2>4, CardStepKinds
<1>11. CASE UNCHANGED allVars
  BY Zenon, <1>0, <1>11
     DEF LoopInv, allVars, cardStore, vars, cardVars, bootVars, saveVars, stateVars
<1> QED
  BY Zenon, <1>3, <1>4, <1>5, <1>6, <1>7, <1>9, <1>10, <1>11 DEF PersistenceNext

-----------------------------------------------------------------------------
(* The snapshot and the card.                                              *)

(* A card that was saved is the promised one.                              *)
LEMMA CleanIsPromised ==
  ASSUME PersistInv, attached, ~dirty, pc \in {"saved", "booted"}
  PROVE  image \in Images /\ image \in Nat /\ promised[slot] = image
<1>1. slot \in Slots /\ image \in Images /\ SlotInv(slot)
  BY Zenon DEF PersistInv, CardInv, TypeOK, DataOK, FilesInv
<1>2. files[slot]["CRD"] = image
  BY DEF PersistInv, CardInv, MemoryInv
<1> QED
  BY <1>1, <1>2, Values DEF SlotInv

(* The header written after a save that returned true names the promised   *)
(* card.                                                                   *)
LEMMA HeaderCard ==
  ASSUME PersistInv, ProgramHeader
  PROVE  /\ header' # Erased /\ promised' = promised
         /\ header'.slot \in Slots =>
              /\ header'.card \in Images /\ header'.card \in Nat
              /\ promised[header'.slot] = header'.card
<1>1. header' = NewHeader /\ promised' = promised
  BY Zenon DEF ProgramHeader, cardStore, vars
<1>2. header' # Erased
  BY Zenon, <1>1, HeaderTyped, FlashValues
<1>3. pc = "saved" /\ okay /\ Clean
  BY DEF ProgramHeader, PersistInv, FlashInv, BootInv, Clean
<1>4. CASE attached
  <2>1. header'.slot = slot /\ header'.card = image
    BY <1>1, <1>4 DEF NewHeader, ActiveSlot
  <2> QED
    BY <1>1, <1>2, <1>3, <1>4, <2>1, CleanIsPromised DEF Clean
<1>5. CASE ~attached
  <2>1. header'.slot = NoCard
    BY <1>1, <1>5 DEF NewHeader, ActiveSlot
  <2> QED
    BY <1>1, <1>2, <2>1, FlashValues
<1> QED
  BY <1>4, <1>5

(* A promise that grows stays at least as new as a snapshot's card.        *)
LEMMA StepCardOf ==
  ASSUME PersistInv, [PersistenceNext]_allVars, NEW h, CardOf(h)
  PROVE  h.slot \in Slots =>
           /\ h.card \in Images /\ promised'[h.slot] \in Images
           /\ h.card <= promised'[h.slot]
<1> SUFFICES ASSUME h.slot \in Slots
             PROVE  /\ h.card \in Images /\ promised'[h.slot] \in Images
                    /\ h.card <= promised'[h.slot]
  OBVIOUS
<1>1. /\ h.card \in Images /\ promised[h.slot] \in Images
      /\ h.card <= promised[h.slot]
  BY DEF CardOf
<1>2. promised'[h.slot] \in Images /\ promised'[h.slot] >= promised[h.slot]
  BY <1>1, PromiseGrows DEF PersistInv
<1>3. /\ h.card \in Nat /\ promised[h.slot] \in Nat
      /\ promised'[h.slot] \in Nat
  BY Zenon, <1>1, <1>2, Values
<1> QED
  BY <1>1, <1>2, <1>3

(* Every step keeps the cards of the snapshots among the promises.         *)
LEMMA StepPair ==
  ASSUME PersistInv, [PersistenceNext]_allVars PROVE PairInv'
<1>0. PairInv
  BY DEF PersistInv
<1>1. \/ header' = header \/ header' = Erased \/ ProgramHeader
  BY Zenon DEF PersistenceNext, PowerOnAndLoad, Resume, Compute, StateSave,
     SaveRefused, EraseFlash, ProgramPages, Reset, PowerCut, CardStep,
     PromoteStep, flashVars, stateVars, allVars
<1>2. \/ restored' = restored \/ restored' = Erased \/ restored' = header
  BY Zenon DEF PersistenceNext, PowerOnAndLoad, Resume, Compute, StateSave,
     SaveRefused, EraseFlash, ProgramHeader, ProgramPages, Reset, PowerCut,
     CardStep, PromoteStep, stateVars, allVars
<1>3. header' # Erased => CardOf(header)'
  <2>1. CASE ProgramHeader
    BY <2>1, HeaderCard DEF CardOf
  <2>2. CASE header' = header
    BY Zenon, <1>0, <2>2, StepCardOf DEF PairInv, CardOf
  <2> QED
    BY <1>1, <2>1, <2>2
<1>4. restored' # Erased => CardOf(restored)'
  <2>1. CASE restored' = restored
    BY Zenon, <1>0, <2>1, StepCardOf DEF PairInv, CardOf
  <2>2. CASE restored' = header
    BY Zenon, <1>0, <2>2, StepCardOf DEF PairInv, CardOf
  <2> QED
    BY <1>2, <2>1, <2>2
<1> QED
  BY <1>3, <1>4 DEF PairInv

(* The card of the snapshot stays the promised one but for the three ways  *)
(* AgreeInv names.                                                         *)
LEMMA StepAgree ==
  ASSUME PersistInv, [PersistenceNext]_allVars PROVE AgreeInv'
<1>0. /\ AgreeInv /\ (step # "none" => pc = "saved" /\ caller = "loop" /\ okay)
      /\ {okay, cut, adopted, okay'} \subseteq BOOLEAN
  BY Zenon, StepCard
     DEF PersistInv, FlashInv, PersistenceTypeOK, CardInv, TypeOK, FlagsOK
<1>1. ASSUME ~Replacing, step # "pages", step' = "none", promised' = promised,
             header' = header, cut => cut', adopted => adopted'
      PROVE  AgreeInv'
  BY Zenon, <1>0, <1>1 DEF AgreeInv
<1>2. CASE PowerOnAndLoad \/ Resume \/ Compute \/ StateSave \/ SaveRefused
  <2>1. step = "none" /\ step' = step
    BY Zenon, <1>2, CardStepIdle
       DEF PowerOnAndLoad, Resume, Compute, StateSave, SaveRefused, stateVars
  <2>2. UNCHANGED <<promised, header, cut, adopted>>
    BY Zenon, <1>2 DEF PowerOnAndLoad, PowerOn, Resume, EnterLoop, Compute, Edit,
       StateSave, Save, EnterSave, SaveRefused, SaveReturned, flashVars, stateVars
  <2>3. pc # "saved" \/ ~okay
    BY <1>2 DEF PowerOnAndLoad, PowerOn, Resume, EnterLoop, Compute, Edit,
       StateSave, Save, SaveRefused
  <2> QED
    BY Zenon, <1>1, <2>1, <2>2, <2>3 DEF Replacing
<1>3. CASE EraseFlash \/ Reset
  BY Zenon, <1>3 DEF EraseFlash, Reset, AgreeInv
<1>4. CASE ProgramHeader
  BY Zenon, <1>4, HeaderCard DEF AgreeInv
<1>5. CASE ProgramPages
  <2>1. step = "pages" /\ header' = header /\ promised' = promised
    BY Zenon, <1>5 DEF ProgramPages, SaveReturned
  <2> QED
    BY Zenon, <1>0, <2>1 DEF AgreeInv
<1>6. CASE PowerCut
  <2>1. /\ step' = "none" /\ header' = header /\ promised' = promised
        /\ (cut => cut') /\ (adopted => adopted')
        /\ (pc \in SaveSteps /\ caller = "loop" => cut')
    BY Zenon, <1>0, <1>6 DEF PowerCut, PowerLoss, flashVars
  <2>2. Replacing \/ step = "pages" => cut'
    BY <1>0, <2>1 DEF Replacing, SaveSteps
  <2>3. CASE cut'
    BY Zenon, <2>1, <2>3 DEF AgreeInv
  <2> QED
    BY Zenon, <1>1, <2>1, <2>2, <2>3
<1>7. CASE PromoteStep
  <2>1. step = "none" /\ step' = "none" /\ pc = "promote_new"
    BY <1>7, CardStepIdle DEF PromoteStep, PromoteNew
  <2>2. header' = header /\ cut' = cut /\ (adopted => adopted')
        /\ (status' = "RECOVERED" => adopted')
    BY Zenon, <1>0, <1>7 DEF PromoteStep, flashVars
  <2>3. status' = "RECOVERED" \/ promised' = promised
    BY Zenon, <1>7 DEF PromoteStep, PromoteNew, Adopt, Booted
  <2>4. CASE adopted'
    BY Zenon, <2>1, <2>4 DEF AgreeInv
  <2>5. CASE ~adopted'
    BY Zenon, <1>1, <2>1, <2>2, <2>3, <2>5 DEF Replacing
  <2> QED
    BY <2>4, <2>5
<1>8. CASE CardStep
  <2>1. step = "none" /\ UNCHANGED <<step, header, cut, adopted>>
    BY Zenon, <1>8, CardStepIdle, CardStepKinds DEF stateVars
  <2>2. CASE BootRead
    <3>1. ~Replacing
      BY <2>2, BootShape DEF PersistInv, Booting, BootSteps, Replacing
    <3>2. promised' = promised
      BY <2>2, BootPromise DEF PersistInv
    <3> QED
      BY Zenon, <1>1, <2>1, <3>1, <3>2
  <2>3. CASE SaveNext
    <3>1. /\ pc \in SaveSteps \ {"saved"} /\ caller' = caller
          /\ \/ promised' = promised
             \/ Promise(image) /\ pc' = "saved" /\ okay'
      BY Zenon, <2>3, SaveShape DEF PersistInv
    <3>2. ~Replacing
      BY <3>1 DEF Replacing
    <3>3. CASE promised' = promised
      BY Zenon, <1>1, <2>1, <3>2, <3>3
    <3>4. CASE Promise(image) /\ pc' = "saved" /\ okay' /\ caller = "loop"
      BY Zenon, <2>1, <3>1, <3>4 DEF AgreeInv, Replacing
    <3>5. CASE Promise(image) /\ caller = "boot"
      <4> SUFFICES ASSUME header # Erased, header.slot \in Slots,
                          ~(cut \/ adopted)
                   PROVE  promised'[header.slot] = header.card
        BY Zenon, <2>1, <3>2 DEF AgreeInv
      <4>1. promised[slot] = Missing
        BY Zenon, <3>1, <3>5 DEF PersistInv, BootInv
      <4>2. promised[header.slot] \in Images /\ promised[header.slot] = header.card
        BY Zenon, <1>0, <3>2 DEF PersistInv, PairInv, CardOf, AgreeInv
      <4>3. header.slot # slot
        BY Zenon, <4>1, <4>2, Values
      <4>4. promised'[header.slot] = promised[header.slot]
        BY <3>5, <4>3, Promised DEF PersistInv, CardInv
      <4> QED
        BY <4>2, <4>4
    <3>6. caller \in {"boot", "loop"}
      BY DEF PersistInv, CardInv, TypeOK, DataOK
    <3> QED
      BY <3>1, <3>3, <3>4, <3>5, <3>6
  <2>4. CASE pc \in {"run", "off"} /\ promised' = promised
    <3>1. ~Replacing
      BY <2>4 DEF Replacing
    <3> QED
      BY Zenon, <1>1, <2>1, <2>4, <3>1
  <2> QED
    BY Zenon, <1>8, <2>2, <2>3, <2>4, CardStepKinds
<1>9. CASE UNCHANGED allVars
  BY Zenon, <1>0, <1>9
     DEF AgreeInv, Replacing, allVars, cardStore, vars, saveVars, stateVars
<1> QED
  BY Zenon, <1>2, <1>3, <1>4, <1>5, <1>6, <1>7, <1>8, <1>9 DEF PersistenceNext

-----------------------------------------------------------------------------
(* The theorems.                                                           *)

(* The invariant of the two stores together: what is in flash, in memory   *)
(* and on the SD card is consistent at every step of a boot, a save and a  *)
(* flash update, whatever fails and wherever power goes.                   *)
THEOREM PersistInvariant == PersistenceSpec => []PersistInv
<1>1. PersistenceInit => PersistInv
  BY InitPersist
<1>2. PersistInv /\ [PersistenceNext]_allVars => PersistInv'
  BY StepCard, StepPersistTyped, StepMoment, StepFlash, StepBoot, StepLoop,
     StepPair, StepAgree DEF PersistInv
<1> QED
  BY <1>1, <1>2, PTL DEF PersistenceSpec

(* A snapshot whose update was cut short is never resumed: the CPU and the *)
(* RAM the calculator runs with are of one moment.                         *)
THEOREM MemoryIsOfOneMoment == PersistenceSpec => []MemoryOfOneMoment
<1>1. PersistInv => MemoryOfOneMoment
  BY DEF PersistInv, MomentInv, MemoryOfOneMoment
<1> QED
  BY <1>1, PersistInvariant, PTL

(* A resumed snapshot has the slot of the attached card, which is not      *)
(* older than the RAM that refers to it.                                   *)
THEOREM CardFitsSnapshot == PersistenceSpec => []CardMatchesSnapshot
<1>1. PersistInv => CardMatchesSnapshot
  <2> SUFFICES ASSUME PersistInv, pc = "run", restored # Erased
               PROVE  SlotMatches /\ (attached => image >= restored.card)
    BY DEF CardMatchesSnapshot, Resumed
  <2>1. SlotMatches
    BY DEF PersistInv, LoopInv
  <2>2. ASSUME attached PROVE image >= restored.card
    <3>1. restored.slot = slot /\ slot \in Slots /\ image \in Images
      BY <2>1, <2>2
         DEF SlotMatches, ActiveSlot, PersistInv, CardInv, TypeOK, DataOK
    <3>2. /\ restored.card \in Images /\ promised[slot] \in Images
          /\ restored.card <= promised[slot]
      BY <3>1 DEF PersistInv, PairInv, CardOf
    <3>3. image >= promised[slot]
      BY <2>2, <3>2 DEF PersistInv, CardInv, MemoryInv
    <3>4. /\ image \in Nat /\ restored.card \in Nat
          /\ promised[slot] \in Nat
      BY Zenon, <3>1, <3>2, Values
    <3> QED
      BY <3>2, <3>3, <3>4
  <2> QED
    BY <2>1, <2>2
<1> QED
  BY <1>1, PersistInvariant, PTL

(* A snapshot reported as saved stays in flash, whole, until it is         *)
(* replaced or deleted, but for a power cut in the flash update.           *)
THEOREM SnapshotIsKept == PersistenceSpec => []SnapshotKept
<1>1. PersistInv => SnapshotKept
  BY DEF PersistInv, FlashInv
<1> QED
  BY <1>1, PersistInvariant, PTL

(* The card and the snapshot a boot resumes belong together unless power   *)
(* went during a state_save or a recovered NEW was adopted since.          *)
THEOREM SplitOnlyAfterCut == PersistenceSpec => SplitOnlyAfterCutOrRecovery
<1>1. PersistInv /\ [PersistenceNext]_allVars =>
        [pc = "booted" /\ pc' = "run" /\ restored' # Erased /\ attached =>
           image = restored.card \/ cut \/ adopted]_allVars
  <2> SUFFICES ASSUME PersistInv, [PersistenceNext]_allVars, pc = "booted",
                      pc' = "run", restored' # Erased, attached, ~cut, ~adopted
               PROVE  image = restored.card
    OBVIOUS
  <2>1. Resume
    BY CardStepKinds, BootShape, SaveShape
       DEF PersistenceNext, PowerOnAndLoad, PowerOn, Compute, Edit, StateSave,
           Save, SaveRefused, SaveReturned, EraseFlash, ProgramHeader,
           ProgramPages, Reset, PowerCut, PowerLoss, PromoteStep, PromoteNew,
           PersistInv, FlashInv, SaveSteps, allVars, cardStore, vars
  <2>2. restored # Erased /\ restored.slot = slot /\ slot \in Slots
    BY <2>1 DEF Resume, SlotMatches, ActiveSlot, PersistInv, CardInv, TypeOK,
       DataOK
  <2>3. restored = header
    BY <2>2 DEF PersistInv, BootInv, Booting, BootSteps
  <2>4. promised[slot] = restored.card
    BY <2>2, <2>3 DEF PersistInv, AgreeInv, Replacing
  <2>5. promised[slot] = image
    BY CleanIsPromised DEF PersistInv, BootInv
  <2> QED
    BY <2>4, <2>5
<1> QED
  BY <1>1, PersistInvariant, PTL DEF PersistenceSpec, SplitOnlyAfterCutOrRecovery
=============================================================================
