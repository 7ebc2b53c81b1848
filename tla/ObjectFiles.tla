---------------------------- MODULE ObjectFiles ----------------------------
(***************************************************************************)
(* src/platform/object_files.c on top of RplTransfer: importing the        *)
(* selected file of the INBOX onto the HP's stack and exporting level 1 to *)
(* a new file of the OUTBOX.  Every FatFs call may fail and the power may  *)
(* go between any two of them.                                             *)
(*                                                                         *)
(* External: FatFs, the SD card and the HP ROM.  The main loop runs a      *)
(* transfer to its end before anything else (SaturnSleep shows when it     *)
(* starts one), so the ROM works only between transfers.                   *)
(***************************************************************************)
EXTENDS RplTransfer

CONSTANTS
  Inbox,        \* the entries of the INBOX: [name, directory, supported,
                \* header, payload], names ordered as strcmp orders them
  NoName,       \* s_selected is empty: below every name
  Slots,        \* the numbers 000 .. 999 of the OUTBOX
  NoFile, UserFile, Partial,   \* a file that is not there, the user's own, and
                               \* one that is not complete
  UserFinals, UserTemps,   \* the STKnnn.48G and .NEW files the user put there
  BUFFER_BYTES, \* sizeof(buffer)
  BootHp,       \* the HP after a restart
  MaxDepth,     \* bound: levels of the stack that the ROM uses
  MaxImports, MaxExports   \* bounds: transfers that get as far as the HP

ASSUME ObjectFilesAssumption ==
  /\ IsFiniteSet(Slots) /\ Slots = 0 .. Cardinality(Slots) - 1
  /\ UserFinals \subseteq Slots /\ UserTemps \subseteq Slots
  /\ NoFile # UserFile /\ UserFile # Partial /\ UserFile \notin Seq(Cell)
  /\ BUFFER_BYTES \in Nat \ {0}
  /\ BootHp \in Hp /\ rpl_pointers(BootHp) /\ InOrder(BootHp)
  /\ BootHp.dsktop + Word <= BootHp.editline
  /\ NoName \in Nat
  /\ \A entry \in Inbox : /\ entry.name \in Nat /\ entry.name > NoName
                          /\ entry.payload \in Seq(Cell) /\ Len(entry.payload) % 2 = 0

VARIABLES
  hp,           \* the HP's RAM and RPL pointers
  selected,     \* s_selected
  final,        \* final[s]: STK<s>.48G
  temp,         \* temp[s]: STK<s>.NEW
  job,          \* what the running transfer does next: "idle", "read", "close",
                \* "write", "sync", "rename", "unlink"
  transfer,     \* hp48_rpl_import_t
  export,       \* hp48_rpl_export_t, with the slot and the bytes written
  status,       \* the result the last call reported, until something else runs
  torn,         \* history: a garbage collection was stopped half way
  imports, exports   \* bounds: transfers so far

bounds == <<imports, exports>>
vars == <<hp, selected, final, temp, job, transfer, export, status, torn, bounds>>

NoJob == [object |-> 0, cells |-> 0, slot |-> 0, offset |-> 0]
Entry(name) == CHOOSE entry \in Inbox : entry.name = name
Payload == Entry(selected).payload

Init ==
  /\ hp = BootHp
  /\ selected = NoName
  /\ final = [s \in Slots |-> IF s \in UserFinals THEN UserFile ELSE NoFile]
  /\ temp = [s \in Slots |-> IF s \in UserTemps THEN UserFile ELSE NoFile]
  /\ job = "idle" /\ transfer = NoTransfer /\ export = NoJob
  /\ status = "NONE" /\ torn = FALSE /\ imports = 0 /\ exports = 0

-----------------------------------------------------------------------------
(* scan_next: the next supported file after the selected one, or the first. *)
Names == {entry.name : entry \in {e \in Inbox : ~e.directory /\ e.supported}}
Least(S) == CHOOSE x \in S : \A y \in S : x <= y
NextName(name) ==
  LET after == {n \in Names : n > name}
  IN IF Names = {} THEN NoName
     ELSE IF name = NoName \/ after = {} THEN Least(Names) ELSE Least(after)

Idle == job = "idle" /\ ~torn

(* The call ends here with a result.                                       *)
Done(result) ==
  /\ job' = "idle"
  /\ status' = CASE result = "NOT_READY"    -> "HP_NOT_READY"
                 [] result = "NO_MEMORY"    -> "HP_MEMORY_FULL"
                 [] result = "GC_FAILED"    -> "HP_GC_FAILED"
                 [] result = "OUT_OF_RANGE" -> "TOO_LARGE"
                 [] OTHER -> result

object_files_cycle ==
  /\ Idle
  /\ selected' = NextName(selected)
  /\ status' = "NONE"
  /\ UNCHANGED <<hp, final, temp, job, transfer, export, torn, bounds>>

(* What fails before the HP is touched: no card, an error of the scan, of  *)
(* opening the file or of reading its header.  IO_ERROR stands for all of  *)
(* their results.                                                          *)
ImportUnreadable ==
  /\ Idle
  /\ Done("IO_ERROR")
  /\ selected' \in {selected, IF selected = NoName THEN NextName(NoName) ELSE selected}
  /\ UNCHANGED <<hp, final, temp, transfer, export, torn, bounds>>

object_files_import_selected ==
  /\ Idle /\ imports < MaxImports /\ imports' = imports + 1
  /\ selected' = IF selected = NoName THEN NextName(NoName) ELSE selected
  /\ IF selected' = NoName
       THEN Done("NO_INPUT") /\ UNCHANGED <<hp, transfer, torn>>
     ELSE IF Entry(selected').header # "HPHP48-"
       THEN Done("BAD_HEADER") /\ UNCHANGED <<hp, transfer, torn>>
     ELSE IF Entry(selected').payload = <<>>
       THEN Done("BAD_OBJECT") /\ UNCHANGED <<hp, transfer, torn>>
     ELSE \E begun \in ImportBegin(hp, Len(Entry(selected').payload) \div 2) :
            /\ hp' = begun.hp /\ transfer' = begun.transfer
            /\ torn' = (begun.status = "GC_FAILED")
            /\ IF begun.status = "OK" THEN job' = "read" /\ UNCHANGED status
               ELSE Done(begun.status)
  /\ UNCHANGED <<final, temp, export, exports>>

EndImport(outcome) ==
  /\ hp' = outcome.hp /\ transfer' = outcome.transfer
  /\ Done(outcome.status)

(* One turn of the loop: up to a buffer of the file, or a read that fails  *)
(* or comes short.                                                         *)
ImportRead ==
  /\ job = "read"
  /\ LET left == transfer.bytes - transfer.written
         wanted == IF left > BUFFER_BYTES THEN BUFFER_BYTES ELSE left
         from == 2 * transfer.written
         wrote == ImportWrite(hp, transfer, SubSeq(Payload, from + 1, from + 2 * wanted))
     IN \/ /\ hp' = wrote.hp /\ transfer' = wrote.transfer
           /\ job' = IF wanted = left THEN "close" ELSE "read"
           /\ UNCHANGED status
        \/ EndImport(ImportAbort(hp, transfer, "IO_ERROR"))
  /\ UNCHANGED <<selected, final, temp, export, torn, bounds>>

ImportClose ==
  /\ job = "close"
  /\ \/ EndImport(ImportAbort(hp, transfer, "IO_ERROR"))
     \/ EndImport(ImportCommit(hp, transfer))
  /\ UNCHANGED <<selected, final, temp, export, torn, bounds>>

-----------------------------------------------------------------------------
(* object_files_export_stack: the first number neither of whose names is   *)
(* taken.                                                                  *)
FreeSlots == {s \in Slots : final[s] = NoFile /\ temp[s] = NoFile}

ExportFails ==
  /\ Idle
  /\ Done("IO_ERROR")
  /\ UNCHANGED <<hp, selected, final, temp, transfer, export, torn, bounds>>

object_files_export_stack ==
  /\ Idle /\ exports < MaxExports /\ exports' = exports + 1
  /\ LET begun == ExportBegin(hp)
         slot == Least(FreeSlots)
     IN IF begun.status # "OK"
          THEN Done(begun.status) /\ UNCHANGED <<temp, export>>
        ELSE IF FreeSlots = {}
          THEN Done("OUTBOX_FULL") /\ UNCHANGED <<temp, export>>
        ELSE IF temp[slot] # NoFile           \* FA_CREATE_NEW
          THEN Done("IO_ERROR") /\ UNCHANGED <<temp, export>>
        ELSE /\ temp' = [temp EXCEPT ![slot] = <<>>]
             /\ export' = [object |-> begun.transfer.object, cells |-> begun.transfer.cells,
                           slot |-> slot, offset |-> 0]
             /\ job' = "write" /\ UNCHANGED status
  /\ UNCHANGED <<hp, selected, final, transfer, torn, imports>>

(* A write of the header, at offset 0 together with the first chunk, or of *)
(* a chunk; after one that fails the file is closed and removed.           *)
ExportWrite ==
  /\ job = "write"
  /\ LET left == PackedBytes(export) - export.offset
         chunk == IF left > BUFFER_BYTES THEN BUFFER_BYTES ELSE left
     IN \/ /\ temp' = [temp EXCEPT ![export.slot] =
                         @ \o ExportRead(hp, export, export.offset, chunk)]
           /\ export' = [export EXCEPT !.offset = @ + chunk]
           /\ job' = IF chunk = left THEN "sync" ELSE "write"
        \/ /\ temp' = [temp EXCEPT ![export.slot] = Partial]
           /\ UNCHANGED export
           /\ job' = "unlink"
  /\ UNCHANGED <<hp, selected, final, transfer, status, torn, bounds>>

(* f_sync and f_close: both must succeed for the file to be renamed.       *)
ExportSync ==
  /\ job = "sync"
  /\ job' \in {"rename", "unlink"}
  /\ UNCHANGED <<hp, selected, final, temp, transfer, export, status, torn, bounds>>

ExportRename ==
  /\ job = "rename"
  /\ \/ /\ final' = [final EXCEPT ![export.slot] = temp[export.slot]]
        /\ temp' = [temp EXCEPT ![export.slot] = NoFile]
        /\ export' = NoJob
        /\ Done("OK")
     \/ job' = "unlink" /\ UNCHANGED <<final, temp, export, status>>
  /\ UNCHANGED <<hp, selected, transfer, torn, bounds>>

(* The result of f_unlink is not looked at.                                *)
ExportUnlink ==
  /\ job = "unlink"
  /\ \/ temp' = [temp EXCEPT ![export.slot] = NoFile]
     \/ UNCHANGED temp
  /\ export' = NoJob
  /\ Done("IO_ERROR")
  /\ UNCHANGED <<hp, selected, final, transfer, torn, bounds>>

-----------------------------------------------------------------------------
(* The ROM between two transfers: a command takes level 1 off the stack or *)
(* puts a copy of a level on it.  It keeps AVMEM, and when it idles its    *)
(* return stack is as deep as before.                                      *)
RomStep(next) ==
  /\ Idle /\ rpl_pointers(hp)
  /\ hp' = [next EXCEPT !.avmem = Free(next) \div Word]
  /\ status' = "NONE"
  /\ UNCHANGED <<selected, final, temp, job, transfer, export, torn, bounds>>

Drop == /\ hp48_rpl_stack_depth(hp) > 0
        /\ RomStep([hp EXCEPT !.dsktop = @ + Word])

Pick == /\ Free(hp) >= Word /\ hp48_rpl_stack_depth(hp) < MaxDepth
        /\ \E level \in StackCells(hp) :
             RomStep([hp EXCEPT !.dsktop = @ - Word,
                                !.ram = Write5(@, hp.dsktop - Word, @[level])])

(* The power goes; the HP comes back as the saved state has it, or without *)
(* one, when the ROM has not set up its pointers yet.  A file that was not *)
(* yet synced is left incomplete.                                          *)
PowerCut ==
  /\ hp' \in {BootHp, [BootHp EXCEPT !.temptop = 0, !.rsktop = 0, !.dsktop = 0,
                                     !.editline = 0, !.avmem = 0]}
  /\ temp' = IF job \in {"write", "sync"} THEN [temp EXCEPT ![export.slot] = Partial] ELSE temp
  /\ job' = "idle" /\ transfer' = NoTransfer /\ export' = NoJob
  /\ status' = "NONE" /\ torn' = FALSE
  /\ selected' \in {NoName, NextName(NoName)}
  /\ UNCHANGED <<final, bounds>>

RomReady ==
  /\ Idle /\ ~rpl_pointers(hp)
  /\ hp' = BootHp
  /\ UNCHANGED <<selected, final, temp, job, transfer, export, status, torn, bounds>>

Transfers ==
  \/ object_files_cycle \/ ImportUnreadable \/ object_files_import_selected
  \/ ImportRead \/ ImportClose
  \/ ExportFails \/ object_files_export_stack \/ ExportWrite \/ ExportSync
  \/ ExportRename \/ ExportUnlink

Next == Transfers \/ Drop \/ Pick \/ PowerCut \/ RomReady

Spec == Init /\ [][Next]_vars
-----------------------------------------------------------------------------
(* What an HP object is, read off the formats rather than off object_size: *)
(* the cells s are one object, or the objects of a list.                   *)
IsObject(cells) ==
  LET Word1(s) == s[1 + Word]
      Drop1(s, n) == SubSeq(s, n + 1, Len(s))
      Is[what \in {"object", "objects"}, s \in Seq(Int)] ==
        IF what = "objects"
        THEN s = <<>> \/ \E n \in 1 .. Len(s) : /\ Is["object", SubSeq(s, 1, n)]
                                              /\ Is["objects", Drop1(s, n)]
        ELSE /\ Len(s) >= Word
             /\ CASE s[1] = DOREAL -> Len(s) = RealLength
                  [] s[1] = DOCSTR -> Len(s) >= 2 * Word /\ Len(s) = Word + Word1(s)
                  [] s[1] = DOIDNT -> Len(s) > Word /\ Len(s) = Word + 1 + Word1(s)
                  [] s[1] = DOTAG  ->
                       /\ Len(s) > Word /\ Len(s) > Word + 1 + Word1(s)
                       /\ Is["object", Drop1(s, Word + 1 + Word1(s))]
                  [] s[1] = DOLIST ->
                       /\ Len(s) >= 2 * Word /\ s[Len(s) - Word + 1] = SEMI
                       /\ Is["objects", SubSeq(s, Word + 1, Len(s) - Word)]
                  [] s[1] = DORRP  ->
                       /\ Len(s) > 2 * Word
                       /\ LET offset == s[Word + 2]
                              name   == Word + 1 + offset
                          IN IF offset = 0 THEN Len(s) = 2 * Word + 1
                             ELSE /\ Len(s) > name /\ Len(s) > name + s[name + 1] + 2
                                  /\ Is["object", Drop1(s, name + s[name + 1] + 2)]
                  [] s[1] = SEMI   -> FALSE
                  [] OTHER -> Len(s) = Word
  IN Is["object", cells]

(* The object that cells with at most one nibble to spare hold, if any.    *)
ObjectsIn(cells) ==
  {object \in {SubSeq(cells, 1, Len(cells) - spare) : spare \in {0, 1}} : IsObject(object)}

HoldsObject(cells) == ObjectsIn(cells) # {}

(* A name that is not followed by the rest of a list: object_size adds to  *)
(* it what it finds behind it.                                             *)
EndsInName(cells) ==
  \E i \in 1 .. Len(cells) - Word :
    /\ cells[i] = DOIDNT
    /\ LET end == i + Word + cells[i + Word]
       IN \/ end \in {Len(cells), Len(cells) - 1}
          \/ end < Len(cells) /\ HoldsObject(SubSeq(cells, end + 1, Len(cells)))

(* Between any two calls, and during an import, the temporary objects lie  *)
(* end to end up to TEMPTOP as the ROM's collector walks them, every level *)
(* of the stack is the start of one of them, and AVMEM is what is free.    *)
MemoryIsInOrder ==
  rpl_pointers(hp) /\ ~torn => InOrder(hp)

(* object_size of the cells by themselves, and the cells it takes for one  *)
(* object, which one unused nibble may follow.                             *)
SizeAlone(cells) ==
  ObjectSize([x \in Addr |-> IF x < RamBase + Len(cells) THEN cells[x - RamBase + 1] ELSE 0],
             RamBase, Len(cells))

Whole(cells) ==
  /\ Len(cells) <= RamEnd - RamBase
  /\ LET size == SizeAlone(cells) IN size > 0 /\ Len(cells) \in {size, size + 1}

-----------------------------------------------------------------------------
(* The objects on the stack, level 1 first, and the return stack.          *)
ObjectsOf(h) ==
  LET blocks == TempBlocks(h)
      Block(p) == CHOOSE b \in blocks : p = b[1] + Marker
      ObjectAt(p) == Cells(h.ram, p, Block(p)[2] - Marker - Word)
  IN [level \in 1 .. hp48_rpl_stack_depth(h) |-> ObjectAt(h.ram[h.dsktop + Word * (level - 1)])]
ReturnsOf(h) == Cells(h.ram, h.temptop, h.rsktop - h.temptop)

(* The objects that can be on the stack, and what an export makes of those *)
(* whose end object_size finds: the object without the nibble that may     *)
(* fill its last byte.                                                     *)
BootObjects == ObjectsOf(BootHp)
Payloads == {entry.payload : entry \in Inbox}
Measured == {object \in Payloads \cup {BootObjects[level] : level \in DOMAIN BootObjects} :
               Whole(object)}
Exported == [object \in Measured |-> SubSeq(object, 1, SizeAlone(object))]

(* An HP that has not started yet will have the stacks of the restart; of  *)
(* a torn one nothing is said.                                             *)
Seen == IF torn \/ ~rpl_pointers(hp) THEN BootHp ELSE hp

Exchange == INSTANCE ObjectExchange WITH
  Inputs      <- Payloads \cap Measured,
  Exported    <- Exported,
  BootStack   <- BootObjects,
  BootReturns <- ReturnsOf(BootHp),
  stack       <- ObjectsOf(Seen),
  returns     <- ReturnsOf(Seen),
  UserFinals  <- UserFinals \cup UserTemps,
  outbox      <- [s \in Slots |-> IF temp[s] = UserFile THEN UserFile ELSE final[s]],
  importing   <- job \in {"read", "close"}

(* Whatever fails and whenever the power goes, every step of a transfer is *)
(* one of ObjectExchange, or changes nothing that anybody can see.         *)
ExchangeIsAtomic == Exchange!Spec

(* object_size is right about each kind of file in the INBOX and each kind *)
(* of object on the stack, but for what ends in a name.  An import that    *)
(* read its whole file is refused as bad exactly when the file does not    *)
(* hold one whole HP object.  And an export of an object is not refused as *)
(* bad: wherever collections have moved level 1 and whatever lies behind   *)
(* it, what it begins to write is the object that is on level 1.  A file   *)
(* or level that ends in a name is excepted: the code measures a name as a *)
(* tag, so that it refuses a lone one and takes one with an object behind  *)
(* it for one object; a name followed by more of a list is judged right.   *)
(* The INBOX leaves out the other files about which the code is wrong: it  *)
(* accepts a string shorter than its length word and a list that ends in a *)
(* tag without its object, and refuses too deep a nesting.                 *)
Verdict ==
  /\ job = "close" /\ job' = "idle" /\ status' \in {"OK", "BAD_OBJECT"} /\ ~EndsInName(Payload) =>
       (status' = "OK" <=> HoldsObject(Payload))
  /\ object_files_export_stack /\ hp48_rpl_stack_depth(hp) > 0 =>
       LET level1 == ObjectsOf(hp)[1]
       IN HoldsObject(level1) /\ ~EndsInName(level1) =>
            /\ job' = "idle" => status' # "BAD_OBJECT"
            /\ job' = "write" =>
                 \E object \in ObjectsIn(level1) :
                   ExportRead(hp, export', 0, PackedBytes(export')) = Exchange!Packed(object)

VerdictIsRight == [][Verdict]_vars
=============================================================================
