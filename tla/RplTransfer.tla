---------------------------- MODULE RplTransfer ----------------------------
(***************************************************************************)
(* The transfers of src/core/rpl_object.c as operators: what each call     *)
(* makes of the HP's RAM and of its transfer record.  A new object takes   *)
(* the place of the return stack, which moves up to make room and, when    *)
(* the import is aborted, back down.                                       *)
(*                                                                         *)
(* External: GARBAGECOL, the ROM's collector of temporary objects, which   *)
(* hp48_rpl_collect_garbage runs with the CPU saved before and restored    *)
(* after; so the CPU is not part of this model.                            *)
(***************************************************************************)
EXTENDS RplObject, FiniteSets

NoTransfer ==
  [active |-> FALSE, object |-> 0, bytes |-> 0, written |-> 0, temptop |-> 0,
   rsktop |-> 0, dsktop |-> 0, avmem |-> 0, allocation |-> 0]

-----------------------------------------------------------------------------
(* Temporary memory, as the ROM walks it: from TEMPTOP down, each block    *)
(* ends in a word with its size.  The blocks as <<start, size>>.           *)
TempBlocks(hp) ==
  LET below[top \in Nat] ==
        LET size == hp.ram[top - Word]
        IN IF top <= RamBase \/ size \notin 1 .. top - RamBase THEN {}
           ELSE below[top - size] \cup {<<top - size, size>>}
  IN below[hp.temptop]

StackCells(hp) == {hp.dsktop + Word * i : i \in 0 .. hp48_rpl_stack_depth(hp) - 1}
Pointers(hp) == {hp.ram[x] : x \in StackCells(hp)}

(* The blocks B lie end to end from RamBase up to top, each with its size  *)
(* in its last word.                                                       *)
Tiles(ram, B, top) ==
  /\ B \subseteq Int \X Int
  /\ \A b \in B : /\ RamBase <= b[1] /\ Marker + Word <= b[2] /\ b[1] + b[2] <= top
                  /\ ram[b[1] + b[2] - Word] = b[2]
  /\ \A b, c \in B : b = c \/ b[1] + b[2] <= c[1] \/ c[1] + c[2] <= b[1]
  /\ \A b \in B : b[1] = RamBase \/ \E c \in B : c[1] + c[2] = b[1]
  /\ top = RamBase \/ \E b \in B : b[1] + b[2] = top

(* Memory in order: the blocks up to TEMPTOP are as the ROM's collector    *)
(* walks them, every level of the stack is the object of one of them, and  *)
(* AVMEM is what is free.                                                  *)
InOrder(hp) ==
  /\ Tiles(hp.ram, TempBlocks(hp), hp.temptop)
  /\ \A p \in Pointers(hp) : \E b \in TempBlocks(hp) : p = b[1] + Marker
  /\ hp.avmem = Free(hp) \div Word

(* The collector keeps the cells of the blocks that the stack points into  *)
(* and slides them and the return stack down over the others.              *)
KeptBlocks(hp) == {b \in TempBlocks(hp) : b[1] + Marker \in Pointers(hp)}
KeptCells(hp) == UNION {b[1] .. b[1] + b[2] - 1 : b \in KeptBlocks(hp)}
NewPlace(hp) == [x \in KeptCells(hp) |->
                   RamBase + Cardinality({y \in KeptCells(hp) : y < x})]

Compacted(hp) ==
  LET place == NewPlace(hp)
      top == RamBase + Cardinality(KeptCells(hp))
      gap == hp.temptop - top
  IN [ram |-> [x \in Addr |->
                 IF x \in RamBase .. top - 1
                   THEN hp.ram[CHOOSE y \in KeptCells(hp) : place[y] = x]
                 ELSE IF x < hp.rsktop - gap THEN hp.ram[x + gap]
                 ELSE IF x \in StackCells(hp) THEN place[hp.ram[x] - Marker] + Marker
                 ELSE hp.ram[x]],
      temptop |-> top, rsktop |-> hp.rsktop - gap, dsktop |-> hp.dsktop,
      editline |-> hp.editline, avmem |-> (Free(hp) + gap) \div Word]

(* One that was stopped has moved nothing, or has moved the objects and    *)
(* not yet corrected the stack's pointers.                                 *)
HalfCompacted(hp) ==
  {hp, [Compacted(hp) EXCEPT
          !.ram = [x \in Addr |-> IF x < hp.dsktop THEN @[x] ELSE hp.ram[x]]]}

-----------------------------------------------------------------------------
(* Mutant: the first one first, as an import that is aborted does it.      *)
CopyUpFirstFirst(ram, a, n, shift) ==
  LET after[k \in 0 .. n] ==
        IF k = 0 THEN ram
        ELSE [after[k - 1] EXCEPT ![a + shift + k - 1] = after[k - 1][a + k - 1]]
  IN after[n]

(* n cells from a on, copied shift cells up, the last one first.           *)
CopyUp(ram, a, n, shift) ==
  LET after[k \in 0 .. n] ==
        IF k = 0 THEN ram
        ELSE [after[k - 1] EXCEPT ![a + shift + n - k] = after[k - 1][a + n - k]]
  IN after[n]

(* n cells to a on, copied shift cells down, the first one first.          *)
CopyDown(ram, a, n, shift) ==
  LET after[k \in 0 .. n] ==
        IF k = 0 THEN ram
        ELSE [after[k - 1] EXCEPT ![a + k - 1] = after[k - 1][a + shift + k - 1]]
  IN after[n]

Allocation(bytes) == 2 * bytes + Marker + Word
Fits(hp, allocation) == allocation <= Free(hp) /\ Free(hp) - allocation >= Word

(* Mutant: the size word does not count itself.                            *)
AllocatedShort(hp, allocation) ==
  LET a == hp.temptop
      moved == CopyUp(hp.ram, a, hp.rsktop - a, allocation)
  IN [hp EXCEPT !.ram = Write5(moved, a + allocation - Word, allocation - Word),
                !.temptop = a + allocation, !.rsktop = @ + allocation,
                !.avmem = (Free(hp) - allocation) \div Word]

(* The block for the new object below the return stack.                    *)
Allocated(hp, allocation) ==
  LET a == hp.temptop
      b == hp.rsktop
      moved == CopyUp(hp.ram, a, b - a, allocation)
  IN [hp EXCEPT !.ram = Write5(moved, a + allocation - Word, allocation),
                !.temptop = a + allocation, !.rsktop = b + allocation,
                !.avmem = (Free(hp) - allocation) \div Word]

Outcome(hp, transfer, status) == [hp |-> hp, transfer |-> transfer, status |-> status]
Accepted(hp, bytes) ==
  Outcome(Allocated(hp, Allocation(bytes)),
          [active |-> TRUE, object |-> hp.temptop + Marker, bytes |-> bytes,
           written |-> 0, temptop |-> hp.temptop, rsktop |-> hp.rsktop,
           dsktop |-> hp.dsktop, avmem |-> hp.avmem, allocation |-> Allocation(bytes)],
          "OK")

(* hp48_rpl_import_begin: every outcome it can have.                       *)
ImportBegin(hp, bytes) ==
  IF bytes = 0 \/ 2 * bytes > RamEnd - RamBase - Marker - Word
    THEN {Outcome(hp, NoTransfer, "OUT_OF_RANGE")}
  ELSE IF ~rpl_pointers(hp) THEN {Outcome(hp, NoTransfer, "NOT_READY")}
  ELSE IF Fits(hp, Allocation(bytes)) THEN {Accepted(hp, bytes)}
  ELSE {Outcome(torn, NoTransfer, "GC_FAILED") : torn \in HalfCompacted(hp)}
       \cup {IF Fits(Compacted(hp), Allocation(bytes)) THEN Accepted(Compacted(hp), bytes)
             ELSE Outcome(Compacted(hp), NoTransfer, "NO_MEMORY")}

(* hp48_rpl_import_write: the next cells of the object.                    *)
ImportWrite(hp, t, cells) ==
  LET at == t.object + 2 * t.written
  IN Outcome([hp EXCEPT !.ram = [x \in Addr |->
                 IF x \in at .. at + Len(cells) - 1 THEN cells[x - at + 1] ELSE @[x]]],
             [t EXCEPT !.written = @ + Len(cells) \div 2], "OK")

(* hp48_rpl_import_abort                                                   *)
ImportAbort(hp, t, status) ==
  Outcome([hp EXCEPT !.ram = CopyDown(@, t.temptop, t.rsktop - t.temptop, t.allocation),
                     !.temptop = t.temptop, !.rsktop = t.rsktop,
                     !.dsktop = t.dsktop, !.avmem = t.avmem],
          NoTransfer, status)

(* Mutant: the file may hold more than the object.                         *)
CommitPrefix(hp, t) ==
  IF ObjectSize(hp.ram, t.object, 2 * t.bytes) \in {BAD_SIZE, 0}
    THEN ImportAbort(hp, t, "BAD_OBJECT")
  ELSE Outcome([hp EXCEPT !.ram = Write5(@, hp.dsktop - Word, t.object),
                          !.dsktop = @ - Word, !.avmem = @ - 1],
               NoTransfer, "OK")

(* hp48_rpl_import_commit: one unused nibble may follow the object.        *)
ImportCommit(hp, t) ==
  LET available == 2 * t.bytes
      actual == ObjectSize(hp.ram, t.object, available)
      level1 == hp.dsktop - Word
  IN IF t.written # t.bytes \/ actual \in {BAD_SIZE, 0}
        \/ available \notin {actual, actual + 1}
       THEN ImportAbort(hp, t, "BAD_OBJECT")
     ELSE IF hp.avmem = 0 \/ hp.dsktop < t.rsktop + t.allocation + Word
       THEN ImportAbort(hp, t, "NO_MEMORY")
     ELSE Outcome([hp EXCEPT !.ram = Write5(@, level1, t.object),
                             !.dsktop = level1, !.avmem = @ - 1],
                  NoTransfer, "OK")

-----------------------------------------------------------------------------
NoExport == [object |-> 0, cells |-> 0]

(* hp48_rpl_export_begin                                                   *)
ExportBegin(hp) ==
  LET object == hp.ram[hp.dsktop]
      size == IF object \in Addr THEN ObjectSize(hp.ram, object, RamEnd - object)
              ELSE BAD_SIZE
  IN CASE ~rpl_pointers(hp) -> Outcome(hp, NoExport, "NOT_READY")
       [] rpl_pointers(hp) /\ hp48_rpl_stack_depth(hp) = 0 ->
            Outcome(hp, NoExport, "EMPTY_STACK")
       [] OTHER ->
            IF size \in {BAD_SIZE, 0} THEN Outcome(hp, NoExport, "BAD_OBJECT")
            ELSE Outcome(hp, [object |-> object, cells |-> size], "OK")

PackedBytes(x) == (x.cells + 1) \div 2

(* hp48_rpl_export_read: n bytes from byte offset on.                      *)
ExportRead(hp, x, offset, n) ==
  [i \in 1 .. 2 * n |->
     IF 2 * offset + i <= x.cells THEN hp.ram[x.object + 2 * offset + i - 1] ELSE 0]
=============================================================================
