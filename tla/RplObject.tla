----------------------------- MODULE RplObject -----------------------------
(***************************************************************************)
(* HP objects in the HP's RAM: object_size of src/core/rpl_object.c, which *)
(* decides where an object ends, and the pointers of System RPL the        *)
(* transfers work on.                                                      *)
(*                                                                         *)
(* Sizes are scaled.  A cell stands for a nibble and a five-nibble word    *)
(* (an address, a prolog, a size) is Word cells: its value in the first    *)
(* and Rest in the others.  A byte of a file is two cells.                 *)
(***************************************************************************)
EXTENDS Integers, Sequences

CONSTANTS
  RamBase, RamEnd,   \* the HP's RAM is RamBase .. RamEnd - 1
  Word,              \* cells of a five-nibble word
  Marker,            \* the cell before an object in temporary memory
  MAX_OBJECT_NESTING

ASSUME RplAssumption ==
  /\ RamBase \in Nat \ {0} /\ RamEnd \in Nat /\ RamBase < RamEnd
  /\ Word \in Nat \ {0, 1} /\ Marker \in Nat \ {0}
  /\ MAX_OBJECT_NESTING \in Nat

Addr == RamBase .. RamEnd - 1
Rest == -1                       \* every cell of a word but its first
Cell == Nat \cup {Rest}
BAD_SIZE == -1

(* Prologs, one for each way an object is made; DOREAL stands for all of   *)
(* fixed length, DOCSTR for all that carry their length and DOIDNT for the *)
(* two kinds of names.                                                     *)
DOREAL == 1001
DOCSTR == 1002
DOLIST == 1003
SEMI   == 1004
DOTAG  == 1005
DORRP  == 1006
DOIDNT == 1007
Prologs == {DOREAL, DOCSTR, DOLIST, SEMI, DOTAG, DORRP, DOIDNT}
RealLength == 2 * Word + 1       \* an odd number of cells, as a real's 21

Within(length, n) == IF length <= n THEN length ELSE BAD_SIZE
Plus(length, rest) == IF rest = BAD_SIZE THEN BAD_SIZE ELSE length + rest

(* object_size(address, available, depth): the cells of the object at a,   *)
(* of which n may be read, 0 for the SEMI that ends a list, or BAD_SIZE,   *)
(* with size for the sizes of what it contains.  A value that is no prolog *)
(* is a pointer into the ROM's code.  "body" measures the objects of a     *)
(* list up to and including its SEMI.                                      *)
SizeOf(ram, size, what, a, n, depth) ==
  IF what = "body" THEN
    LET child == size[<<"object", a, n, depth>>]
    IN CASE child = BAD_SIZE -> BAD_SIZE
         [] child = 0 -> Word
         [] OTHER -> Plus(child, size[<<"body", a + child, n - child, depth>>])
  ELSE IF depth > MAX_OBJECT_NESTING \/ n < Word \/ a + n > RamEnd
    THEN BAD_SIZE
  ELSE CASE ram[a] = SEMI -> 0
    [] ram[a] = DOREAL -> Within(RealLength, n)
    [] ram[a] = DOCSTR ->
         IF n < 2 * Word THEN BAD_SIZE ELSE Within(Word + ram[a + Word], n)
    [] ram[a] = DOLIST ->
         Plus(Word, size[<<"body", a + Word, n - Word, depth + 1>>])
    [] ram[a] \in {DOTAG, DOIDNT} ->    \* a name is measured as a tag is
         IF n < Word + 1 THEN BAD_SIZE
         ELSE LET length == Word + 1 + ram[a + Word]
              IN IF length > n THEN BAD_SIZE
                 ELSE Plus(length, size[<<"object", a + length, n - length, depth + 1>>])
    [] ram[a] = DORRP ->
         IF n < 2 * Word + 1 THEN BAD_SIZE
         ELSE LET offset == ram[a + Word + 1]
                  length == Word + 1 + offset
                  name   == ram[a + length] + 2
                  object == length + name
              IN IF offset = 0 THEN 2 * Word + 1
                 ELSE IF length > n - 1 \/ object > n THEN BAD_SIZE
                 ELSE Plus(object, size[<<"object", a + object, n - object, depth + 1>>])
    [] OTHER -> Within(Word, n)

(* The calls of object_size: what is measured, its address, the cells      *)
(* there are for it, and the depth.                                        *)
Spans == {"object", "body"} \X (RamBase .. RamEnd) \X Int \X Nat

ObjectSize(ram, address, available) ==
  LET size[s \in Spans] == SizeOf(ram, size, s[1], s[2], s[3], s[4])
  IN size[<<"object", address, available, 0>>]

-----------------------------------------------------------------------------
(* The HP as the transfers see it: its RAM, and the RPL pointers kept in   *)
(* it.  From TEMPTOP to RSKTOP lies the return stack, below it temporary   *)
(* objects, above it free memory up to DSKTOP, where the data stack begins *)
(* with level 1; one word before EDITLINE ends it.                         *)
Hp == [ram : [Addr -> Cell], temptop : Int, rsktop : Int, dsktop : Int,
       editline : Int, avmem : Int]

rpl_pointers(hp) ==
  /\ RamBase <= hp.temptop /\ hp.temptop <= hp.rsktop
  /\ hp.rsktop <= hp.dsktop /\ hp.dsktop <= hp.editline
  /\ hp.editline < RamEnd

hp48_rpl_stack_depth(hp) ==
  IF hp.editline < hp.dsktop + Word THEN 0
  ELSE (hp.editline - hp.dsktop) \div Word - 1

(* The word value at address a.                                            *)
Write5(ram, a, value) ==
  [x \in DOMAIN ram |->
     IF x = a THEN value ELSE IF x \in a + 1 .. a + Word - 1 THEN Rest ELSE ram[x]]

(* The cells of length n from address a on.                                *)
Cells(ram, a, n) == [i \in 1 .. n |-> ram[a + i - 1]]

Free(hp) == hp.dsktop - hp.rsktop
=============================================================================
