---------------------------- MODULE CardPromise ----------------------------
(***************************************************************************)
(* What the virtual card promises its user, without files, FatFs calls or  *)
(* recovery: for every slot the SD card holds one image, the durable one.  *)
(* A save may make the image in memory durable at any moment, and may take *)
(* that back as long as it has not reported success; once an image has     *)
(* been reported as safe it stays until another one replaces it.  Losing   *)
(* power, at any moment, loses only the memory.                            *)
(***************************************************************************)
CONSTANTS
  Slots,      \* the two card slots
  Images,     \* the images a card can hold
  Blank,      \* the image of a new card
  NoImage     \* a slot has no usable image

VARIABLES
  durable,    \* durable[s]: the image the next boot of slot s would find
  promised,   \* promised[s]: the image last reported as safe
  memory      \* the card in memory, [held, slot, image]

vars == <<durable, promised, memory>>

Memory == [held : BOOLEAN, slot : Slots, image : Images]

TypeOK ==
  /\ durable \in [Slots -> Images \cup {NoImage}]
  /\ promised \in [Slots -> Images \cup {NoImage}]
  /\ memory \in Memory

Init ==
  /\ durable \in [Slots -> Images \cup {NoImage}]
  /\ promised = durable
  /\ memory \in Memory /\ ~memory.held

(* The image in memory, the durable and the promised image of slot s.      *)
Holds(s, i) == memory.held /\ memory.slot = s /\ memory.image = i
Durable(s, i) == durable' = [durable EXCEPT ![s] = i]
Promised(s, i) == promised' = [promised EXCEPT ![s] = i]
InMemory(s, i) == memory' = [held |-> TRUE, slot |-> s, image |-> i]

(* A boot takes a card into memory: the durable image or, when that cannot *)
(* be read, the promised one.  Reporting it as safe may come with it.      *)
Load(s, i) ==
  /\ ~memory.held
  /\ i \in {durable[s], promised[s]} \ {NoImage}
  /\ InMemory(s, i)
  /\ UNCHANGED durable
  /\ UNCHANGED promised \/ (durable[s] = i /\ Promised(s, i))

Create(s) ==
  /\ ~memory.held
  /\ durable[s] = NoImage /\ promised[s] = NoImage
  /\ InMemory(s, Blank)
  /\ UNCHANGED <<durable, promised>>

Edit(s, i) ==
  /\ memory.held /\ memory.slot = s
  /\ InMemory(s, i)
  /\ UNCHANGED <<durable, promised>>

Write(s, i) == Holds(s, i) /\ Durable(s, i) /\ UNCHANGED <<promised, memory>>

Revert(s) ==
  /\ memory.held /\ memory.slot = s
  /\ Durable(s, promised[s])
  /\ UNCHANGED <<promised, memory>>

Commit(s, i) ==
  /\ Holds(s, i)
  /\ i \in {durable[s], promised[s]}
  /\ Durable(s, i) /\ Promised(s, i)
  /\ UNCHANGED memory

Lose ==
  /\ memory' \in Memory /\ ~memory'.held
  /\ UNCHANGED <<durable, promised>>

Next ==
  \/ \E s \in Slots :
       \/ Create(s) \/ Revert(s)
       \/ \E i \in Images : Load(s, i) \/ Edit(s, i) \/ Write(s, i) \/ Commit(s, i)
  \/ Lose

Spec == Init /\ [][Next]_vars
=============================================================================
