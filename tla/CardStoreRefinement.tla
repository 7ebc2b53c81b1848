------------------------ MODULE CardStoreRefinement ------------------------
(* The card files implement the promise of CardPromise: the durable image  *)
(* of a slot is the one the next boot would find.                          *)
EXTENDS CardStore

DurableImage(s) == IF Survivor(s) \in Images THEN Survivor(s) ELSE Missing

Card == INSTANCE CardPromise WITH
  NoImage <- Missing,
  durable <- [s \in Slots |-> DurableImage(s)],
  memory  <- [held |-> attached, slot |-> slot, image |-> image]

(* Every step of a boot or a save, and every power cut in one, is a step   *)
(* of CardPromise or changes nothing the promise is about.                 *)
CardPromiseKept == Card!Spec
=============================================================================
