--------------------------- MODULE ObjectExchange ---------------------------
(***************************************************************************)
(* What moving HP objects between the SD card and the calculator promises: *)
(* an import puts one whole object on level 1 of the stack or changes      *)
(* nothing the calculator can see, an export adds one whole file under a   *)
(* name nothing had, and the status shown says which of the two happened.  *)
(* While an import runs the calculator does nothing else.                  *)
(***************************************************************************)
EXTENDS Naturals, Sequences

CONSTANTS
  Slots,        \* the numbers of the files of the OUTBOX
  Inputs,       \* the objects that the files of the INBOX hold
  Exported,     \* what an export makes of an object; not defined for one of
                \* which it does not find the end
  NoFile, UserFile,   \* a slot of the OUTBOX nobody uses, one the user does
  UserFinals,   \* the slots with a file of the user's
  BootStack, BootReturns   \* the stacks of a restarted calculator

VARIABLES
  stack,        \* the objects on the data stack, level 1 first
  returns,      \* the return stack
  outbox,       \* outbox[s]: the contents of file s, or NoFile
  importing,    \* an import has been accepted and has not ended
  torn,         \* the ROM's garbage collector was stopped half way
  status        \* what the last transfer reported, "NONE" when forgotten

vars == <<stack, returns, outbox, importing, torn, status>>

Init ==
  /\ stack = BootStack /\ returns = BootReturns
  /\ outbox = [s \in Slots |-> IF s \in UserFinals THEN UserFile ELSE NoFile]
  /\ importing = FALSE /\ torn = FALSE /\ status = "NONE"

(* The calculator's own work between two transfers.                        *)
Compute ==
  /\ ~importing /\ ~torn
  /\ status' = "NONE"
  /\ UNCHANGED <<outbox, importing, torn, returns>>
  /\ \/ stack # <<>> /\ stack' = Tail(stack)
     \/ \E i \in DOMAIN stack : stack' = <<stack[i]>> \o stack

Accept ==
  /\ ~importing /\ ~torn /\ importing' = TRUE
  /\ UNCHANGED <<outbox, torn, status, returns, stack>>

Import ==
  /\ importing /\ importing' = FALSE
  /\ status' = "OK"
  /\ \E object \in Inputs : stack' = <<object>> \o stack
  /\ UNCHANGED <<returns, outbox, torn>>

(* A transfer that fails, before or after it was accepted.                 *)
Fail ==
  /\ importing' = FALSE
  /\ status' \notin {"OK", "NONE"}
  /\ UNCHANGED <<outbox, torn, returns, stack>>

(* A file has whole bytes, of two nibbles each.  What the file of an       *)
(* object holds whose end is not found is left open.                       *)
Packed(object) == IF Len(object) % 2 = 0 THEN object ELSE Append(object, 0)

Export ==
  /\ ~importing /\ ~torn /\ status' = "OK"
  /\ stack # <<>>
  /\ \E s \in Slots : /\ outbox[s] = NoFile
                      /\ outbox' = [outbox EXCEPT ![s] = outbox'[s]]
                      /\ stack[1] \in DOMAIN Exported => outbox'[s] = Packed(Exported[stack[1]])
  /\ UNCHANGED <<importing, torn, returns, stack>>

(* The exception: a collection that does not complete leaves the HP's RAM  *)
(* as it is, and the two stacks may be anything until the HP restarts.     *)
Tear ==
  /\ ~importing /\ torn' = TRUE /\ status' = "HP_GC_FAILED"
  /\ UNCHANGED <<outbox, importing>>

Restart ==
  /\ importing' = FALSE /\ torn' = FALSE /\ status' = "NONE"
  /\ UNCHANGED outbox
  /\ stack' = BootStack /\ returns' = BootReturns

(* The status shows something else.                                        *)
Forget ==
  /\ ~importing /\ status' = "NONE"
  /\ UNCHANGED <<outbox, importing, torn, returns, stack>>

Next == Compute \/ Accept \/ Import \/ Fail \/ Export \/ Tear \/ Restart \/ Forget

Spec == Init /\ [][Next]_vars
=============================================================================
