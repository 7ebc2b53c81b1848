----------------------------- MODULE MCRegisters -----------------------------
(***************************************************************************)
(* Registers of three digits of four values, with three as the decimal     *)
(* base: the field P, the field WP up to the pointer (all of the register  *)
(* when P is 2), and a field that leaves the lowest place out.  The return *)
(* stack shares no state with the working registers, so that one of the    *)
(* two is explored while the other is as it was at the start.              *)
(***************************************************************************)
EXTENDS Registers, ReturnStack

MCStart == [P |-> -1, WP |-> 0, M |-> 1, A |-> 0, W |-> 0]
MCEnd == [P |-> -1, WP |-> -1, M |-> 2, A |-> 1, W |-> 2]

MCInit == Init /\ StackInit
MCNext == \/ StackInit /\ Next /\ UNCHANGED stackVars
          \/ Init /\ StackNext /\ UNCHANGED vars
MCSpec == MCInit /\ [][MCNext]_<<vars, stackVars>>

\* The instruction is the label of a step, and no guard reads CARRY.
MCView == <<reg, P, hexmode, SB, stackVars>>

=============================================================================
