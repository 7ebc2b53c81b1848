----------------------------- MODULE ReturnStack -----------------------------
(***************************************************************************)
(* The return stack of the Saturn (push_return_addr and pop_return_addr of *)
(* src/src/core/actions.c): NR_RSTK places that subroutine calls,          *)
(* interrupts and RSTK=C push on, and returns and C=RSTK pop from.  Pushed *)
(* on when full, it loses its oldest address; popped when empty, it gives  *)
(* address 0.  The history variables follow an unlimited stack beside it.  *)
(***************************************************************************)
EXTENDS Integers, Sequences

CONSTANTS NR_RSTK,     \* places of the stack: 8
          Addresses,   \* return addresses
          MaxCalls     \* bound: calls pending at one time

ASSUME ReturnStackAssumption ==
    /\ NR_RSTK \in Nat \ {0}
    /\ 0 \in Addresses
    /\ MaxCalls \in Nat

VARIABLES rstk, rstkp,  \* the array and the index of its top, -1 when empty
          PC,           \* where the program goes on
          calls,        \* history: the addresses of the calls not returned from
          forgotten     \* history: how many of the oldest of them were lost

stackVars == <<rstk, rstkp, PC, calls, forgotten>>

StackInit ==
    /\ rstk = [i \in 0 .. NR_RSTK - 1 |-> 0]
    /\ rstkp = -1
    /\ PC = 0
    /\ calls = <<>> /\ forgotten = 0

\* A full stack that loses its newest address instead of its oldest.
push_over_newest(stack, addr) == [stack EXCEPT ![NR_RSTK - 1] = addr]

\* A full stack moves every address down by one place.
push_when_full(stack, addr) ==
    [i \in 0 .. NR_RSTK - 1 |-> IF i = NR_RSTK - 1 THEN addr ELSE stack[i + 1]]

push_return_addr(addr) ==
    /\ \/ /\ rstkp + 1 < NR_RSTK
          /\ rstk' = [rstk EXCEPT ![rstkp + 1] = addr]
          /\ rstkp' = rstkp + 1
          /\ forgotten' = forgotten
       \/ /\ rstkp + 1 >= NR_RSTK
          /\ rstk' = push_when_full(rstk, addr)
          /\ rstkp' = rstkp
          /\ forgotten' = forgotten + 1
    /\ Len(calls) < MaxCalls
    /\ calls' = Append(calls, addr)

\* The address popped, 0 when there is none; the places keep what they hold.
pop_return_addr(addr) ==
    /\ \/ rstkp < 0 /\ addr = 0 /\ rstkp' = rstkp
       \/ rstkp >= 0 /\ addr = rstk[rstkp] /\ rstkp' = rstkp - 1
    /\ UNCHANGED rstk
    /\ calls' = IF calls = <<>> THEN calls ELSE SubSeq(calls, 1, Len(calls) - 1)
    /\ forgotten' = IF forgotten < Len(calls) THEN forgotten ELSE Len(calls')

\* GOSUB, GOSUBL, GOSBVL, and an interrupt, which goes to its handler.
Gosub ==
    \E addr, target \in Addresses : push_return_addr(addr) /\ PC' = target

\* RSTK=C: the program pushes an address and goes on.
RstkIsC ==
    \E addr \in Addresses : push_return_addr(addr) /\ UNCHANGED PC

\* RTN and its kin, the tests that return, and RTI.
Rtn == \E addr \in Addresses : pop_return_addr(addr) /\ PC' = addr

\* C=RSTK: the address goes to a register.
CIsRstk == \E addr \in Addresses : pop_return_addr(addr) /\ UNCHANGED PC

StackNext == Gosub \/ RstkIsC \/ Rtn \/ CIsRstk

StackSpec == StackInit /\ [][StackNext]_stackVars

-----------------------------------------------------------------------------
StackTypeOK ==
    /\ rstk \in [0 .. NR_RSTK - 1 -> Addresses]
    /\ rstkp \in -1 .. NR_RSTK - 1
    /\ PC \in Addresses
    /\ calls \in Seq(Addresses)
    /\ forgotten \in 0 .. Len(calls)

(***************************************************************************)
(* The stack holds, in their order, the addresses of the innermost calls   *)
(* not yet returned from: after any mixture of calls, interrupts and       *)
(* returns, only the oldest of more than NR_RSTK nested calls are lost,    *)
(* and every other return goes back to the call it belongs to.             *)
(***************************************************************************)
InnermostCallsAreKept ==
    /\ rstkp + 1 = Len(calls) - forgotten
    /\ \A i \in 0 .. rstkp : rstk[i] = calls[forgotten + i + 1]

=============================================================================
