-------------------------- MODULE ReturnStackProofs --------------------------
(***************************************************************************)
(* The return stack keeps the innermost calls, for every size of the stack *)
(* and every set of addresses.  StackTypeOK and InnermostCallsAreKept are  *)
(* inductive together: the place an address moves to on an overflow is one *)
(* below, as is its distance from the calls that are forgotten.            *)
(***************************************************************************)
EXTENDS ReturnStack, TLAPS

StackInv == StackTypeOK /\ InnermostCallsAreKept

USE ReturnStackAssumption DEF ReturnStackAssumption

LEMMA StackInitially == StackInit => StackInv
BY DEF StackInit, StackInv, StackTypeOK, InnermostCallsAreKept

\* A push keeps the invariant, whether or not the stack is full.
LEMMA PushKeepsStack ==
    ASSUME StackInv, NEW addr \in Addresses, push_return_addr(addr), PC' \in Addresses
    PROVE  StackInv'
<1> USE DEF StackInv, StackTypeOK, InnermostCallsAreKept
<1>1. /\ calls' = Append(calls, addr) /\ calls' \in Seq(Addresses)
      /\ Len(calls') = Len(calls) + 1 /\ Len(calls) \in Nat
      /\ calls'[Len(calls) + 1] = addr
      /\ \A i \in 1 .. Len(calls) : calls'[i] = calls[i]
  BY DEF push_return_addr
<1>2. CASE rstkp + 1 < NR_RSTK
  <2>1. /\ rstk' = [rstk EXCEPT ![rstkp + 1] = addr]
        /\ rstkp' = rstkp + 1 /\ forgotten' = forgotten
    BY <1>2 DEF push_return_addr
  <2>2. StackTypeOK'
    BY <1>1, <1>2, <2>1
  <2>3. \A i \in 0 .. rstkp' : rstk'[i] = calls'[forgotten' + i + 1]
    <3> TAKE i \in 0 .. rstkp'
    <3>1. CASE i = rstkp + 1
      <4>1. rstk'[i] = addr BY <1>2, <2>1, <3>1
      <4>2. forgotten \in Int /\ rstkp \in Int /\ rstkp + 1 = Len(calls) - forgotten
        BY <1>1
      <4>3. forgotten + (rstkp + 1) + 1 = Len(calls) + 1
        BY <1>1, <4>2
      <4> QED BY <1>1, <2>1, <3>1, <4>1, <4>3
    <3>2. CASE i \in 0 .. rstkp
      BY <1>1, <1>2, <2>1, <3>2
    <3> QED BY <2>1, <3>1, <3>2
  <2> QED BY <1>1, <2>1, <2>2, <2>3
<1>3. CASE rstkp + 1 >= NR_RSTK
  <2>1. /\ rstk' = [i \in 0 .. NR_RSTK - 1 |-> IF i = NR_RSTK - 1 THEN addr ELSE rstk[i + 1]]
        /\ rstkp' = rstkp /\ forgotten' = forgotten + 1 /\ rstkp = NR_RSTK - 1
    BY <1>3 DEF push_return_addr, push_when_full
  <2>2. StackTypeOK'
    BY <1>1, <2>1
  <2>3. \A i \in 0 .. rstkp' : rstk'[i] = calls'[forgotten' + i + 1]
    <3> TAKE i \in 0 .. rstkp'
    <3>1. CASE i = rstkp
      <4>1. rstk'[i] = addr BY <2>1, <3>1
      <4>2. forgotten' + i + 1 = Len(calls) + 1 BY <1>1, <2>1, <3>1
      <4> QED BY <1>1, <4>1, <4>2
    <3>2. CASE i \in 0 .. rstkp - 1
      <4>1. rstk'[i] = rstk[i + 1] BY <2>1, <3>2
      <4>2. rstk[i + 1] = calls[forgotten + (i + 1) + 1] BY <2>1, <3>2
      <4> QED BY <1>1, <2>1, <3>2, <4>1, <4>2
    <3> QED BY <2>1, <3>1, <3>2
  <2>4. rstkp' + 1 = Len(calls') - forgotten'
    BY <1>1, <2>1
  <2> QED BY <2>2, <2>3, <2>4
<1> QED BY <1>2, <1>3

\* A pop gives an address and keeps the invariant.
LEMMA PopKeepsStack ==
    ASSUME StackInv, NEW addr \in Addresses, pop_return_addr(addr), PC' \in Addresses
    PROVE  StackInv'
<1> USE DEF StackInv, StackTypeOK, InnermostCallsAreKept, pop_return_addr
<1>1. CASE calls = <<>>
  <2>1. calls' = calls /\ forgotten' = forgotten /\ rstkp' = rstkp
    BY <1>1
  <2> QED BY <2>1
<1>2. CASE calls # <<>>
  <2>1. Len(calls) \in Nat \ {0}
    BY <1>2
  <2>2. /\ calls' = SubSeq(calls, 1, Len(calls) - 1)
        /\ calls' \in Seq(Addresses) /\ Len(calls') = Len(calls) - 1
        /\ \A i \in 1 .. Len(calls) - 1 : calls'[i] = calls[i]
    BY <1>2, <2>1
  <2>3. forgotten' = IF forgotten < Len(calls) THEN forgotten ELSE Len(calls) - 1
    BY <2>2
  <2>4. CASE rstkp < 0
    <3>1. rstkp = -1 /\ rstkp' = -1 /\ forgotten = Len(calls) /\ forgotten' = Len(calls) - 1
      BY <2>1, <2>3, <2>4
    <3> QED BY <2>1, <2>2, <3>1
  <2>5. CASE rstkp >= 0
    <3>1. rstkp' = rstkp - 1 /\ rstk' = rstk
      BY <2>5
    <3>2. forgotten < Len(calls) /\ forgotten' = forgotten
      BY <2>1, <2>3, <2>5
    <3>3. StackTypeOK'
      BY <2>1, <2>2, <2>5, <3>1, <3>2
    <3>4. \A i \in 0 .. rstkp' : rstk'[i] = calls'[forgotten' + i + 1]
      <4> TAKE i \in 0 .. rstkp'
      <4>1. rstk[i] = calls[forgotten + i + 1]
        BY <2>5, <3>1
      <4>2. forgotten + i + 1 \in 1 .. Len(calls) - 1
        BY <2>1, <2>5, <3>1, <3>2
      <4> QED BY <2>2, <3>1, <3>2, <4>1, <4>2
    <3> QED BY <2>1, <2>2, <3>1, <3>2, <3>3, <3>4
  <2> QED BY <2>4, <2>5
<1> QED BY <1>1, <1>2

LEMMA StackStep == StackInv /\ [StackNext]_stackVars => StackInv'
<1> SUFFICES ASSUME StackInv, [StackNext]_stackVars PROVE StackInv'
  OBVIOUS
<1>1. CASE Gosub
  BY <1>1, PushKeepsStack DEF Gosub
<1>2. CASE RstkIsC
  BY <1>2, PushKeepsStack DEF RstkIsC, StackInv, StackTypeOK
<1>3. CASE Rtn
  BY <1>3, PopKeepsStack DEF Rtn
<1>4. CASE CIsRstk
  BY <1>4, PopKeepsStack DEF CIsRstk, StackInv, StackTypeOK
<1>5. CASE UNCHANGED stackVars
  BY <1>5 DEF stackVars, StackInv, StackTypeOK, InnermostCallsAreKept
<1> QED BY <1>1, <1>2, <1>3, <1>4, <1>5 DEF StackNext

(***************************************************************************)
(* Whatever calls, interrupts and returns are mixed, the stack of any size *)
(* holds the addresses of the innermost calls in their order: push and pop *)
(* (actions.c) lose only the oldest of more than NR_RSTK nested calls.     *)
(***************************************************************************)
THEOREM StackKeepsInnermostCalls == StackSpec => []InnermostCallsAreKept
<1>1. StackInv => InnermostCallsAreKept
  BY DEF StackInv
<1> QED BY StackInitially, StackStep, <1>1, PTL DEF StackSpec

(***************************************************************************)
(* The index of the top never leaves the array, on any sequence of calls   *)
(* and returns, so that no push writes and no pop reads outside rstk.      *)
(***************************************************************************)
THEOREM StackTyped == StackSpec => []StackTypeOK
<1>1. StackInv => StackTypeOK
  BY DEF StackInv
<1> QED BY StackInitially, StackStep, <1>1, PTL DEF StackSpec

=============================================================================
