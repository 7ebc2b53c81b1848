------------------------------ MODULE Registers ------------------------------
(***************************************************************************)
(* The working registers of the Saturn and the instructions of the         *)
(* decoder (src/src/core/emulate.c) that compute with them: which register *)
(* and field each works on, in which base, and what it leaves in CARRY and *)
(* in the sticky bit SB.  ArithmeticIsExact compares every instruction     *)
(* with what it means for the numbers the fields hold.                     *)
(***************************************************************************)
EXTENDS RegisterOps

CONSTANTS Regs,           \* the working registers: A, B, C, D
          DEC,            \* the base after SETDEC: 10
          start_fields,   \* first place of a field code, -1 for the pointer P
          end_fields,     \* last place of a field code, -1 for P
          Fields,         \* the field codes of the general instructions
          W_FIELD, A_FIELD,  \* the whole register and the address field
          ConstantsAdded  \* the constants of R=R+CON and R=R-CON: 1..16

ASSUME RegistersAssumption ==
    /\ Regs \subseteq {"A", "B", "C", "D"}
    /\ DEC \in 2 .. N
    /\ Fields \cup {W_FIELD, A_FIELD} \subseteq DOMAIN start_fields
    /\ DOMAIN end_fields = DOMAIN start_fields
    /\ start_fields \in [DOMAIN start_fields -> Places \cup {-1}]
    /\ end_fields \in [DOMAIN start_fields -> Places \cup {-1}]
    /\ ConstantsAdded \subseteq 1 .. N

HEX == N

VARIABLES reg,      \* the working registers
          P,        \* the digit pointer
          hexmode,  \* the base of the arithmetic
          CARRY, SB,
          ins       \* history: the instruction executed last

vars == <<reg, P, hexmode, CARRY, SB, ins>>
modes == <<P, hexmode>>

get_start(code) == IF start_fields[code] = -1 THEN P ELSE start_fields[code]
get_end(code) == IF end_fields[code] = -1 THEN P ELSE end_fields[code]

Init ==
    /\ reg = [r \in Regs |-> [i \in Places |-> 0]]
    /\ P = 0 /\ hexmode = HEX /\ CARRY = 0 /\ SB = 0
    /\ ins = [op |-> "none"]

-----------------------------------------------------------------------------
(* What the opcodes name, for the registers of this instance               *)

Of(pairs) == {p \in pairs : p[1] \in Regs /\ p[2] \in Regs}

\* R=R+S
Sums == Of({<<"A", "B">>, <<"B", "C">>, <<"C", "A">>, <<"D", "C">>, <<"A", "A">>, <<"B", "B">>,
            <<"C", "C">>, <<"D", "D">>, <<"B", "A">>, <<"C", "B">>, <<"A", "C">>, <<"C", "D">>})
\* R=R-S, R=R&S, R=R!S and R=S
Mixed == Of({<<"A", "B">>, <<"B", "C">>, <<"C", "A">>, <<"D", "C">>,
             <<"B", "A">>, <<"C", "B">>, <<"A", "C">>, <<"C", "D">>})
\* R=S-R
Reversed == Of({<<"A", "B">>, <<"B", "C">>, <<"C", "A">>, <<"D", "C">>})
\* ABEX, BCEX, ACEX, CDEX
Exchanged == Of({<<"A", "B">>, <<"B", "C">>, <<"A", "C">>, <<"C", "D">>})
\* ?R=S and ?R#S
Equated == Of({<<"A", "B">>, <<"B", "C">>, <<"A", "C">>, <<"C", "D">>})
\* ?R>S, ?R<S, ?R>=S and ?R<=S
Ordered == Of({<<"A", "B">>, <<"B", "C">>, <<"C", "A">>, <<"D", "C">>})

\* An instruction that leaves the result [r, c] in register d.
Result(d, result) ==
    /\ reg' = [reg EXCEPT ![d] = result.r]
    /\ CARRY' = result.c
    /\ UNCHANGED <<modes, SB>>

\* One that leaves result in d and does not touch CARRY or SB.
Moved(d, result) ==
    /\ reg' = [reg EXCEPT ![d] = result]
    /\ UNCHANGED <<modes, CARRY, SB>>

\* A right shift, which sets SB when it loses a bit.
Shifted(d, result) ==
    /\ reg' = [reg EXCEPT ![d] = result.r]
    /\ SB' = IF result.lost THEN 1 ELSE SB
    /\ UNCHANGED <<modes, CARRY>>

Executes(op, d, x, y, code, k) ==
    ins' = [op |-> op, d |-> d, x |-> x, y |-> y, s |-> get_start(code), e |-> get_end(code), k |-> k]

-----------------------------------------------------------------------------
(* The instructions                                                        *)

Add(d, x, code) ==
    /\ Result(d, add_register(reg[d], reg[d], reg[x], get_start(code), get_end(code), hexmode))
    /\ Executes("add", d, d, x, code, 0)

Subtract(d, x, y, code) ==
    /\ Result(d, sub_register(reg[d], reg[x], reg[y], get_start(code), get_end(code), hexmode))
    /\ Executes("sub", d, x, y, code, 0)

Increment(d, code) ==
    /\ Result(d, inc_register(reg[d], get_start(code), get_end(code), hexmode))
    /\ Executes("inc", d, d, d, code, 1)

Decrement(d, code) ==
    /\ Result(d, dec_register(reg[d], get_start(code), get_end(code), hexmode))
    /\ Executes("dec", d, d, d, code, 1)

AddConstant(d, code, k) ==
    /\ Result(d, add_register_constant(reg[d], get_start(code), get_end(code), k))
    /\ Executes("addc", d, d, d, code, k)

SubtractConstant(d, code, k) ==
    /\ Result(d, sub_register_constant(reg[d], get_start(code), get_end(code), k))
    /\ Executes("subc", d, d, d, code, k)

AddPPlusOne ==
    /\ "C" \in Regs
    /\ Result("C", add_p_plus_one(reg["C"], get_start(A_FIELD), get_end(A_FIELD), P))
    /\ Executes("addc", "C", "C", "C", A_FIELD, P + 1)

Negate(d, code) ==
    /\ Result(d, complement_2_register(reg[d], get_start(code), get_end(code), hexmode))
    /\ Executes("neg", d, d, d, code, 0)

Complement(d, code) ==
    /\ Result(d, complement_1_register(reg[d], get_start(code), get_end(code), hexmode))
    /\ Executes("not", d, d, d, code, 0)

Clear(d, code) ==
    /\ Moved(d, zero_register(reg[d], get_start(code), get_end(code)))
    /\ Executes("zero", d, d, d, code, 0)

Copy(d, x, code) ==
    /\ Moved(d, copy_register(reg[d], reg[x], get_start(code), get_end(code)))
    /\ Executes("copy", d, x, x, code, 0)

BitOr(d, x, code) ==
    /\ Moved(d, or_register(reg[d], reg[d], reg[x], get_start(code), get_end(code)))
    /\ Executes("or", d, d, x, code, 0)

BitAnd(d, x, code) ==
    /\ Moved(d, and_register(reg[d], reg[d], reg[x], get_start(code), get_end(code)))
    /\ Executes("and", d, d, x, code, 0)

exchange_register(x, y, code) ==
    /\ reg' = [reg EXCEPT ![x] = copy_register(@, reg[y], get_start(code), get_end(code)),
                          ![y] = copy_register(@, reg[x], get_start(code), get_end(code))]
    /\ UNCHANGED <<modes, CARRY, SB>>
    /\ Executes("exchange", x, y, y, code, 0)

ShiftLeft(d, code) ==
    /\ Moved(d, shift_left_register(reg[d], get_start(code), get_end(code)))
    /\ Executes("sl", d, d, d, code, 0)

ShiftLeftCircular(d) ==
    /\ Moved(d, shift_left_circ_register(reg[d], get_start(W_FIELD), get_end(W_FIELD)))
    /\ Executes("slc", d, d, d, W_FIELD, 0)

ShiftRight(d, code) ==
    /\ Shifted(d, shift_right_register(reg[d], get_start(code), get_end(code)))
    /\ Executes("sr", d, d, d, code, 0)

ShiftRightCircular(d) ==
    /\ Shifted(d, shift_right_circ_register(reg[d], get_start(W_FIELD), get_end(W_FIELD)))
    /\ Executes("src", d, d, d, W_FIELD, 0)

ShiftRightBit(d, code) ==
    /\ Shifted(d, shift_right_bit_register(reg[d], get_start(code), get_end(code)))
    /\ Executes("srb", d, d, d, code, 0)

\* A test leaves its answer in CARRY, and the branch is taken when it is set.
Tested(op, x, y, code, answer) ==
    /\ CARRY' = IF answer THEN 1 ELSE 0
    /\ UNCHANGED <<reg, modes, SB>>
    /\ Executes(op, x, x, y, code, 0)

TestZero(x, code) ==
    LET s == get_start(code)  e == get_end(code)
    IN \/ Tested("=0", x, x, code, is_zero_register(reg[x], s, e))
       \/ Tested("#0", x, x, code, is_not_zero_register(reg[x], s, e))

TestEqual(x, y, code) ==
    LET s == get_start(code)  e == get_end(code)
    IN \/ Tested("=", x, y, code, is_equal_register(reg[x], reg[y], s, e))
       \/ Tested("#", x, y, code, is_not_equal_register(reg[x], reg[y], s, e))

TestOrder(x, y, code) ==
    LET s == get_start(code)  e == get_end(code)
    IN \/ Tested("<", x, y, code, is_less_register(reg[x], reg[y], s, e))
       \/ Tested("<=", x, y, code, is_less_or_equal_register(reg[x], reg[y], s, e))
       \/ Tested(">", x, y, code, is_greater_register(reg[x], reg[y], s, e))
       \/ Tested(">=", x, y, code, is_greater_or_equal_register(reg[x], reg[y], s, e))

-----------------------------------------------------------------------------
(* The pointer, the mode and the sticky bit                                *)

Sets(op) == ins' = [op |-> op] /\ UNCHANGED reg

SetMode == 
    /\ hexmode' \in {HEX, DEC} \ {hexmode}
    /\ Sets("mode") /\ UNCHANGED <<P, CARRY, SB>>

LoadP ==
    /\ P' \in Places \ {P}
    /\ Sets("P=n") /\ UNCHANGED <<hexmode, CARRY, SB>>

IncP ==
    /\ P' = (P + 1) % Width /\ CARRY' = IF P = Width - 1 THEN 1 ELSE 0
    /\ Sets("P+1") /\ UNCHANGED <<hexmode, SB>>

DecP ==
    /\ P' = (P - 1) % Width /\ CARRY' = IF P = 0 THEN 1 ELSE 0
    /\ Sets("P-1") /\ UNCHANGED <<hexmode, SB>>

\* CLRHST with the bit of SB in its mask.
clear_hardware_stat ==
    /\ SB = 1 /\ SB' = 0
    /\ Sets("SB=0") /\ UNCHANGED <<modes, CARRY>>

Arithmetic ==
    \E code \in Fields :
        \/ \E p \in Sums : Add(p[1], p[2], code)
        \/ \E p \in Mixed : Subtract(p[1], p[1], p[2], code)
        \/ \E p \in Reversed : Subtract(p[1], p[2], p[1], code)
        \/ \E d \in Regs : \/ Increment(d, code) \/ Decrement(d, code)
                           \/ Negate(d, code) \/ Complement(d, code)
                           \/ \E k \in ConstantsAdded : \/ AddConstant(d, code, k)
                                                        \/ SubtractConstant(d, code, k)

Moves ==
    \E code \in Fields :
        \/ \E p \in Mixed : Copy(p[1], p[2], code) \/ BitOr(p[1], p[2], code) \/ BitAnd(p[1], p[2], code)
        \/ \E p \in Exchanged : exchange_register(p[1], p[2], code)
        \/ \E d \in Regs : \/ Clear(d, code) \/ ShiftLeft(d, code)
                           \/ ShiftRight(d, code) \/ ShiftRightBit(d, code)

Tests ==
    \E code \in Fields :
        \/ \E x \in Regs : TestZero(x, code)
        \/ \E p \in Equated : TestEqual(p[1], p[2], code)
        \/ \E p \in Ordered : TestOrder(p[1], p[2], code)

Next ==
    \/ Arithmetic \/ AddPPlusOne \/ Moves \/ Tests
    \/ \E d \in Regs : ShiftLeftCircular(d) \/ ShiftRightCircular(d)
    \/ SetMode \/ LoadP \/ IncP \/ DecP \/ clear_hardware_stat

Spec == Init /\ [][Next]_vars

-----------------------------------------------------------------------------
(* What an instruction means for the numbers in its field                  *)

\* The number the places s..e of r hold in a base.
Value(r, s, e, base) ==
    LET upto[i \in (s - 1) .. e] == IF i < s THEN 0 ELSE upto[i - 1] + r[i] * base ^ (i - s)
    IN upto[e]

\* The digits of the field are digits of the mode.
Valid(r, s, e) == \A i \in s .. e : r[i] < hexmode

Bit(condition) == IF condition THEN 1 ELSE 0

Meaning(i) ==
    LET val(r, base) == Value(r, i.s, i.e, base)
        size(base) == base ^ (i.e - i.s + 1)
        digits == Valid(reg[i.x], i.s, i.e) /\ Valid(reg[i.y], i.s, i.e)
        X == val(reg[i.x], hexmode)   Y == val(reg[i.y], hexmode)   M == size(hexmode)
        hX == val(reg[i.x], HEX)   hY == val(reg[i.y], HEX)   hM == size(HEX)
        gives(v) == val(reg'[i.d], hexmode) = v /\ Valid(reg'[i.d], i.s, i.e)
        hexGives(v) == val(reg'[i.d], HEX) = v
        answers(b) == CARRY' = Bit(b)
        loses(b) == SB' = IF b THEN 1 ELSE SB
    IN CASE i.op = "add" -> digits => gives((X + Y) % M) /\ answers(X + Y >= M)
         [] i.op = "sub" -> digits => gives((X - Y) % M) /\ answers(X < Y)
         [] i.op = "inc" -> digits => gives((X + 1) % M) /\ answers(X + 1 = M)
         [] i.op = "dec" -> digits => gives((X - 1) % M) /\ answers(X = 0)
         [] i.op = "neg" -> digits => gives((-X) % M) /\ answers(X # 0)
         [] i.op = "not" -> digits => gives(M - 1 - X) /\ answers(FALSE)
         [] i.op = "addc" -> hexGives((hX + i.k) % hM) /\ answers(hX + i.k >= hM)
         [] i.op = "subc" -> hexGives((hX - i.k) % hM) /\ answers(hX < i.k)
         [] i.op = "zero" -> hexGives(0)
         [] i.op = "copy" -> hexGives(hX)
         [] i.op = "exchange" -> hexGives(hX) /\ val(reg'[i.x], HEX) = val(reg[i.d], HEX)
         [] i.op = "or" -> hexGives(hX | hY)
         [] i.op = "and" -> hexGives(hX & hY)
         [] i.op = "sl" -> hexGives((hX * N) % hM)
         [] i.op = "slc" -> hexGives(((hX * N) % hM) + hX \div (hM \div N))
         [] i.op = "sr" -> hexGives(hX \div N) /\ loses(hX % N # 0)
         [] i.op = "src" -> hexGives((hX \div N) + (hX % N) * (hM \div N)) /\ loses(hX % N # 0)
         [] i.op = "srb" -> hexGives(hX \div 2) /\ loses(hX % 2 # 0)
         [] i.op = "=0" -> answers(hX = 0)
         [] i.op = "#0" -> answers(hX # 0)
         [] i.op = "=" -> answers(hX = hY)
         [] i.op = "#" -> answers(hX # hY)
         [] i.op = "<" -> answers(hX < hY)
         [] i.op = "<=" -> answers(hX <= hY)
         [] i.op = ">" -> answers(hX > hY)
         [] i.op = ">=" -> answers(hX >= hY)
         [] OTHER -> TRUE

\* What the field does not name, the instruction does not touch.
Frame(i) ==
    "s" \in DOMAIN i =>
        \A r \in Regs, place \in Places :
            reg'[r][place] # reg[r][place] =>
                place \in i.s .. i.e /\ (r = i.d \/ (i.op = "exchange" /\ r = i.x))

(***************************************************************************)
(* Every instruction computes, on the field it names and nowhere else, the *)
(* number the Saturn's arithmetic says, in the base of the mode, with the  *)
(* carry, the borrow, the answer of a test and the lost bit told right:    *)
(* the digit loops of register.c carry, stop and wrap where they should.   *)
(***************************************************************************)
ArithmeticIsExact == [][Meaning(ins') /\ Frame(ins')]_vars

\* Every register holds digits, and the pointer names a place.
RegistersTypeOK ==
    /\ reg \in [Regs -> RegisterValue]
    /\ P \in Places /\ hexmode \in {HEX, DEC} /\ CARRY \in {0, 1} /\ SB \in {0, 1}

=============================================================================
