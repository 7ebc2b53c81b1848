----------------------------- MODULE RegisterOps -----------------------------
(***************************************************************************)
(* The operations of src/src/core/register.c on the working registers of   *)
(* the Saturn, as functions of digits.  A register holds one digit per     *)
(* place, the lowest at place 0; an operation works on the places s..e of  *)
(* a field and leaves the others alone.  The loops that carry from digit   *)
(* to digit are recursive functions over the places.                       *)
(***************************************************************************)
EXTENDS Integers, Bitwise

CONSTANTS N,      \* values of a digit: 16
          Width   \* digits of a register: 16

ASSUME RegisterOpsAssumption == N \in Nat \ {0, 1} /\ N % 2 = 0
                                /\ Width \in Nat \ {0}

Places == 0 .. Width - 1
Digit == 0 .. N - 1
RegisterValue == [Places -> Digit]

(***************************************************************************)
(* A chain of digit steps: Step(x, y, c) gives the digit and the carry of  *)
(* one place.  The result holds the register with the field replaced, and  *)
(* the carry out of its last place.                                        *)
(***************************************************************************)
Chain(x, y, s, e, c0, Step(_, _, _)) ==
    LET at[i \in (s - 1) .. e] ==
            IF i < s THEN [d |-> 0, c |-> c0] ELSE Step(x[i], y[i], at[i - 1].c)
    IN [r |-> [i \in DOMAIN x |-> IF i \in s .. e THEN at[i].d ELSE x[i]],
        c |-> at[e].c]

\* The field s..e of r holds what v says, the other places what they held.
Spliced(r, s, e, v) == [i \in DOMAIN r |-> IF i \in s .. e THEN v[i] ELSE r[i]]

Carried(t, base) == IF t < base THEN [d |-> t % N, c |-> 0]
                                ELSE [d |-> (t - base) % N, c |-> 1]
\* A borrow that always adds sixteen, as if the mode were never asked.
BorrowedInHex(t, base) == IF t >= 0 THEN [d |-> t % N, c |-> 0]
                                    ELSE [d |-> (t + N) % N, c |-> 1]

Borrowed(t, base) == IF t >= 0 THEN [d |-> t % N, c |-> 0]
                               ELSE [d |-> (t + base) % N, c |-> 1]

-----------------------------------------------------------------------------
(* Arithmetic: base is the mode, sixteen after SETHEX and ten after SETDEC *)

add_register(dest, x, y, s, e, base) ==
    LET sum == Chain(x, y, s, e, 0, LAMBDA a, b, c : Carried(a + b + c, base))
    IN [r |-> Spliced(dest, s, e, sum.r), c |-> sum.c]

sub_register(dest, x, y, s, e, base) ==
    LET dif == Chain(x, y, s, e, 0, LAMBDA a, b, c : Borrowed(a - b - c, base))
    IN [r |-> Spliced(dest, s, e, dif.r), c |-> dif.c]

\* The increment and decrement stop at the first digit that does not carry.
inc_register(r, s, e, base) ==
    Chain(r, r, s, e, 1,
          LAMBDA a, b, c : IF c = 0 THEN [d |-> a, c |-> 0] ELSE Carried(a + c, base))

dec_register(r, s, e, base) ==
    Chain(r, r, s, e, 1,
          LAMBDA a, b, c : IF c = 0 THEN [d |-> a, c |-> 0] ELSE Borrowed(a - c, base))

\* A constant is added to the first digit, in base sixteen whatever the mode.
add_register_constant(r, s, e, val) == 
    Chain(r, r, s, e, val,
          LAMBDA a, b, c : IF c = 0 THEN [d |-> a, c |-> 0] ELSE Carried(a + c, N))

sub_register_constant(r, s, e, val) ==
    Chain(r, r, s, e, val,
          LAMBDA a, b, c : IF c = 0 THEN [d |-> a, c |-> 0] ELSE Borrowed(a - c, N))

\* C+P+1: the pointer plus one, in base sixteen, into the address field.
add_p_plus_one(r, s, e, p) ==
    Chain(r, r, s, e, p + 1, LAMBDA a, b, c : Carried(a + c, N))

\* The carry of a negation says that the result is not zero.
complement_2_register(r, s, e, base) ==
    LET neg == Chain(r, r, s, e, 1,
                     LAMBDA a, b, c : Carried((base - 1) - a + c, base))
    IN [r |-> neg.r, c |-> IF \E i \in s .. e : neg.r[i] # 0 THEN 1 ELSE 0]

complement_1_register(r, s, e, base) ==
    [r |-> Spliced(r, s, e, [i \in s .. e |-> ((base - 1) - r[i]) % N]), c |-> 0]

-----------------------------------------------------------------------------
(* Logic and moves                                                         *)

zero_register(r, s, e) == Spliced(r, s, e, [i \in s .. e |-> 0])
or_register(dest, x, y, s, e) == Spliced(dest, s, e, [i \in s .. e |-> x[i] | y[i]])
and_register(dest, x, y, s, e) == Spliced(dest, s, e, [i \in s .. e |-> x[i] & y[i]])
copy_register(to, from, s, e) == Spliced(to, s, e, from)

-----------------------------------------------------------------------------
(* Shifts: lost says that a bit left the register, which sets SB           *)

shift_left_register(r, s, e) ==
    Spliced(r, s, e, [i \in s .. e |-> IF i = s THEN 0 ELSE r[i - 1]])

shift_left_circ_register(r, s, e) ==
    Spliced(r, s, e, [i \in s .. e |-> IF i = s THEN r[e] ELSE r[i - 1]])

shift_right_register(r, s, e) ==
    [r |-> Spliced(r, s, e, [i \in s .. e |-> IF i = e THEN 0 ELSE r[i + 1]]),
     lost |-> r[s] # 0]

shift_right_circ_register(r, s, e) ==
    [r |-> Spliced(r, s, e, [i \in s .. e |-> IF i = e THEN r[s] ELSE r[i + 1]]),
     lost |-> r[s] # 0]

shift_right_bit_register(r, s, e) ==
    [r |-> Spliced(r, s, e,
             [i \in s .. e |-> r[i] \div 2 +
                               (IF i < e THEN (N \div 2) * (r[i + 1] % 2) ELSE 0)]),
     lost |-> r[s] % 2 # 0]

-----------------------------------------------------------------------------
(* Tests, from the highest place down                                      *)

\* x holds, at the highest place where they differ, a digit of relation R.
Differs(x, y, s, e) == {i \in s .. e : x[i] # y[i]}
Highest(S) == CHOOSE i \in S : \A j \in S : j <= i

is_zero_register(x, s, e) == \A i \in s .. e : x[i] = 0
is_not_zero_register(x, s, e) == \E i \in s .. e : x[i] # 0
is_equal_register(x, y, s, e) == Differs(x, y, s, e) = {}
is_not_equal_register(x, y, s, e) == Differs(x, y, s, e) # {}

is_less_register(x, y, s, e) ==
    LET D == Differs(x, y, s, e) IN D # {} /\ x[Highest(D)] < y[Highest(D)]
is_less_or_equal_register(x, y, s, e) ==
    LET D == Differs(x, y, s, e) IN D # {} => x[Highest(D)] < y[Highest(D)]
is_greater_register(x, y, s, e) ==
    LET D == Differs(x, y, s, e) IN D # {} /\ x[Highest(D)] > y[Highest(D)]
is_greater_or_equal_register(x, y, s, e) ==
    LET D == Differs(x, y, s, e) IN D # {} => x[Highest(D)] > y[Highest(D)]

=============================================================================
