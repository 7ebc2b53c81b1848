------------------------- MODULE ObjectFilesProofs -------------------------
(***************************************************************************)
(* Proofs about ObjectFiles, for every INBOX, every size of the memory and *)
(* of the buffer and every number of transfers: the HP's memory stays in   *)
(* order, object_size stays within what it is given, and the transfers are *)
(* those of ObjectExchange.                                                *)
(***************************************************************************)
EXTENDS ObjectFiles, FiniteSetTheorems, SequenceTheorems,
        WellFoundedInduction, TLAPS

-----------------------------------------------------------------------------
(* Induction.  The copies and the walk of temporary memory are recursive   *)
(* functions.  What they compute follows from the least number principle,  *)
(* which the library's NatLessThanWellFounded gives.                       *)

(* The order of the numbers as a relation.                                 *)
LEMMA NatOrder == OpToRel(<, Nat) = {ss \in Nat \X Nat : ss[1] < ss[2]}
BY DEF OpToRel

(* A set of numbers that is not empty has a least one.                     *)
LEMMA LeastNumber ==
  ASSUME NEW S \in SUBSET Nat, S # {}
  PROVE  \E n \in S : \A m \in S : n <= m
<1>1. PICK x \in S : \A y \in S : ~(<<y, x>> \in OpToRel(<, Nat))
  <2>1. IsWellFoundedOn(OpToRel(<, Nat), Nat)
    BY NatLessThanWellFounded
  <2>2. QED
    BY <2>1, WFMin, Zenon
<1>2. ASSUME NEW y \in S PROVE x <= y
  <2>1. ~(<<y, x>> \in {ss \in Nat \X Nat : ss[1] < ss[2]})
    BY <1>1, NatOrder, Zenon
  <2>2. x \in Nat /\ y \in Nat
    OBVIOUS
  <2>3. QED
    BY <2>1, <2>2
<1>3. QED
  BY <1>2

(* Induction over the numbers, about a set.                                *)
LEMMA Induction ==
  ASSUME NEW S, 0 \in S, \A n \in Nat : n \in S => n + 1 \in S
  PROVE  \A n \in Nat : n \in S
<1>1. SUFFICES ASSUME Nat \ S # {} PROVE FALSE
  OBVIOUS
<1>2. PICK n \in Nat \ S : \A m \in Nat \ S : n <= m
  BY <1>1, LeastNumber
<1>3. n # 0
  OBVIOUS
<1>4. n - 1 \in Nat /\ ~(n <= n - 1)
  BY <1>3
<1>5. n - 1 \in S
  BY <1>2, <1>4
<1>6. (n - 1) + 1 = n
  OBVIOUS
<1>7. QED
  BY <1>4, <1>5, <1>6

(* The same with all smaller numbers for the hypothesis.                   *)
LEMMA StrongInduction ==
  ASSUME NEW S, \A n \in Nat : (\A m \in 0 .. n - 1 : m \in S) => n \in S
  PROVE  \A n \in Nat : n \in S
<1>1. SUFFICES ASSUME Nat \ S # {} PROVE FALSE
  OBVIOUS
<1>2. PICK n \in Nat \ S : \A m \in Nat \ S : n <= m
  BY <1>1, LeastNumber
<1>3. ASSUME NEW m \in 0 .. n - 1 PROVE m \in S
  BY <1>2
<1>4. QED
  BY <1>3

(* Two functions that agree at 0 and, where they agree, at the next number *)
(* agree at n.                                                             *)
LEMMA Agree ==
  ASSUME NEW n \in Nat, NEW f, NEW g, f[0] = g[0],
         \A k \in 0 .. n - 1 : f[k] = g[k] => f[k + 1] = g[k + 1]
  PROVE  f[n] = g[n]
<1> DEFINE S == {i \in Nat : i <= n => f[i] = g[i]}
<1>1. 0 \in S
  OBVIOUS
<1>2. ASSUME NEW k \in Nat, k \in S PROVE k + 1 \in S
  BY <1>2
<1>3. n \in S
  <2> HIDE DEF S
  <2>1. QED
    BY <1>1, <1>2, Induction, Zenon
<1>4. QED
  BY <1>3

-----------------------------------------------------------------------------
(* The copies.                                                             *)

(* A RAM with n cells from "from" on copied to "to".                       *)
Moved(ram, from, n, to) ==
  [x \in Addr |-> IF x \in to .. to + n - 1 THEN ram[x - to + from] ELSE ram[x]]

(* The copy with the last cell first moves n cells d up, however near.     *)
LEMMA CopyUpIs ==
  ASSUME NEW S, NEW ram \in [Addr -> S], NEW a \in Int, NEW n \in Nat, NEW d \in Nat,
         RamBase <= a, a + n + d <= RamEnd
  PROVE  CopyUp(ram, a, n, d) = Moved(ram, a, n, a + d)
<1> DEFINE Step(f, k) == [f[k - 1] EXCEPT ![a + d + n - k] = f[k - 1][a + n - k]]
           f0 == CHOOSE f : f = [k \in 0 .. n |-> IF k = 0 THEN ram ELSE Step(f, k)]
           g  == [k \in 0 .. n |-> Moved(ram, a + n - k, k, a + d + n - k)]
<1>0. RamBase \in Nat /\ RamEnd \in Nat
  BY RplAssumption
<1>1. ASSUME NEW k \in 0 .. n
      PROVE  g[k] = IF k = 0 THEN ram ELSE Step(g, k)
  <2>1. CASE k = 0
    BY <2>1, <1>0 DEF Moved, Addr
  <2>2. CASE k # 0
    <3> DEFINE from == a + n - k
               to == a + d + n - k
               h == Moved(ram, from + 1, k - 1, to + 1)
    <3>1. /\ k - 1 \in 0 .. n /\ to \in Addr /\ from \in Addr
          /\ from + 1 = a + n - (k - 1) /\ to + 1 = a + d + n - (k - 1)
          /\ from \in Int /\ to \in Int /\ k \in Nat \ {0} /\ from <= to
      BY <2>2, <1>0 DEF Addr
    <3>2. g[k - 1] = h
      BY <3>1
    <3>3. g[k] = Moved(ram, from, k, to)
      OBVIOUS
    <3> HIDE DEF from, to
    <3>4. h[from] = ram[from]
      BY <3>1, <1>0 DEF Moved, Addr
    <3>5. ASSUME NEW x \in Addr
          PROVE  Moved(ram, from, k, to)[x] = [h EXCEPT ![to] = h[from]][x]
      <4>1. CASE x = to
        BY <4>1, <3>1, <3>4, <1>0 DEF Moved, Addr
      <4>2. CASE x # to
        BY <4>2, <3>1, <1>0 DEF Moved, Addr
      <4>3. QED
        BY <4>1, <4>2
    <3>6. Moved(ram, from, k, to) = [h EXCEPT ![to] = h[from]]
      BY <3>5 DEF Moved
    <3>7. Step(g, k) = [h EXCEPT ![to] = h[from]]
      BY <3>2, Zenon DEF from, to
    <3>8. QED
      BY <3>3, <3>6, <3>7, <2>2, Zenon
  <2>3. QED
    BY <2>1, <2>2
<1>2. f0 = [k \in 0 .. n |-> IF k = 0 THEN ram ELSE Step(f0, k)]
  <2>1. g = [k \in 0 .. n |-> IF k = 0 THEN ram ELSE Step(g, k)]
    <3> HIDE DEF Step
    <3>1. QED
      BY <1>1
  <2> HIDE DEF g, Step
  <2> QED
    BY <2>1, Zenon
<1>3. f0[n] = g[n]
  <2>1. \A k \in 0 .. n : /\ f0[k] = IF k = 0 THEN ram ELSE Step(f0, k)
                          /\ g[k] = IF k = 0 THEN ram ELSE Step(g, k)
    <3> HIDE DEF f0, g, Step
    <3>1. QED
      BY <1>1, <1>2
  <2> HIDE DEF f0, g
  <2>2. f0[0] = g[0]
    <3>1. 0 \in 0 .. n
      OBVIOUS
    <3>2. QED
      BY <2>1, <3>1, Zenon
  <2>3. ASSUME NEW k \in 0 .. n - 1, f0[k] = g[k] PROVE f0[k + 1] = g[k + 1]
    <3>1. k + 1 \in 0 .. n /\ k + 1 # 0 /\ (k + 1) - 1 = k
      OBVIOUS
    <3>2. f0[k + 1] = Step(f0, k + 1) /\ g[k + 1] = Step(g, k + 1)
      BY <2>1, <3>1, Zenon
    <3>3. QED
      BY <2>3, <3>1, <3>2, Zenon
  <2>4. QED
    BY <2>2, <2>3, Agree, Zenon
<1>4. CopyUp(ram, a, n, d) = f0[n]
  BY DEF CopyUp
<1>5. g[n] = Moved(ram, a, n, a + d)
  <2>1. a + d + n - n = a + d /\ a + n - n = a /\ n \in 0 .. n
    OBVIOUS
  <2>2. QED
    BY <2>1
<1>6. QED
  BY <1>3, <1>4, <1>5

(* The copy with the first cell first moves n cells d down, however near.  *)
LEMMA CopyDownIs ==
  ASSUME NEW S, NEW ram \in [Addr -> S], NEW a \in Int, NEW n \in Nat, NEW d \in Nat,
         RamBase <= a, a + n + d <= RamEnd
  PROVE  CopyDown(ram, a, n, d) = Moved(ram, a + d, n, a)
<1> DEFINE Step(f, k) == [f[k - 1] EXCEPT ![a + k - 1] = f[k - 1][a + d + k - 1]]
           f0 == CHOOSE f : f = [k \in 0 .. n |-> IF k = 0 THEN ram ELSE Step(f, k)]
           g  == [k \in 0 .. n |-> Moved(ram, a + d, k, a)]
<1>0. RamBase \in Nat /\ RamEnd \in Nat
  BY RplAssumption
<1>1. ASSUME NEW k \in 0 .. n
      PROVE  g[k] = IF k = 0 THEN ram ELSE Step(g, k)
  <2>1. CASE k = 0
    BY <2>1, <1>0 DEF Moved, Addr
  <2>2. CASE k # 0
    <3> DEFINE to == a + k - 1
               from == a + d + k - 1
               h == Moved(ram, a + d, k - 1, a)
    <3>1. /\ k - 1 \in 0 .. n /\ to \in Addr /\ from \in Addr
          /\ from \in Int /\ to \in Int /\ k \in Nat \ {0} /\ to <= from
          /\ to = a + (k - 1) /\ from = a + d + (k - 1)
      BY <2>2, <1>0 DEF Addr
    <3>2. g[k - 1] = h
      BY <3>1
    <3>3. g[k] = Moved(ram, a + d, k, a)
      OBVIOUS
    <3> HIDE DEF from, to
    <3>4. h[from] = ram[from]
      BY <3>1, <1>0 DEF Moved, Addr
    <3>5. ASSUME NEW x \in Addr
          PROVE  Moved(ram, a + d, k, a)[x] = [h EXCEPT ![to] = h[from]][x]
      <4>1. CASE x = to
        BY <4>1, <3>1, <3>4, <1>0 DEF Moved, Addr
      <4>2. CASE x # to
        BY <4>2, <3>1, <1>0 DEF Moved, Addr
      <4>3. QED
        BY <4>1, <4>2
    <3>6. Moved(ram, a + d, k, a) = [h EXCEPT ![to] = h[from]]
      BY <3>5 DEF Moved
    <3>7. Step(g, k) = [h EXCEPT ![to] = h[from]]
      BY <3>2, Zenon DEF from, to
    <3>8. QED
      BY <3>3, <3>6, <3>7, <2>2, Zenon
  <2>3. QED
    BY <2>1, <2>2
<1>2. f0 = [k \in 0 .. n |-> IF k = 0 THEN ram ELSE Step(f0, k)]
  <2>1. g = [k \in 0 .. n |-> IF k = 0 THEN ram ELSE Step(g, k)]
    <3> HIDE DEF Step
    <3>1. QED
      BY <1>1
  <2> HIDE DEF g, Step
  <2> QED
    BY <2>1, Zenon
<1>3. f0[n] = g[n]
  <2>1. \A k \in 0 .. n : /\ f0[k] = IF k = 0 THEN ram ELSE Step(f0, k)
                          /\ g[k] = IF k = 0 THEN ram ELSE Step(g, k)
    <3> HIDE DEF f0, g, Step
    <3>1. QED
      BY <1>1, <1>2
  <2> HIDE DEF f0, g
  <2>2. f0[0] = g[0]
    <3>1. 0 \in 0 .. n
      OBVIOUS
    <3>2. QED
      BY <2>1, <3>1, Zenon
  <2>3. ASSUME NEW k \in 0 .. n - 1, f0[k] = g[k] PROVE f0[k + 1] = g[k + 1]
    <3>1. k + 1 \in 0 .. n /\ k + 1 # 0 /\ (k + 1) - 1 = k
      OBVIOUS
    <3>2. f0[k + 1] = Step(f0, k + 1) /\ g[k + 1] = Step(g, k + 1)
      BY <2>1, <3>1, Zenon
    <3>3. QED
      BY <2>3, <3>1, <3>2, Zenon
  <2>4. QED
    BY <2>2, <2>3, Agree, Zenon
<1>4. CopyDown(ram, a, n, d) = f0[n]
  BY DEF CopyDown
<1>5. g[n] = Moved(ram, a + d, n, a)
  OBVIOUS
<1>6. QED
  BY <1>3, <1>4, <1>5

-----------------------------------------------------------------------------
(* The walk of temporary memory.                                           *)

(* The equation of the walk, with what it reads for J (the size of the     *)
(* block below, or 0) and V (the block) has a solution up to any number,   *)
(* and solutions agree.                                                    *)
Solves(f, n, J, V) ==
  \A t \in 0 .. n : f[t] = IF J[t] = 0 THEN {} ELSE f[t - J[t]] \cup V[t]

LEMMA SolutionsAgree ==
  ASSUME NEW J \in [Nat -> Nat], \A t \in Nat : J[t] <= t, NEW V,
         NEW n \in Nat, NEW f, NEW g, Solves(f, n, J, V), Solves(g, n, J, V)
  PROVE  \A t \in 0 .. n : f[t] = g[t]
<1> DEFINE S == {t \in Nat : t <= n => f[t] = g[t]}
<1>1. ASSUME NEW t \in Nat, \A m \in 0 .. t - 1 : m \in S PROVE t \in S
  <2>1. SUFFICES ASSUME t <= n PROVE f[t] = g[t]
    OBVIOUS
  <2>0. t \in 0 .. n
    BY <2>1
  <2>2. CASE J[t] = 0
    BY <2>0, <2>2, Zenon DEF Solves
  <2>3. CASE J[t] # 0
    <3>1. t - J[t] \in 0 .. t - 1 /\ t - J[t] <= n
      BY <2>1, <2>3
    <3>2. f[t - J[t]] = g[t - J[t]]
      BY <1>1, <3>1
    <3>3. QED
      BY <2>0, <2>3, <3>2, Zenon DEF Solves
  <2>4. QED
    BY <2>2, <2>3
<1>2. \A t \in Nat : t \in S
  <2> HIDE DEF S
  <2>1. QED
    BY <1>1, StrongInduction, Zenon
<1>3. QED
  BY <1>2

LEMMA SolutionExists ==
  ASSUME NEW J \in [Nat -> Nat], \A t \in Nat : J[t] <= t, NEW V
  PROVE  \E f : f = [t \in Nat |-> IF J[t] = 0 THEN {} ELSE f[t - J[t]] \cup V[t]]
<1> DEFINE S == {n \in Nat : \E f : Solves(f, n, J, V)}
<1>1. 0 \in S
  <2>1. Solves([t \in {0} |-> {}], 0, J, V)
    <3>1. J[0] = 0
      OBVIOUS
    <3>2. QED
      BY <3>1 DEF Solves
  <2>2. QED
    BY <2>1
<1>2. ASSUME NEW n \in Nat, n \in S PROVE n + 1 \in S
  <2>1. PICK f : Solves(f, n, J, V)
    BY <1>2
  <2> DEFINE last == IF J[n + 1] = 0 THEN {} ELSE f[n + 1 - J[n + 1]] \cup V[n + 1]
             g == [t \in 0 .. n + 1 |-> IF t <= n THEN f[t] ELSE last]
  <2>2. ASSUME NEW t \in 0 .. n + 1
        PROVE  g[t] = IF J[t] = 0 THEN {} ELSE g[t - J[t]] \cup V[t]
    <3>1. CASE J[t] = 0
      <4>1. CASE t <= n
        <5>1. t \in 0 .. n /\ g[t] = f[t]
          BY <4>1
        <5>2. QED
          BY <5>1, <3>1, <2>1, Zenon DEF Solves
      <4>2. CASE t = n + 1
        <5>1. g[t] = last
          BY <4>2
        <5>2. QED
          BY <5>1, <3>1, <4>2, Zenon
      <4>3. QED
        BY <4>1, <4>2
    <3>2. CASE J[t] # 0
      <4>1. t - J[t] \in 0 .. n + 1 /\ t - J[t] <= n
        BY <3>2
      <4>2. g[t - J[t]] = f[t - J[t]]
        BY <4>1
      <4>3. CASE t <= n
        <5>0. t \in 0 .. n
          BY <4>3
        <5>1. f[t] = f[t - J[t]] \cup V[t]
          BY <3>2, <5>0, <2>1, Zenon DEF Solves
        <5>2. g[t] = f[t]
          BY <4>3
        <5>3. QED
          BY <5>1, <5>2, <4>2, <3>2
      <4>4. CASE t = n + 1
        <5>1. g[t] = f[t - J[t]] \cup V[t]
          BY <3>2, <4>4
        <5>2. QED
          BY <5>1, <4>2, <3>2
      <4>5. QED
        BY <4>3, <4>4
    <3>3. QED
      BY <3>1, <3>2
  <2> HIDE DEF g
  <2>3. Solves(g, n + 1, J, V)
    BY <2>2 DEF Solves
  <2>4. QED
    BY <2>3
<1>3. \A n \in Nat : \E f : Solves(f, n, J, V)
  <2>1. \A n \in Nat : n \in S
    <3> HIDE DEF S
    <3>1. QED
      BY <1>1, <1>2, Induction, Zenon
  <2>2. QED
    BY <2>1
<1> DEFINE to(n) == CHOOSE f : Solves(f, n, J, V)
           f0 == [t \in Nat |-> to(t)[t]]
<1>4. \A n \in Nat : Solves(to(n), n, J, V)
  BY <1>3, Zenon
<1>5. ASSUME NEW t \in Nat
      PROVE  f0[t] = IF J[t] = 0 THEN {} ELSE f0[t - J[t]] \cup V[t]
  <2> HIDE DEF to
  <2>1. to(t)[t] = IF J[t] = 0 THEN {} ELSE to(t)[t - J[t]] \cup V[t]
    BY <1>4 DEF Solves
  <2>2. CASE J[t] = 0
    BY <2>1, <2>2
  <2>3. CASE J[t] # 0
    <3>1. t - J[t] \in Nat /\ t - J[t] <= t /\ J[t] \in Nat
      BY <2>3
    <3>2. Solves(to(t), t - J[t], J, V)
      <4>1. 0 .. t - J[t] \subseteq 0 .. t
        BY <3>1
      <4>2. QED
        BY <1>4, <4>1, Zenon DEF Solves
    <3>3. Solves(to(t - J[t]), t - J[t], J, V)
      BY <1>4, <3>1
    <3>4. t - J[t] \in 0 .. t - J[t]
      BY <3>1
    <3>5. to(t)[t - J[t]] = to(t - J[t])[t - J[t]]
      BY <3>1, <3>2, <3>3, <3>4, SolutionsAgree
    <3>6. QED
      BY <2>1, <2>3, <3>1, <3>5
  <2>4. QED
    BY <2>2, <2>3
<1>6. f0 = [t \in Nat |-> IF J[t] = 0 THEN {} ELSE f0[t - J[t]] \cup V[t]]
  <2> HIDE DEF to
  <2>1. f0 = [t \in Nat |-> f0[t]]
    OBVIOUS
  <2> HIDE DEF f0
  <2>2. QED
    BY <2>1, <1>5
<1>7. QED
  BY <1>6, Zenon

(* Without the last block the others are the blocks up to it.              *)
LEMMA TilesBelow ==
  ASSUME NEW ram, NEW B, NEW top \in Int, Tiles(ram, B, top),
         NEW last \in B, last[1] + last[2] = top
  PROVE  Tiles(ram, B \ {last}, last[1])
<1>0. Word \in Nat \ {0} /\ Marker \in Nat \ {0} /\ RamBase \in Nat
  BY RplAssumption
<1>1. last \in Int \X Int /\ last[1] \in Int /\ last[2] \in Int /\ 0 < last[2]
  BY <1>0 DEF Tiles
<1>2. ASSUME NEW b \in B, b # last PROVE b[1] + b[2] <= last[1]
  BY <1>0, <1>1, <1>2 DEF Tiles
<1>3. ASSUME NEW b \in B \ {last}, b[1] # RamBase
      PROVE  \E c \in B \ {last} : c[1] + c[2] = b[1]
  <2>1. PICK c \in B : c[1] + c[2] = b[1]
    BY <1>3 DEF Tiles
  <2>2. b[1] \in Int /\ b[2] \in Int /\ 0 < b[2]
    BY <1>0 DEF Tiles
  <2>3. c # last
    BY <2>1, <2>2, <1>1, <1>2
  <2>4. QED
    BY <2>1, <2>3
<1>4. last[1] = RamBase \/ \E c \in B \ {last} : c[1] + c[2] = last[1]
  <2>1. SUFFICES ASSUME last[1] # RamBase PROVE \E c \in B \ {last} : c[1] + c[2] = last[1]
    OBVIOUS
  <2>2. PICK c \in B : c[1] + c[2] = last[1]
    BY <2>1 DEF Tiles
  <2>3. c # last
    BY <2>2, <1>1
  <2>4. QED
    BY <2>2, <2>3
<1>5. QED
  BY <1>2, <1>3, <1>4 DEF Tiles

(* The walk finds exactly the blocks that tile temporary memory.           *)
LEMMA WalkFinds ==
  ASSUME NEW h, NEW B, h.temptop \in Nat, RamBase <= h.temptop,
         Tiles(h.ram, B, h.temptop)
  PROVE  TempBlocks(h) = B
<1>0. Word \in Nat \ {0} /\ Marker \in Nat \ {0} /\ RamBase \in Nat
  BY RplAssumption
<1> DEFINE size(t) == h.ram[t - Word]
           ends(t) == t <= RamBase \/ size(t) \notin 1 .. t - RamBase
           J == [t \in Nat |-> IF ends(t) THEN 0 ELSE size(t)]
           V == [t \in Nat |-> {<<t - size(t), size(t)>>}]
           below == CHOOSE f : f = [t \in Nat |->
                      IF ends(t) THEN {} ELSE f[t - size(t)] \cup {<<t - size(t), size(t)>>}]
<1>1. J \in [Nat -> Nat] /\ \A t \in Nat : J[t] <= t
  <2>1. ASSUME NEW t \in Nat PROVE J[t] \in Nat /\ J[t] <= t
    <3>1. CASE ends(t)
      BY <3>1
    <3>2. CASE ~ends(t)
      BY <3>2, <1>0
    <3>3. QED
      BY <3>1, <3>2
  <2>2. QED
    BY <2>1
<1>2. ASSUME NEW f
      PROVE  [t \in Nat |-> IF J[t] = 0 THEN {} ELSE f[t - J[t]] \cup V[t]]
             = [t \in Nat |->
                  IF ends(t) THEN {} ELSE f[t - size(t)] \cup {<<t - size(t), size(t)>>}]
  <2>1. ASSUME NEW t \in Nat
        PROVE  (IF J[t] = 0 THEN {} ELSE f[t - J[t]] \cup V[t])
               = (IF ends(t) THEN {} ELSE f[t - size(t)] \cup {<<t - size(t), size(t)>>})
    <3>1. CASE ends(t)
      <4>1. J[t] = 0
        BY <3>1
      <4> HIDE DEF ends, J
      <4>2. QED
        BY <3>1, <4>1, Zenon
    <3>2. CASE ~ends(t)
      <4>1. J[t] = size(t) /\ J[t] # 0
        BY <3>2, <1>0
      <4>2. V[t] = {<<t - size(t), size(t)>>}
        BY Zenon
      <4> HIDE DEF ends, J, V, size
      <4>3. QED
        BY <3>2, <4>1, <4>2, Zenon
    <3>3. QED
      BY <3>1, <3>2, Zenon
  <2> HIDE DEF ends, J, V, size
  <2>2. QED
    BY <2>1
<1>3. below = [t \in Nat |->
                 IF ends(t) THEN {} ELSE below[t - size(t)] \cup {<<t - size(t), size(t)>>}]
  <2> HIDE DEF ends, J, V, size
  <2>1. PICK f : f = [t \in Nat |-> IF J[t] = 0 THEN {} ELSE f[t - J[t]] \cup V[t]]
    BY <1>1, SolutionExists, Zenon
  <2>2. f = [t \in Nat |->
               IF ends(t) THEN {} ELSE f[t - size(t)] \cup {<<t - size(t), size(t)>>}]
    BY <2>1, <1>2, Zenon
  <2>3. QED
    BY <2>2, Zenon
<1> DEFINE S == {t \in Nat : RamBase <= t => \A C : Tiles(h.ram, C, t) => below[t] = C}
<1>4. ASSUME NEW t \in Nat, \A m \in 0 .. t - 1 : m \in S PROVE t \in S
  <2> HIDE DEF below
  <2>1. SUFFICES ASSUME RamBase <= t, NEW C, Tiles(h.ram, C, t) PROVE below[t] = C
    OBVIOUS
  <2>2. CASE t = RamBase
    <3>1. C = {}
      BY <2>1, <2>2, <1>0 DEF Tiles
    <3>2. below[t] = {}
      BY <1>3, <2>2, <1>0
    <3>3. QED
      BY <3>1, <3>2
  <2>3. CASE t # RamBase
    <3>1. PICK last \in C : last[1] + last[2] = t
      BY <2>1, <2>3 DEF Tiles
    <3>2. /\ last = <<last[1], last[2]>> /\ last[1] \in Int /\ last[2] \in Int
          /\ RamBase <= last[1] /\ 0 < last[2] /\ size(t) = last[2]
      BY <2>1, <3>1, <1>0 DEF Tiles
    <3>3. ~ends(t) /\ t - size(t) = last[1]
      BY <3>1, <3>2, <2>1, <2>3, <1>0
    <3>4. last[1] \in 0 .. t - 1
      BY <3>1, <3>2, <1>0
    <3>5. below[last[1]] = C \ {last}
      <4>1. Tiles(h.ram, C \ {last}, last[1])
        BY <2>1, <3>1, t \in Int, TilesBelow
      <4>2. last[1] \in S
        BY <1>4, <3>4
      <4>3. QED
        BY <4>1, <4>2, <3>2
    <3>6. below[t] = below[last[1]] \cup {<<last[1], last[2]>>}
      <4> HIDE DEF ends, size
      <4>1. below[t] = below[t - size(t)] \cup {<<t - size(t), size(t)>>}
        BY <1>3, <3>3
      <4>2. QED
        BY <4>1, <3>2, <3>3
    <3>7. QED
      BY <3>2, <3>5, <3>6
  <2>4. QED
    BY <2>2, <2>3
<1>5. h.temptop \in S
  <2> HIDE DEF S
  <2>1. QED
    BY <1>4, StrongInduction, Zenon
<1>6. TempBlocks(h) = below[h.temptop]
  BY Zenon DEF TempBlocks
<1>7. QED
  <2> HIDE DEF below
  <2>1. QED
    BY <1>5, <1>6

-----------------------------------------------------------------------------
(* The stack.                                                              *)

(* The cells of the stack lie between level 1 and the word before EDITLINE.*)
LEMMA StackCellsLie ==
  ASSUME NEW h \in Hp, h.dsktop + Word <= h.editline,
         NEW x \in StackCells(h)
  PROVE  x \in Int /\ h.dsktop <= x /\ x + 2 * Word <= h.editline
<1> DEFINE room == h.editline - h.dsktop
           q == room \div Word
<1>0. Word \in Nat \ {0} /\ h.dsktop \in Int /\ h.editline \in Int
  BY RplAssumption DEF Hp
<1>1. hp48_rpl_stack_depth(h) = q - 1
  BY <1>0 DEF hp48_rpl_stack_depth
<1>2. q \in Int /\ Word * q <= room
  BY <1>0
<1>3. PICK i \in 0 .. q - 2 : x = h.dsktop + Word * i
  BY <1>1, <1>2 DEF StackCells
<1>4. Word * i + 2 * Word <= Word * q /\ 0 <= Word * i /\ Word * i \in Int
  <2>1. Word * (q - 2 - i) \in Nat
    BY <1>0, <1>2, <1>3
  <2>2. Word * (q - 2 - i) = Word * q - 2 * Word - Word * i
    BY <1>0, <1>2, <1>3
  <2>3. QED
    BY <2>1, <2>2, <1>0, <1>2, <1>3
<1>5. QED
  BY <1>0, <1>2, <1>3, <1>4

(* One level more is one cell more, below the others.                      *)
LEMMA StackCellsGrow ==
  ASSUME NEW h \in Hp, NEW g \in Hp, h.dsktop + Word <= h.editline,
         g.dsktop = h.dsktop - Word, g.editline = h.editline
  PROVE  /\ StackCells(g) = {g.dsktop} \cup StackCells(h)
         /\ hp48_rpl_stack_depth(g) = hp48_rpl_stack_depth(h) + 1
         /\ hp48_rpl_stack_depth(h) \in Nat
<1> DEFINE room == h.editline - h.dsktop
           q == room \div Word
<1>0. /\ Word \in Nat \ {0} /\ h.dsktop \in Int /\ h.editline \in Int
      /\ g.dsktop \in Int /\ g.editline \in Int
  BY RplAssumption DEF Hp
<1>1. hp48_rpl_stack_depth(h) = q - 1
  BY <1>0 DEF hp48_rpl_stack_depth
<1>2. q \in Int /\ Word * q <= room /\ room < Word * q + Word
  BY <1>0
<1>3. q >= 1
  <2>1. SUFFICES ASSUME q <= 0 PROVE FALSE
    BY <1>2
  <2>2. Word * q <= 0
    BY <1>0, <1>2, <2>1
  <2>3. QED
    BY <1>0, <1>2, <2>2
<1>4. hp48_rpl_stack_depth(g) = q
  <2>1. (room + Word) \div Word = q + 1
    BY <1>0, <1>2
  <2>2. g.editline - g.dsktop = room + Word
    BY <1>0
  <2>3. QED
    BY <1>0, <2>1, <2>2 DEF hp48_rpl_stack_depth
<1> HIDE DEF q, room
<1>5. ASSUME NEW x \in StackCells(g) PROVE x \in {g.dsktop} \cup StackCells(h)
  <2>1. PICK i \in 0 .. q - 1 : x = g.dsktop + Word * i
    BY <1>4 DEF StackCells
  <2>2. CASE i = 0
    BY <2>1, <2>2, <1>0
  <2>3. CASE i # 0
    <3>1. i - 1 \in 0 .. q - 2 /\ x = h.dsktop + Word * (i - 1)
      BY <2>1, <2>3, <1>0, <1>2
    <3>2. QED
      BY <3>1, <1>1, <1>2 DEF StackCells
  <2>4. QED
    BY <2>2, <2>3
<1>6. ASSUME NEW x \in {g.dsktop} \cup StackCells(h) PROVE x \in StackCells(g)
  <2>1. CASE x = g.dsktop
    <3>1. 0 \in 0 .. q - 1 /\ x = g.dsktop + Word * 0
      BY <2>1, <1>0, <1>2, <1>3
    <3>2. QED
      BY <3>1, <1>4 DEF StackCells
  <2>2. CASE x \in StackCells(h)
    <3>1. PICK i \in 0 .. q - 2 : x = h.dsktop + Word * i
      BY <1>1, <1>2, <2>2 DEF StackCells
    <3>2. i + 1 \in 0 .. q - 1 /\ x = g.dsktop + Word * (i + 1)
      BY <3>1, <1>0, <1>2
    <3>3. QED
      BY <3>2, <1>4 DEF StackCells
  <2>3. QED
    BY <1>6, <2>1, <2>2
<1>7. QED
  BY <1>1, <1>2, <1>3, <1>4, <1>5, <1>6

(* The cells of the stack depend on where it begins and ends.              *)
LEMMA StackCellsSame ==
  ASSUME NEW h, NEW g, g.dsktop = h.dsktop, g.editline = h.editline
  PROVE  /\ StackCells(g) = StackCells(h)
         /\ hp48_rpl_stack_depth(g) = hp48_rpl_stack_depth(h)
BY Zenon DEF StackCells, hp48_rpl_stack_depth

-----------------------------------------------------------------------------
(* Memory in order.                                                        *)

(* Memory in order, with B for the blocks.                                 *)
Ordered(h, B) ==
  /\ h \in Hp
  /\ RamBase <= h.temptop /\ h.temptop <= h.rsktop /\ h.rsktop <= h.dsktop
  /\ h.dsktop + Word <= h.editline /\ h.editline < RamEnd
  /\ Tiles(h.ram, B, h.temptop)
  /\ \A x \in StackCells(h) : \E b \in B : h.ram[x] = b[1] + Marker
  /\ h.avmem = Free(h) \div Word

(* hp48_rpl_import_t                                                       *)
ImportRecord ==
  [active : BOOLEAN, object : Int, bytes : Int, written : Int, temptop : Int,
   rsktop : Int, dsktop : Int, avmem : Int, allocation : Int]

(* Between the begin and the end of an import: the return stack is still   *)
(* above the new block, and no level refers to that.                       *)
Underway(h, t, B) ==
  /\ h \in Hp
  /\ t.bytes \in Nat \ {0} /\ t.written \in 0 .. t.bytes
  /\ t \in ImportRecord
  /\ t.allocation = Allocation(t.bytes) /\ t.object = t.temptop + Marker
  /\ RamBase <= t.temptop /\ t.temptop <= t.rsktop
  /\ h.temptop = t.temptop + t.allocation /\ h.rsktop = t.rsktop + t.allocation
  /\ h.dsktop = t.dsktop /\ h.rsktop + Word <= h.dsktop
  /\ h.dsktop + Word <= h.editline /\ h.editline < RamEnd
  /\ Tiles(h.ram, B, t.temptop)
  /\ h.ram[h.temptop - Word] = t.allocation
  /\ \A x \in StackCells(h) : \E b \in B : h.ram[x] = b[1] + Marker
  /\ h.avmem = Free(h) \div Word
  /\ t.avmem = (t.dsktop - t.rsktop) \div Word

(* What the HP shows in g is what it shows in h: as many levels, each the  *)
(* same object, and the same return stack.                                 *)
Keeps(h, B, g, C) ==
  /\ g.dsktop = h.dsktop /\ g.editline = h.editline
  /\ g.rsktop - g.temptop = h.rsktop - h.temptop
  /\ \A i \in 0 .. h.rsktop - h.temptop - 1 : g.ram[g.temptop + i] = h.ram[h.temptop + i]
  /\ \A x \in StackCells(h) : \E b \in B, c \in C :
       /\ h.ram[x] = b[1] + Marker /\ g.ram[x] = c[1] + Marker /\ c[2] = b[2]
       /\ \A i \in Marker .. b[2] - Word - 1 : g.ram[c[1] + i] = h.ram[b[1] + i]

(* Blocks depend on the cells below their top only.                        *)
LEMMA TilesFrame ==
  ASSUME NEW ram, NEW other, NEW B, NEW top \in Int, Tiles(ram, B, top),
         \A x \in Int : RamBase <= x /\ x < top => other[x] = ram[x]
  PROVE  Tiles(other, B, top)
<1>0. Word \in Nat \ {0} /\ Marker \in Nat \ {0} /\ RamBase \in Nat
  BY RplAssumption
<1>1. ASSUME NEW b \in B PROVE other[b[1] + b[2] - Word] = b[2]
  <2>1. /\ b[1] \in Int /\ b[2] \in Int /\ RamBase <= b[1] /\ Marker + Word <= b[2]
        /\ b[1] + b[2] <= top /\ ram[b[1] + b[2] - Word] = b[2]
    BY DEF Tiles
  <2>2. /\ b[1] + b[2] - Word \in Int
        /\ RamBase <= b[1] + b[2] - Word /\ b[1] + b[2] - Word < top
    BY <2>1, <1>0
  <2>3. QED
    BY <2>1, <2>2
<1>2. QED
  BY <1>1 DEF Tiles

(* One block more above the others.                                        *)
LEMMA TilesAbove ==
  ASSUME NEW ram, NEW B, NEW top \in Int, RamBase <= top, Tiles(ram, B, top),
         NEW n \in Int, Marker + Word <= n, ram[top + n - Word] = n
  PROVE  Tiles(ram, B \cup {<<top, n>>}, top + n)
<1> DEFINE new == <<top, n>>
<1>0. Word \in Nat \ {0} /\ Marker \in Nat \ {0} /\ RamBase \in Nat
  BY RplAssumption
<1>1. new[1] = top /\ new[2] = n /\ new \in Int \X Int
  OBVIOUS
<1> HIDE DEF new
<1>2. ASSUME NEW b \in B \cup {new}
      PROVE  /\ RamBase <= b[1] /\ Marker + Word <= b[2] /\ b[1] + b[2] <= top + n
             /\ ram[b[1] + b[2] - Word] = b[2]
  <2>1. CASE b \in B
    BY <2>1, <1>0 DEF Tiles
  <2>2. CASE b = new
    BY <2>2, <1>1
  <2>3. QED
    BY <2>1, <2>2
<1>3. ASSUME NEW b \in B \cup {new}, NEW c \in B \cup {new}
      PROVE  b = c \/ b[1] + b[2] <= c[1] \/ c[1] + c[2] <= b[1]
  BY <1>1 DEF Tiles
<1>4. ASSUME NEW b \in B \cup {new}
      PROVE  b[1] = RamBase \/ \E c \in B \cup {new} : c[1] + c[2] = b[1]
  <2>1. CASE b \in B
    BY <2>1 DEF Tiles
  <2>2. CASE b = new
    BY <2>2, <1>1 DEF Tiles
  <2>3. QED
    BY <2>1, <2>2
<1>5. \E b \in B \cup {new} : b[1] + b[2] = top + n
  BY <1>1
<1>6. B \cup {new} \subseteq Int \X Int
  BY <1>1 DEF Tiles
<1>7. Tiles(ram, B \cup {new}, top + n)
  BY <1>2, <1>3, <1>4, <1>5, <1>6 DEF Tiles
<1>8. QED
  BY <1>7 DEF new

(* The constants, as the arithmetic needs them.                            *)
LEMMA Sizes ==
  /\ Word \in Int /\ 1 < Word /\ Marker \in Int /\ 0 < Marker
  /\ RamBase \in Int /\ 0 < RamBase /\ RamEnd \in Int /\ RamBase < RamEnd
BY RplAssumption

(* Where everything lies while an import is under way.                     *)
LEMMA UnderwayTypes ==
  ASSUME NEW h, NEW t, NEW B, Underway(h, t, B)
  PROVE  /\ h.temptop \in Int /\ h.rsktop \in Int /\ h.dsktop \in Int /\ h.editline \in Int
         /\ t.bytes \in Int /\ 0 < t.bytes /\ t.written \in Int /\ 0 <= t.written
         /\ t.temptop \in Int /\ t.rsktop \in Int
         /\ t.object \in Int /\ t.allocation \in Int
<1>1. /\ h.temptop \in Int /\ h.rsktop \in Int /\ h.dsktop \in Int /\ h.editline \in Int
  BY DEF Underway, Hp
<1>2. t.temptop \in Int /\ t.rsktop \in Int /\ t.object \in Int /\ t.allocation \in Int
  BY DEF Underway, ImportRecord
<1>3. t.bytes \in Int /\ 0 < t.bytes /\ t.written \in Int /\ 0 <= t.written
  BY DEF Underway
<1>4. QED
  BY <1>1, <1>2, <1>3

LEMMA UnderwayLies ==
  ASSUME NEW h, NEW t, NEW B, Underway(h, t, B)
  PROVE  /\ t.object = t.temptop + Marker /\ RamBase <= t.temptop /\ t.temptop <= t.rsktop
         /\ t.allocation = 2 * t.bytes + Marker + Word
         /\ h.temptop = t.temptop + t.allocation /\ h.rsktop = t.rsktop + t.allocation
         /\ h.rsktop + Word <= h.dsktop /\ h.dsktop + Word <= h.editline /\ h.editline < RamEnd
BY DEF Underway, Allocation

(* Memory in order is what the invariant says of it.                       *)
LEMMA OrderedIsInOrder ==
  ASSUME NEW h, NEW B, Ordered(h, B)
  PROVE  TempBlocks(h) = B /\ InOrder(h)
<1>1. h.temptop \in Nat /\ RamBase <= h.temptop
  BY RplAssumption DEF Ordered, Hp
<1>2. TempBlocks(h) = B
  BY <1>1, WalkFinds DEF Ordered
<1>3. \A p \in Pointers(h) : \E b \in B : p = b[1] + Marker
  BY DEF Ordered, Pointers
<1>4. QED
  BY <1>2, <1>3 DEF Ordered, InOrder

LEMMA UnderwayIsInOrder ==
  ASSUME NEW h, NEW t, NEW B, Underway(h, t, B)
  PROVE  /\ Ordered(h, B \cup {<<t.temptop, t.allocation>>})
         /\ <<t.temptop, t.allocation>> \notin B
<1> DEFINE new == <<t.temptop, t.allocation>>
<1>0. /\ Word \in Int /\ 1 < Word /\ Marker \in Int /\ 0 < Marker
      /\ RamBase \in Int /\ 0 < RamBase /\ RamEnd \in Int
  BY Sizes
<1>1. /\ t.temptop \in Int /\ t.allocation \in Int /\ Marker + Word <= t.allocation
      /\ RamBase <= t.temptop /\ h.temptop = t.temptop + t.allocation
  BY <1>0, UnderwayTypes, UnderwayLies
<1>2. Tiles(h.ram, B \cup {new}, h.temptop)
  <2>1. h.ram[t.temptop + t.allocation - Word] = t.allocation
    <3>1. h.ram[h.temptop - Word] = t.allocation
      BY Zenon DEF Underway
    <3>2. h.temptop - Word = t.temptop + t.allocation - Word
      BY <1>1, <1>0
    <3>3. QED
      BY <3>1, <3>2, Zenon
  <2>2. QED
    BY <1>1, <2>1, TilesAbove DEF Underway
<1>3. \A x \in StackCells(h) : \E b \in B \cup {new} : h.ram[x] = b[1] + Marker
  BY DEF Underway
<1>4. /\ h \in Hp /\ RamBase <= h.temptop /\ h.temptop <= h.rsktop /\ h.rsktop <= h.dsktop
      /\ h.dsktop + Word <= h.editline /\ h.editline < RamEnd
      /\ h.avmem = Free(h) \div Word
  <2>1. RamBase <= h.temptop /\ h.temptop <= h.rsktop /\ h.rsktop <= h.dsktop
    BY <1>0, UnderwayTypes, UnderwayLies
  <2>2. QED
    BY <2>1, Zenon DEF Underway
<1>5. new \notin B
  <2>1. SUFFICES ASSUME new \in B PROVE FALSE
    OBVIOUS
  <2>2. new[1] + new[2] <= t.temptop
    BY <2>1, Zenon DEF Underway, Tiles
  <2>3. QED
    BY <2>2, <1>0, <1>1
<1>6. QED
  BY <1>2, <1>3, <1>4, <1>5 DEF Ordered

-----------------------------------------------------------------------------
(* The steps of an import.                                                 *)

(* A word in the RAM.                                                      *)
LEMMA Write5Is ==
  ASSUME NEW ram \in [Addr -> Cell], NEW a \in Int, NEW value \in Nat
  PROVE  /\ Write5(ram, a, value) \in [Addr -> Cell]
         /\ a \in Addr => Write5(ram, a, value)[a] = value
         /\ \A x \in Addr : x < a \/ a + Word <= x => Write5(ram, a, value)[x] = ram[x]
<1>0. Word \in Nat \ {0} /\ Addr \subseteq Int
  BY RplAssumption DEF Addr
<1>1. DOMAIN ram = Addr
  OBVIOUS
<1>2. ASSUME NEW x \in Addr PROVE Write5(ram, a, value)[x] \in Cell
  BY <1>1 DEF Write5, Cell, Rest
<1>3. ASSUME NEW x \in Addr, x < a \/ a + Word <= x
      PROVE  Write5(ram, a, value)[x] = ram[x]
  BY <1>0, <1>1, <1>3 DEF Write5
<1>4. Write5(ram, a, value) \in [Addr -> Cell]
  BY <1>1, <1>2 DEF Write5
<1>5. QED
  BY <1>1, <1>3, <1>4 DEF Write5

(* What a moved RAM holds.                                                 *)
LEMMA MovedIs ==
  ASSUME NEW ram \in [Addr -> Cell], NEW from \in Int, NEW n \in Int, NEW to \in Int,
         RamBase <= from, from + n <= RamEnd
  PROVE  /\ Moved(ram, from, n, to) \in [Addr -> Cell]
         /\ \A x \in Addr : x < to \/ to + n <= x => Moved(ram, from, n, to)[x] = ram[x]
         /\ \A x \in Addr : to <= x /\ x < to + n =>
              Moved(ram, from, n, to)[x] = ram[x - to + from]
<1>0. RamBase \in Nat /\ RamEnd \in Nat
  BY RplAssumption
<1>1. ASSUME NEW x \in Addr, to <= x, x < to + n
      PROVE  x - to + from \in Addr /\ Moved(ram, from, n, to)[x] = ram[x - to + from]
  BY <1>0, <1>1 DEF Moved, Addr
<1>2. ASSUME NEW x \in Addr, x < to \/ to + n <= x
      PROVE  Moved(ram, from, n, to)[x] = ram[x]
  BY <1>0, <1>2 DEF Moved, Addr
<1>3. ASSUME NEW x \in Addr PROVE Moved(ram, from, n, to)[x] \in Cell
  BY <1>0, <1>1, <1>2 DEF Addr
<1>4. Moved(ram, from, n, to) \in [Addr -> Cell]
  BY <1>3 DEF Moved
<1>5. QED
  BY <1>1, <1>2, <1>4

(* The begin of an import puts a block under the return stack.             *)
LEMMA AllocatedIs ==
  ASSUME NEW h, NEW B, Ordered(h, B), NEW n \in Nat, Marker + Word <= n, n <= Free(h)
  PROVE  LET g == Allocated(h, n)
         IN /\ g \in Hp
            /\ g.temptop = h.temptop + n /\ g.rsktop = h.rsktop + n
            /\ g.dsktop = h.dsktop /\ g.editline = h.editline
            /\ g.avmem = Free(g) \div Word
            /\ g.ram[h.temptop + n - Word] = n
            /\ \A x \in Addr : x < h.temptop \/ h.rsktop + n <= x => g.ram[x] = h.ram[x]
            /\ \A i \in 0 .. h.rsktop - h.temptop - 1 :
                 g.ram[g.temptop + i] = h.ram[h.temptop + i]
<1> DEFINE a == h.temptop
           b == h.rsktop
           moved == CopyUp(h.ram, a, b - a, n)
           w == a + n - Word
           ram == Write5(moved, w, n)
           av == (Free(h) - n) \div Word
           g == Allocated(h, n)
<1>0. Word \in Nat \ {0} /\ Marker \in Nat \ {0} /\ RamBase \in Nat \ {0} /\ RamEnd \in Nat
  BY RplAssumption
<1>1. /\ h \in Hp /\ h.ram \in [Addr -> Cell] /\ a \in Int /\ b \in Int
      /\ h.dsktop \in Int /\ h.editline \in Int
      /\ RamBase <= a /\ a <= b /\ b + n <= h.dsktop /\ h.dsktop < RamEnd
  BY <1>0 DEF Ordered, Hp, Free
<1>2. moved = Moved(h.ram, a, b - a, a + n)
  <2>1. b - a \in Nat /\ a + (b - a) + n <= RamEnd
    BY <1>0, <1>1
  <2>2. QED
    BY <2>1, <1>1, CopyUpIs
<1>3. /\ moved \in [Addr -> Cell]
      /\ \A x \in Addr : x < a + n \/ b + n <= x => moved[x] = h.ram[x]
      /\ \A x \in Addr : a + n <= x /\ x < b + n => moved[x] = h.ram[x - n]
  <2>1. a + (b - a) <= RamEnd /\ a + n \in Int /\ b - a \in Int /\ (a + n) + (b - a) = b + n
    BY <1>0, <1>1
  <2>2. \A x \in Addr : x - (a + n) + a = x - n
    BY <1>0, <1>1 DEF Addr
  <2>3. QED
    BY <1>1, <1>2, <2>1, <2>2, MovedIs
<1> HIDE DEF moved
<1>9. w \in Int /\ w \in Addr /\ w + Word = a + n
  BY <1>0, <1>1 DEF Addr
<1> HIDE DEF w
<1>4. /\ ram \in [Addr -> Cell] /\ ram[w] = n
      /\ \A x \in Addr : x < w \/ a + n <= x => ram[x] = moved[x]
  BY <1>3, <1>9, Write5Is
<1> HIDE DEF ram
<1>5. /\ g.ram = ram /\ g.temptop = a + n /\ g.rsktop = b + n
      /\ g.dsktop = h.dsktop /\ g.editline = h.editline
      /\ g.avmem = av /\ g \in Hp
  <2>1. g = [h EXCEPT !.ram = ram, !.temptop = a + n, !.rsktop = b + n, !.avmem = av]
    BY Zenon DEF Allocated, ram, moved, w
  <2>2. av \in Int
    BY <1>0, <1>1 DEF Free
  <2>3. a + n \in Int /\ b + n \in Int
    BY <1>1
  <2> HIDE DEF g, a, b, av
  <2>4. QED
    BY <1>1, <1>4, <2>1, <2>2, <2>3 DEF Hp
<1> HIDE DEF g
<1>6. Free(g) = Free(h) - n
  BY <1>1, <1>5 DEF Free
<1>7. ASSUME NEW x \in Addr, x < a \/ b + n <= x PROVE ram[x] = h.ram[x]
  <2>1. x \in Int /\ (x < w \/ a + n <= x) /\ (x < a + n \/ b + n <= x)
    BY <1>0, <1>1, <1>7, <1>9 DEF Addr
  <2>2. QED
    BY <2>1, <1>3, <1>4
<1>8. ASSUME NEW i \in 0 .. b - a - 1 PROVE ram[a + n + i] = h.ram[a + i]
  <2> DEFINE x == a + n + i
  <2>0. i \in Int /\ 0 <= i /\ i < b - a
    BY <1>1
  <2> HIDE DEF a, b
  <2>4. x \in Int /\ a + n <= x /\ x < b + n /\ x - n = a + i
    BY <1>1, <2>0
  <2> HIDE DEF x
  <2>1. x \in Addr /\ a + n <= x /\ x < b + n /\ x - n = a + i
    BY <1>0, <1>1, <2>4 DEF Addr
  <2>2. ram[x] = h.ram[a + i]
    BY <2>1, <1>3, <1>4
  <2>3. QED
    BY <2>2 DEF x
<1>10. QED
  BY <1>4, <1>5, <1>6, <1>7, <1>8 DEF g, w, av

(* The step from h to g leaves the blocks below top and the stack alone    *)
(* and moves the return stack as a whole.                                  *)
Untouched(h, g, B, top) ==
  /\ h \in Hp /\ g \in Hp /\ top \in Int
  /\ h.dsktop + Word <= h.editline /\ h.editline < RamEnd
  /\ g.dsktop = h.dsktop /\ g.editline = h.editline
  /\ RamBase <= h.dsktop /\ top <= h.dsktop /\ Tiles(h.ram, B, top)
  /\ \A x \in StackCells(h) : \E b \in B : h.ram[x] = b[1] + Marker
  /\ \A x \in Addr : x < top \/ h.dsktop <= x => g.ram[x] = h.ram[x]
  /\ g.rsktop - g.temptop = h.rsktop - h.temptop
  /\ \A i \in 0 .. h.rsktop - h.temptop - 1 : g.ram[g.temptop + i] = h.ram[h.temptop + i]

(* A stack that refers to blocks untouched by a step still does.           *)
LEMMA KeepsBelow ==
  ASSUME NEW h, NEW g, NEW B, NEW top, Untouched(h, g, B, top)
  PROVE  /\ Keeps(h, B, g, B)
         /\ Tiles(g.ram, B, top)
         /\ \A x \in StackCells(g) : \E b \in B : g.ram[x] = b[1] + Marker
<1> USE DEF Untouched
<1>0. /\ Word \in Nat \ {0} /\ Marker \in Nat \ {0} /\ RamBase \in Nat \ {0} /\ RamEnd \in Nat
      /\ h.dsktop \in Int /\ h.editline \in Int /\ h \in Hp /\ top \in Int
  BY RplAssumption DEF Hp
<1>1. StackCells(g) = StackCells(h)
  BY StackCellsSame
<1>2. ASSUME NEW x \in StackCells(h) PROVE g.ram[x] = h.ram[x]
  <2>1. x \in Int /\ h.dsktop <= x /\ x + 2 * Word <= h.editline
    BY StackCellsLie
  <2>2. x \in Addr
    BY <2>1, <1>0 DEF Addr
  <2>3. QED
    BY <2>1, <2>2
<1>3. Tiles(g.ram, B, top)
  <2>1. \A x \in Int : RamBase <= x /\ x < top => x \in Addr
    BY <1>0 DEF Addr
  <2>2. \A x \in Int : RamBase <= x /\ x < top => g.ram[x] = h.ram[x]
    BY <2>1
  <2>3. QED
    BY <2>2, TilesFrame
<1>4. ASSUME NEW x \in StackCells(h), NEW b \in B, h.ram[x] = b[1] + Marker,
             NEW i \in Marker .. b[2] - Word - 1
      PROVE  g.ram[b[1] + i] = h.ram[b[1] + i]
  <2>1. b[1] \in Int /\ b[2] \in Int /\ RamBase <= b[1] /\ b[1] + b[2] <= top
    BY Zenon DEF Tiles
  <2>2. b[1] + i \in Addr /\ b[1] + i < top
    BY <1>0, <2>1 DEF Addr
  <2>3. QED
    BY <2>2
<1>5. Keeps(h, B, g, B)
  <2>1. ASSUME NEW x \in StackCells(h)
        PROVE  \E b \in B, c \in B :
                 /\ h.ram[x] = b[1] + Marker /\ g.ram[x] = c[1] + Marker /\ c[2] = b[2]
                 /\ \A i \in Marker .. b[2] - Word - 1 : g.ram[c[1] + i] = h.ram[b[1] + i]
    BY <1>2, <1>4
  <2>2. QED
    BY <2>1 DEF Keeps
<1>6. QED
  BY <1>1, <1>2, <1>3, <1>5

LEMMA BeginAccepts ==
  ASSUME NEW h, NEW B, Ordered(h, B), NEW bytes \in Nat \ {0},
         Fits(h, Allocation(bytes))
  PROVE  /\ Underway(Accepted(h, bytes).hp, Accepted(h, bytes).transfer, B)
         /\ Keeps(h, B, Accepted(h, bytes).hp, B)
<1> DEFINE n == Allocation(bytes)
           g == Allocated(h, n)
           t == Accepted(h, bytes).transfer
           r == [active |-> TRUE, object |-> h.temptop + Marker, bytes |-> bytes,
                 written |-> 0, temptop |-> h.temptop, rsktop |-> h.rsktop,
                 dsktop |-> h.dsktop, avmem |-> h.avmem, allocation |-> n]
<1>0. Word \in Nat \ {0} /\ Marker \in Nat \ {0} /\ RamBase \in Nat \ {0} /\ RamEnd \in Nat
  BY RplAssumption
<1>1. n \in Nat /\ Marker + Word <= n
  BY <1>0 DEF Allocation
<1>2. /\ t.bytes = bytes /\ t.written = 0 /\ t.temptop = h.temptop /\ t.rsktop = h.rsktop
      /\ t.dsktop = h.dsktop /\ t.avmem = h.avmem /\ t.allocation = n
      /\ t.object = h.temptop + Marker /\ Accepted(h, bytes).hp = g
      /\ t = r
  BY DEF Accepted, Outcome
<1> HIDE DEF t
<1>3. /\ h \in Hp /\ h.temptop \in Int /\ h.rsktop \in Int /\ h.dsktop \in Int
      /\ h.editline \in Int /\ RamBase <= h.temptop /\ h.temptop <= h.rsktop
      /\ h.rsktop + n + Word <= h.dsktop /\ h.dsktop + Word <= h.editline
      /\ h.editline < RamEnd /\ n <= Free(h) /\ h.avmem = (h.dsktop - h.rsktop) \div Word
  BY <1>0, <1>1 DEF Ordered, Hp, Free, Fits
<1> HIDE DEF n
<1>4. /\ g \in Hp
      /\ g.temptop = h.temptop + n /\ g.rsktop = h.rsktop + n
      /\ g.dsktop = h.dsktop /\ g.editline = h.editline
      /\ g.avmem = Free(g) \div Word
      /\ g.ram[h.temptop + n - Word] = n
      /\ \A x \in Addr : x < h.temptop \/ h.rsktop + n <= x => g.ram[x] = h.ram[x]
      /\ \A i \in 0 .. h.rsktop - h.temptop - 1 : g.ram[g.temptop + i] = h.ram[h.temptop + i]
  BY <1>1, <1>3, AllocatedIs
<1> HIDE DEF g
<1>5. /\ Keeps(h, B, g, B)
      /\ Tiles(g.ram, B, h.temptop)
      /\ \A x \in StackCells(g) : \E b \in B : g.ram[x] = b[1] + Marker
  <2>1. \A x \in Addr : x < h.temptop \/ h.dsktop <= x => g.ram[x] = h.ram[x]
    BY <1>0, <1>1, <1>3, <1>4 DEF Addr
  <2>2. g.rsktop - g.temptop = h.rsktop - h.temptop /\ RamBase <= h.dsktop
        /\ h.temptop <= h.dsktop
    BY <1>0, <1>1, <1>3, <1>4
  <2>3. Tiles(h.ram, B, h.temptop) /\ \A x \in StackCells(h) : \E b \in B : h.ram[x] = b[1] + Marker
    BY DEF Ordered
  <2>4. Untouched(h, g, B, h.temptop)
    BY <2>1, <2>2, <2>3, <1>3, <1>4 DEF Untouched
  <2>5. QED
    BY <2>4, KeepsBelow
<1>6. g.ram[g.temptop - Word] = n
  <2>1. g.temptop - Word = h.temptop + n - Word
    BY <1>0, <1>1, <1>3, <1>4
  <2>2. QED
    BY <2>1, <1>4
<1>7. Underway(g, t, B)
  <2>1. g.rsktop + Word <= g.dsktop
    BY <1>0, <1>1, <1>3, <1>4
  <2>2. 0 \in 0 .. bytes
    OBVIOUS
  <2>3. t \in ImportRecord
    <3>1. h.avmem \in Int
      BY <1>3 DEF Hp
    <3>2. r \in ImportRecord
      BY <3>1, <1>0, <1>1, <1>3 DEF ImportRecord
    <3>3. QED
      BY <3>2, <1>2, Zenon
  <2> HIDE DEF r
  <2>4. QED
    BY <1>2, <1>3, <1>4, <1>5, <1>6, <2>1, <2>2, <2>3 DEF Underway, n
<1>8. QED
  BY <1>2, <1>5, <1>7, Zenon DEF t

(* What a write of the next cells leaves.                                  *)
LEMMA WriteKeeps ==
  ASSUME NEW h, NEW t, NEW B, Underway(h, t, B), NEW w \in Nat, t.written + w <= t.bytes,
         NEW cells \in Seq(Cell), Len(cells) = 2 * w
  PROVE  LET o == ImportWrite(h, t, cells)
             at == t.object + 2 * t.written
         IN /\ Underway(o.hp, o.transfer, B)
            /\ Keeps(h, B, o.hp, B)
            /\ o.transfer = [t EXCEPT !.written = t.written + w]
            /\ \A i \in 1 .. 2 * w : o.hp.ram[at + i - 1] = cells[i]
            /\ \A x \in Addr : x < at \/ at + 2 * w <= x => o.hp.ram[x] = h.ram[x]
<1> DEFINE at == t.object + 2 * t.written
           tt == t.temptop
           tr == t.rsktop
           tb == t.bytes
           tw == t.written
           al == t.allocation
           ob == t.object
           ht == h.temptop
           hr == h.rsktop
           hd == h.dsktop
           he == h.editline
           ram == [x \in Addr |-> IF x \in at .. at + Len(cells) - 1
                                  THEN cells[x - at + 1] ELSE h.ram[x]]
           g == [h EXCEPT !.ram = ram]
           s == [t EXCEPT !.written = tw + Len(cells) \div 2]
           o == ImportWrite(h, t, cells)
<1>0. /\ Word \in Int /\ 1 < Word /\ Marker \in Int /\ 0 < Marker
      /\ RamBase \in Int /\ 0 < RamBase /\ RamEnd \in Int
  BY Sizes
<1>1. o.hp = g /\ o.transfer = s
  BY DEF ImportWrite, Outcome
<1>2. h \in Hp /\ h.ram \in [Addr -> Cell] /\ t \in ImportRecord
  BY DEF Underway, Hp
<1>3. /\ tt \in Int /\ tr \in Int /\ tb \in Int /\ tw \in Int /\ 0 <= tw /\ 0 < tb
      /\ al \in Int /\ ob \in Int /\ ht \in Int /\ hr \in Int /\ hd \in Int /\ he \in Int
  BY UnderwayTypes
<1>4. /\ ob = tt + Marker /\ RamBase <= tt /\ tt <= tr /\ al = 2 * tb + Marker + Word
      /\ ht = tt + al /\ hr = tr + al /\ hr + Word <= hd /\ hd + Word <= he /\ he < RamEnd
  BY UnderwayLies
<1>5. at = ob + 2 * tw /\ tw + w <= tb
  OBVIOUS
<1>6. Len(cells) = 2 * w /\ Len(cells) \div 2 = w
  OBVIOUS
<1>7. /\ h.temptop = ht /\ h.rsktop = hr /\ h.dsktop = hd /\ h.editline = he
      /\ t.temptop = tt /\ t.written = tw /\ t.bytes = tb /\ t.allocation = al
  OBVIOUS
<1> HIDE DEF at, tt, tr, tb, tw, al, ob, ht, hr, hd, he
<1>8. /\ at \in Int /\ tt < at /\ at + 2 * w + Word <= ht
      /\ RamBase <= tt /\ ht <= hr /\ hr + Word <= hd /\ hd < RamEnd
      /\ RamBase < ht /\ tt < ht
      /\ tw + w \in 0 .. tb
  BY <1>0, <1>3, <1>4, <1>5
<1>9. /\ ram \in [Addr -> Cell]
      /\ \A i \in 1 .. 2 * w : ram[at + i - 1] = cells[i]
      /\ \A x \in Addr : x < at \/ at + 2 * w <= x => ram[x] = h.ram[x]
  <2>1. ASSUME NEW x \in Addr PROVE ram[x] \in Cell
    <3>1. CASE x \in at .. at + Len(cells) - 1
      <4>1. x - at + 1 \in 1 .. Len(cells)
        BY <3>1, <1>6, <1>8
      <4>2. cells[x - at + 1] \in Cell
        BY <4>1, ElementOfSeq
      <4>3. QED
        BY <3>1, <4>2
    <3>2. CASE x \notin at .. at + Len(cells) - 1
      BY <3>2, <1>2
    <3>3. QED
      BY <3>1, <3>2
  <2>2. ASSUME NEW i \in 1 .. 2 * w PROVE ram[at + i - 1] = cells[i]
    <3> DEFINE x == at + i - 1
    <3>1. x \in Addr /\ x \in at .. at + Len(cells) - 1 /\ x - at + 1 = i
      BY <1>0, <1>3, <1>6, <1>8 DEF Addr
    <3> HIDE DEF x
    <3>2. ram[x] = cells[x - at + 1]
      BY <3>1
    <3>3. ram[x] = cells[i]
      BY <3>1, <3>2, Zenon
    <3>4. QED
      BY <3>3 DEF x
  <2>3. ASSUME NEW x \in Addr, x < at \/ at + 2 * w <= x PROVE ram[x] = h.ram[x]
    <3>1. x \notin at .. at + Len(cells) - 1
      BY <1>0, <1>6, <1>8, <2>3 DEF Addr
    <3>2. QED
      BY <3>1
  <2>4. QED
    BY <2>1, <2>2, <2>3
<1> HIDE DEF ram
<1>10. /\ g \in Hp /\ g.ram = ram /\ g.temptop = ht /\ g.rsktop = hr
       /\ g.dsktop = hd /\ g.editline = he /\ g.avmem = h.avmem
  BY <1>2, <1>7, <1>9 DEF Hp
<1>11. s = [t EXCEPT !.written = tw + w]
  BY <1>6
<1>12. ASSUME NEW x \in Addr, x < tt \/ ht - Word <= x PROVE g.ram[x] = h.ram[x]
  <2>1. x \in Int
    BY <1>0 DEF Addr
  <2>2. x < at \/ at + 2 * w <= x
    BY <1>0, <1>3, <1>8, <1>12, <2>1
  <2>3. QED
    BY <2>2, <1>9, <1>10
<1> HIDE DEF g, s, o
<1>13. Untouched(h, g, B, tt)
  <2>1. ASSUME NEW x \in Addr, x < tt \/ hd <= x PROVE g.ram[x] = h.ram[x]
    <3>1. x < tt \/ ht - Word <= x
      BY <1>0, <1>3, <1>8, <2>1 DEF Addr
    <3>2. QED
      BY <3>1, <1>12
  <2>2. RamBase <= hd /\ tt <= hd /\ hd + Word <= he /\ he < RamEnd
    BY <1>0, <1>3, <1>4, <1>8
  <2>3. ASSUME NEW i \in 0 .. hr - ht - 1 PROVE g.ram[ht + i] = h.ram[ht + i]
    <3>1. ht + i \in Addr /\ ht - Word <= ht + i
      BY <1>0, <1>3, <1>8 DEF Addr
    <3>2. QED
      BY <3>1, <1>12
  <2>4. Tiles(h.ram, B, tt) /\ \A x \in StackCells(h) : \E b \in B : h.ram[x] = b[1] + Marker
    BY <1>7 DEF Underway
  <2>5. QED
    BY <2>1, <2>2, <2>3, <2>4, <1>2, <1>3, <1>7, <1>10, Zenon DEF Untouched
<1>14. /\ Keeps(h, B, g, B) /\ Tiles(g.ram, B, tt)
       /\ \A x \in StackCells(g) : \E b \in B : g.ram[x] = b[1] + Marker
  BY <1>13, KeepsBelow
<1>15. g.ram[ht - Word] = al
  <2>1. ht - Word \in Addr /\ ht - Word <= ht - Word
    BY <1>0, <1>3, <1>4, <1>8 DEF Addr
  <2>2. h.ram[ht - Word] = al
    BY <1>7, Zenon DEF Underway
  <2>3. QED
    BY <2>1, <2>2, <1>12
<1>16. /\ s.bytes = t.bytes /\ s.temptop = t.temptop /\ s.rsktop = t.rsktop
       /\ s.allocation = t.allocation /\ s.object = t.object /\ s.dsktop = t.dsktop
       /\ s.avmem = t.avmem /\ s.written = tw + w
       /\ s \in ImportRecord
  <2>1. tw + w \in Int
    BY <1>3
  <2>2. QED
    BY <2>1, <1>2, <1>11 DEF ImportRecord
<1>17. Underway(g, s, B)
  <2>1. Free(g) = Free(h)
    BY <1>7, <1>10, Zenon DEF Free
  <2>2. s.written \in 0 .. s.bytes
    BY <1>7, <1>8, <1>16, Zenon
  <2>3. g.ram[g.temptop - Word] = s.allocation
    BY <1>7, <1>10, <1>15, <1>16, Zenon
  <2>4. QED
    BY <1>7, <1>10, <1>14, <1>16, <2>1, <2>2, <2>3, Zenon DEF Underway
<1>18. o.hp.ram = ram
  BY <1>1, <1>10
<1>19. QED
  BY <1>1, <1>7, <1>9, <1>11, <1>14, <1>17, <1>18, Zenon DEF o, at

(* An import that is aborted leaves what was there before it.              *)
LEMMA AbortRestores ==
  ASSUME NEW h, NEW t, NEW B, Underway(h, t, B), NEW result
  PROVE  LET o == ImportAbort(h, t, result)
         IN /\ Ordered(o.hp, B) /\ Keeps(h, B, o.hp, B)
            /\ o.transfer = NoTransfer /\ o.status = result
<1> DEFINE tt == t.temptop
           tr == t.rsktop
           tb == t.bytes
           al == t.allocation
           ht == h.temptop
           hr == h.rsktop
           hd == h.dsktop
           he == h.editline
           av == t.avmem
           down == CopyDown(h.ram, tt, tr - tt, al)
           g == [h EXCEPT !.ram = down, !.temptop = tt, !.rsktop = tr, !.dsktop = hd,
                          !.avmem = av]
           o == ImportAbort(h, t, result)
<1>0. /\ Word \in Int /\ 1 < Word /\ Marker \in Int /\ 0 < Marker
      /\ RamBase \in Int /\ 0 < RamBase /\ RamEnd \in Int
  BY Sizes
<1>1. o.hp = g /\ o.transfer = NoTransfer /\ o.status = result
  <2>1. t.dsktop = h.dsktop
    BY Zenon DEF Underway
  <2>2. QED
    BY <2>1 DEF ImportAbort, Outcome
<1>2. h \in Hp /\ h.ram \in [Addr -> Cell]
  BY DEF Underway, Hp
<1>3. /\ tt \in Int /\ tr \in Int /\ tb \in Int /\ 0 < tb /\ al \in Int
      /\ ht \in Int /\ hr \in Int /\ hd \in Int /\ he \in Int
  BY UnderwayTypes
<1>4. /\ RamBase <= tt /\ tt <= tr /\ al = 2 * tb + Marker + Word
      /\ ht = tt + al /\ hr = tr + al /\ hr + Word <= hd /\ hd + Word <= he /\ he < RamEnd
  BY UnderwayLies
<1>5. /\ h.temptop = ht /\ h.rsktop = hr /\ h.dsktop = hd /\ h.editline = he
  OBVIOUS
<1>6. av \in Int /\ av = (hd - tr) \div Word
  <2>1. t.dsktop = h.dsktop
    BY Zenon DEF Underway
  <2>2. av = (hd - tr) \div Word
    BY <2>1, Zenon DEF Underway
  <2>3. QED
    BY <2>2, <1>0, <1>3
<1> HIDE DEF tt, tr, tb, al, ht, hr, hd, he, av
<1>7. /\ tr - tt \in Nat /\ al \in Nat /\ tt + (tr - tt) + al <= RamEnd
      /\ (tt + al) + (tr - tt) <= RamEnd
      /\ tt <= ht /\ tr <= hd /\ RamBase <= hd /\ tt <= hd
      /\ tt + al \in Int /\ tr - tt \in Int /\ RamBase <= tt + al
      /\ tr - tt = hr - ht
  BY <1>0, <1>3, <1>4
<1>8. down = Moved(h.ram, tt + al, tr - tt, tt)
  <2> DEFINE ram == h.ram
             k == tr - tt
  <2>1. /\ ram \in [Addr -> Cell] /\ tt \in Int /\ RamBase <= tt /\ k \in Nat /\ al \in Nat
        /\ tt + k + al <= RamEnd /\ down = CopyDown(ram, tt, k, al)
    BY <1>2, <1>3, <1>4, <1>7
  <2> HIDE DEF ram, k, down
  <2>2. down = Moved(ram, tt + al, k, tt)
    BY <2>1, CopyDownIs
  <2>3. QED
    BY <2>2 DEF ram, k
<1>9. /\ down \in [Addr -> Cell]
      /\ \A x \in Addr : x < tt \/ tt + (tr - tt) <= x => down[x] = h.ram[x]
      /\ \A x \in Addr : tt <= x /\ x < tt + (tr - tt) =>
           down[x] = h.ram[x - tt + (tt + al)]
  BY <1>2, <1>3, <1>7, <1>8, MovedIs
<1> HIDE DEF down
<1>10. /\ g \in Hp /\ g.ram = down /\ g.temptop = tt /\ g.rsktop = tr
       /\ g.dsktop = hd /\ g.editline = he /\ g.avmem = av
  BY <1>2, <1>3, <1>5, <1>6, <1>9 DEF Hp
<1> HIDE DEF g, o
<1>11. ASSUME NEW x \in Addr, x < tt \/ hd <= x PROVE g.ram[x] = h.ram[x]
  <2>1. x \in Int
    BY <1>0 DEF Addr
  <2>2. x < tt \/ tt + (tr - tt) <= x
    BY <1>3, <1>7, <1>11, <2>1
  <2>3. QED
    BY <2>2, <1>9, <1>10
<1>12. ASSUME NEW i \in 0 .. hr - ht - 1 PROVE g.ram[tt + i] = h.ram[ht + i]
  <2> DEFINE x == tt + i
             y == x - tt + (tt + al)
  <2>1. x \in Addr /\ tt <= x /\ x < tt + (tr - tt)
    BY <1>0, <1>3, <1>4, <1>7 DEF Addr
  <2>2. y = ht + i
    BY <1>3, <1>4
  <2>3. down[x] = h.ram[y]
    BY <1>9, <2>1
  <2> HIDE DEF y
  <2>4. QED
    BY <2>2, <2>3, <1>10, Zenon
<1>13. Untouched(h, g, B, tt)
  <2>1. Tiles(h.ram, B, tt) /\ \A x \in StackCells(h) : \E b \in B : h.ram[x] = b[1] + Marker
    BY Zenon DEF Underway, tt
  <2>2. QED
    BY <2>1, <1>2, <1>3, <1>4, <1>5, <1>7, <1>10, <1>11, <1>12, Zenon DEF Untouched
<1>14. /\ Keeps(h, B, g, B) /\ Tiles(g.ram, B, tt)
       /\ \A x \in StackCells(g) : \E b \in B : g.ram[x] = b[1] + Marker
  BY <1>13, KeepsBelow
<1>15. Ordered(g, B)
  BY <1>4, <1>6, <1>7, <1>10, <1>14, Zenon DEF Ordered, Free
<1>16. QED
  BY <1>1, <1>14, <1>15, Zenon DEF o

-----------------------------------------------------------------------------
(* The stack grows and shrinks.                                            *)

(* The HP with a level more on its stack, and with one less.               *)
Pushed(h, p) ==
  [h EXCEPT !.ram = Write5(h.ram, h.dsktop - Word, p), !.dsktop = h.dsktop - Word,
            !.avmem = (Free(h) - Word) \div Word]
Dropped(h) ==
  [h EXCEPT !.dsktop = h.dsktop + Word, !.avmem = (Free(h) + Word) \div Word]

(* A level more, that refers to one of the blocks.                         *)
LEMMA PushIs ==
  ASSUME NEW h, NEW C, Ordered(h, C), NEW c \in C, h.rsktop + Word <= h.dsktop
  PROVE  LET g == Pushed(h, c[1] + Marker)
         IN /\ Ordered(g, C)
            /\ g.temptop = h.temptop /\ g.rsktop = h.rsktop /\ g.editline = h.editline
            /\ g.dsktop = h.dsktop - Word /\ g.ram[g.dsktop] = c[1] + Marker
            /\ \A x \in Addr : x < g.dsktop \/ h.dsktop <= x => g.ram[x] = h.ram[x]
<1> DEFINE ht == h.temptop
           hr == h.rsktop
           hd == h.dsktop
           he == h.editline
           p == c[1] + Marker
           up == hd - Word
           ram == Write5(h.ram, up, p)
           av == (Free(h) - Word) \div Word
           g == Pushed(h, p)
<1>0. /\ Word \in Int /\ 1 < Word /\ Marker \in Int /\ 0 < Marker
      /\ RamBase \in Int /\ 0 < RamBase /\ RamEnd \in Int
  BY Sizes
<1>1. /\ h \in Hp /\ h.ram \in [Addr -> Cell]
      /\ ht \in Int /\ hr \in Int /\ hd \in Int /\ he \in Int
  BY DEF Ordered, Hp
<1>2. /\ RamBase <= ht /\ ht <= hr /\ hr + Word <= hd /\ hd + Word <= he /\ he < RamEnd
  BY DEF Ordered
<1>3. g = [h EXCEPT !.ram = ram, !.dsktop = up, !.avmem = av]
  BY Zenon DEF Pushed
<1>4. /\ h.temptop = ht /\ h.rsktop = hr /\ h.dsktop = hd /\ h.editline = he
      /\ up = hd - Word
  OBVIOUS
<1>5. Free(h) = hd - hr
  BY Zenon DEF Free
<1> HIDE DEF ht, hr, hd, he, up
<1>6. p \in Nat
  <2>1. c[1] \in Int /\ RamBase <= c[1]
    BY Zenon DEF Ordered, Tiles
  <2>2. QED
    BY <2>1, <1>0
<1> HIDE DEF p
<1>7. /\ up \in Int /\ up \in Addr /\ hr <= up /\ up + Word = hd
      /\ up + Word <= he /\ RamBase <= hd /\ ht <= up
  BY <1>0, <1>1, <1>2, <1>4 DEF Addr
<1>8. av \in Int /\ av = (up - hr) \div Word
  BY <1>0, <1>1, <1>4, <1>5, <1>7
<1> HIDE DEF av
<1>9. /\ ram \in [Addr -> Cell] /\ ram[up] = p
      /\ \A x \in Addr : x < up \/ hd <= x => ram[x] = h.ram[x]
  BY <1>1, <1>6, <1>7, Write5Is
<1> HIDE DEF ram
<1>10. /\ g \in Hp /\ g.ram = ram /\ g.temptop = ht /\ g.rsktop = hr
       /\ g.dsktop = up /\ g.editline = he /\ g.avmem = av
  BY <1>1, <1>3, <1>4, <1>7, <1>8, <1>9 DEF Hp
<1> HIDE DEF g
<1>11. StackCells(g) = {g.dsktop} \cup StackCells(h)
  BY <1>1, <1>2, <1>4, <1>10, StackCellsGrow
<1>12. ASSUME NEW x \in StackCells(g) PROVE \E b \in C : g.ram[x] = b[1] + Marker
  <2>1. CASE x = up
    BY <2>1, <1>9, <1>10, Zenon DEF p
  <2>2. CASE x \in StackCells(h)
    <3>1. x \in Int /\ hd <= x /\ x + 2 * Word <= he
      BY <1>1, <1>2, <1>4, <2>2, StackCellsLie
    <3>2. x \in Addr
      BY <3>1, <1>0, <1>1, <1>2, <1>7 DEF Addr
    <3>3. g.ram[x] = h.ram[x]
      BY <3>1, <3>2, <1>9, <1>10
    <3>4. \E b \in C : h.ram[x] = b[1] + Marker
      BY <2>2, Zenon DEF Ordered
    <3>5. QED
      BY <3>3, <3>4
  <2>3. QED
    BY <1>10, <1>11, <2>1, <2>2
<1>13. Tiles(g.ram, C, ht)
  <2>1. Tiles(h.ram, C, ht)
    BY <1>4, Zenon DEF Ordered
  <2>2. ASSUME NEW x \in Int, RamBase <= x, x < ht PROVE g.ram[x] = h.ram[x]
    <3>1. x \in Addr /\ x < up
      BY <2>2, <1>0, <1>1, <1>2, <1>7 DEF Addr
    <3>2. QED
      BY <3>1, <1>9, <1>10
  <2>3. QED
    BY <2>1, <2>2, <1>1, TilesFrame
<1>14. Ordered(g, C)
  BY <1>2, <1>7, <1>8, <1>10, <1>12, <1>13, Zenon DEF Ordered, Free
<1>15. QED
  BY <1>4, <1>9, <1>10, <1>14, Zenon DEF g, p

(* A level less.                                                           *)
LEMMA DropIs ==
  ASSUME NEW h, NEW C, Ordered(h, C), hp48_rpl_stack_depth(h) > 0
  PROVE  /\ Ordered(Dropped(h), C)
         /\ StackCells(h) = {h.dsktop} \cup StackCells(Dropped(h))
         /\ hp48_rpl_stack_depth(h) = hp48_rpl_stack_depth(Dropped(h)) + 1
<1> DEFINE ht == h.temptop
           hr == h.rsktop
           hd == h.dsktop
           he == h.editline
           up == hd + Word
           av == (Free(h) + Word) \div Word
           g == Dropped(h)
<1>0. /\ Word \in Int /\ 1 < Word /\ Marker \in Int /\ 0 < Marker
      /\ RamBase \in Int /\ 0 < RamBase /\ RamEnd \in Int
  BY Sizes
<1>1. /\ h \in Hp /\ ht \in Int /\ hr \in Int /\ hd \in Int /\ he \in Int
  BY DEF Ordered, Hp
<1>2. /\ RamBase <= ht /\ ht <= hr /\ hr <= hd /\ hd + Word <= he /\ he < RamEnd
  BY DEF Ordered
<1>3. g = [h EXCEPT !.dsktop = up, !.avmem = av]
  BY Zenon DEF Dropped
<1>4. /\ h.temptop = ht /\ h.rsktop = hr /\ h.dsktop = hd /\ h.editline = he
      /\ up = hd + Word
  OBVIOUS
<1>5. Free(h) = hd - hr /\ hp48_rpl_stack_depth(h) = (he - hd) \div Word - 1
  BY <1>0, <1>1, <1>2 DEF Free, hp48_rpl_stack_depth
<1> HIDE DEF ht, hr, hd, he, up
<1>6. up + Word <= he /\ up \in Int /\ hr <= up
  <2> DEFINE room == he - hd
             q == room \div Word
  <2>1. q \in Int /\ 2 <= q
    BY <1>0, <1>1, <1>5
  <2>2. Word * q <= room
    BY <1>0, <1>1
  <2> HIDE DEF q
  <2>3. 2 * Word <= Word * q
    <3>1. Word * (q - 2) >= 0
      BY <1>0, <2>1
    <3>2. Word * (q - 2) = Word * q - 2 * Word
      BY <1>0, <2>1
    <3>3. Word * q \in Int
      BY <1>0, <2>1
    <3>4. QED
      BY <3>1, <3>2, <3>3, <1>0
  <2>4. QED
    BY <1>0, <1>1, <1>2, <1>4, <2>1, <2>2, <2>3
<1>7. av \in Int /\ av = (up - hr) \div Word
  BY <1>0, <1>1, <1>4, <1>5, <1>6
<1> HIDE DEF av
<1>8. /\ g \in Hp /\ g.ram = h.ram /\ g.temptop = ht /\ g.rsktop = hr
      /\ g.dsktop = up /\ g.editline = he /\ g.avmem = av
  BY <1>1, <1>3, <1>4, <1>6, <1>7 DEF Hp
<1> HIDE DEF g
<1>9. /\ StackCells(h) = {h.dsktop} \cup StackCells(g)
      /\ hp48_rpl_stack_depth(h) = hp48_rpl_stack_depth(g) + 1
  <2>1. h.dsktop = g.dsktop - Word
    BY <1>0, <1>1, <1>4, <1>8
  <2>2. QED
    BY <2>1, <1>1, <1>4, <1>6, <1>8, StackCellsGrow
<1>10. ASSUME NEW x \in StackCells(g) PROVE \E b \in C : g.ram[x] = b[1] + Marker
  <2>1. x \in StackCells(h)
    BY <1>9, Zenon
  <2>2. QED
    BY <2>1, <1>8, Zenon DEF Ordered
<1>11. Tiles(g.ram, C, ht)
  BY <1>4, <1>8, Zenon DEF Ordered
<1>12. Ordered(g, C)
  BY <1>2, <1>6, <1>7, <1>8, <1>10, <1>11, Zenon DEF Ordered, Free
<1>13. QED
  BY <1>9, <1>12, Zenon DEF g

(* A word less of free memory is one less in AVMEM.                        *)
LEMMA DivLess ==
  ASSUME NEW n \in Int, NEW m \in Int
  PROVE  m > 0 => (n - m) \div m = n \div m - 1
<1> SUFFICES ASSUME m > 0 PROVE (n - m) \div m = n \div m - 1
  OBVIOUS
<1> DEFINE q == n \div m
<1>1. q \in Int /\ m * q <= n /\ n < m * q + m
  OBVIOUS
<1>2. m * (q - 1) = m * q - m /\ m * q \in Int
  BY <1>1
<1>3. (n - m) \div m = q - 1
  BY <1>1, <1>2
<1>4. QED
  BY <1>3

(* The end of an import: it is taken back, or the new object is level 1.   *)
LEMMA CommitIs ==
  ASSUME NEW h, NEW t, NEW B, Underway(h, t, B)
  PROVE  LET o == ImportCommit(h, t)
             new == <<t.temptop, t.allocation>>
         IN \/ o.status \in {"BAD_OBJECT", "NO_MEMORY"} /\ o = ImportAbort(h, t, o.status)
            \/ /\ o.status = "OK" /\ o.hp = Pushed(h, t.object)
               /\ t.written = t.bytes
               /\ ObjectSize(h.ram, t.object, 2 * t.bytes) \notin {BAD_SIZE, 0}
               /\ 2 * t.bytes \in {ObjectSize(h.ram, t.object, 2 * t.bytes),
                                   ObjectSize(h.ram, t.object, 2 * t.bytes) + 1}
               /\ o.transfer = NoTransfer
               /\ Ordered(o.hp, B \cup {new})
<1> DEFINE tt == t.temptop
           tr == t.rsktop
           tb == t.bytes
           al == t.allocation
           ob == t.object
           ht == h.temptop
           hr == h.rsktop
           hd == h.dsktop
           he == h.editline
           new == <<tt, al>>
           C == B \cup {new}
           size == ObjectSize(h.ram, t.object, 2 * t.bytes)
           bad == \/ t.written # t.bytes \/ size \in {BAD_SIZE, 0}
                  \/ 2 * t.bytes \notin {size, size + 1}
           full == h.avmem = 0 \/ h.dsktop < t.rsktop + t.allocation + Word
           k == Outcome([h EXCEPT !.ram = Write5(@, h.dsktop - Word, t.object),
                                  !.dsktop = h.dsktop - Word, !.avmem = @ - 1],
                        NoTransfer, "OK")
           o == ImportCommit(h, t)
<1>0. /\ Word \in Int /\ 1 < Word /\ Marker \in Int /\ 0 < Marker
      /\ RamBase \in Int /\ 0 < RamBase /\ RamEnd \in Int
  BY Sizes
<1>1. o = IF bad THEN ImportAbort(h, t, "BAD_OBJECT")
          ELSE IF full THEN ImportAbort(h, t, "NO_MEMORY") ELSE k
  BY Zenon DEF ImportCommit
<1>2. /\ tt \in Int /\ tr \in Int /\ tb \in Int /\ 0 < tb /\ al \in Int /\ ob \in Int
      /\ ht \in Int /\ hr \in Int /\ hd \in Int /\ he \in Int
  BY UnderwayTypes
<1>3. /\ RamBase <= tt /\ tt <= tr /\ al = 2 * tb + Marker + Word /\ ob = tt + Marker
      /\ ht = tt + al /\ hr = tr + al /\ hr + Word <= hd /\ hd + Word <= he /\ he < RamEnd
  BY UnderwayLies
<1>4. /\ h.temptop = ht /\ h.rsktop = hr /\ h.dsktop = hd /\ h.editline = he
      /\ t.temptop = tt /\ t.allocation = al /\ t.object = ob
  OBVIOUS
<1>5. Ordered(h, C)
  BY UnderwayIsInOrder
<1>6. new \in C /\ new[1] + Marker = ob
  BY <1>3
<1>7. h.avmem - 1 = (Free(h) - Word) \div Word
  <2>1. h.avmem = (hd - hr) \div Word
    BY <1>4, Zenon DEF Underway, Free
  <2>2. Free(h) = hd - hr
    BY <1>4, Zenon DEF Free
  <2> HIDE DEF hd, hr
  <2> DEFINE free == hd - hr
  <2>3. free \in Int
    BY <1>2
  <2> HIDE DEF free
  <2>4. (free - Word) \div Word = free \div Word - 1
    BY <1>0, <2>3, DivLess
  <2>5. QED
    BY <2>1, <2>2, <2>4 DEF free
<1>8. k.hp = Pushed(h, ob) /\ k.transfer = NoTransfer /\ k.status = "OK"
  <2>1. h.ram \in [Addr -> Cell] /\ h \in Hp
    BY DEF Underway, Hp
  <2>2. [h EXCEPT !.ram = Write5(@, h.dsktop - Word, t.object),
                  !.dsktop = h.dsktop - Word, !.avmem = @ - 1]
        = [h EXCEPT !.ram = Write5(h.ram, h.dsktop - Word, t.object),
                    !.dsktop = h.dsktop - Word, !.avmem = h.avmem - 1]
    BY <2>1 DEF Hp
  <2>3. [h EXCEPT !.ram = Write5(h.ram, h.dsktop - Word, t.object),
                  !.dsktop = h.dsktop - Word, !.avmem = h.avmem - 1] = Pushed(h, ob)
    BY <1>4, <1>7, Zenon DEF Pushed
  <2>4. QED
    BY <2>2, <2>3 DEF Outcome
<1>9. Ordered(Pushed(h, ob), C)
  <2> HIDE DEF C, new, ob
  <2>1. h.rsktop + Word <= h.dsktop
    BY <1>3, <1>4
  <2>2. Ordered(Pushed(h, new[1] + Marker), C)
    BY <2>1, <1>5, <1>6, PushIs
  <2>3. QED
    BY <2>2, <1>6, Zenon
<1>10. ASSUME NEW x PROVE ImportAbort(h, t, x).status = x
  BY DEF ImportAbort, Outcome
<1> HIDE DEF k, size
<1>11. CASE bad
  BY <1>1, <1>10, <1>11, Zenon
<1>12. CASE ~bad /\ full
  BY <1>1, <1>10, <1>12, Zenon
<1>13. CASE ~bad /\ ~full
  <2>1. o = k
    BY <1>1, <1>13, Zenon
  <2>2. t.written = t.bytes /\ size \notin {BAD_SIZE, 0} /\ 2 * t.bytes \in {size, size + 1}
    BY <1>13, Zenon
  <2> HIDE DEF o, bad, full
  <2>3. QED
    BY <2>1, <2>2, <1>8, <1>9, Zenon DEF o, size
<1>14. QED
  BY <1>11, <1>12, <1>13, Zenon

-----------------------------------------------------------------------------
(* Ranks: how many members of a set of numbers are smaller than v.  The    *)
(* collector moves each kept cell to the rank it has among them.           *)

Rank(K, v) == Cardinality({y \in K : y < v})

LEMMA RankIs ==
  ASSUME NEW lo \in Nat, NEW hi \in Int, NEW K \in SUBSET (lo .. hi), NEW v \in Int
  PROVE  /\ IsFiniteSet({y \in K : y < v}) /\ IsFiniteSet(K)
         /\ Rank(K, v) \in Nat /\ Cardinality(K) \in Nat
         /\ Rank(K, v) <= Cardinality(K)
         /\ v <= lo => Rank(K, v) = 0
         /\ hi < v => Rank(K, v) = Cardinality(K)
         /\ lo <= v => Rank(K, v) <= v - lo
<1> DEFINE S == {y \in K : y < v}
<1>0. lo \in Int /\ 0 <= lo /\ \A y \in K : y \in Int /\ lo <= y /\ y <= hi
  OBVIOUS
<1>1. IsFiniteSet(lo .. hi)
  BY FS_Interval
<1>2. IsFiniteSet(K)
  BY <1>1, FS_Subset
<1>3. S \subseteq K
  OBVIOUS
<1>4. IsFiniteSet(S) /\ Cardinality(S) <= Cardinality(K)
  BY <1>2, <1>3, FS_Subset
<1>5. Cardinality(S) \in Nat /\ Cardinality(K) \in Nat
  BY <1>2, <1>4, FS_CardinalityType
<1>6. ASSUME v <= lo PROVE Cardinality(S) = 0
  <2>1. ASSUME NEW y \in S PROVE FALSE
    <3>1. y \in Int /\ lo <= y /\ y < v
      BY <1>0
    <3>2. QED
      BY <3>1, <1>6, <1>0
  <2>3. S = {}
    BY <2>1, Zenon
  <2>2. QED
    BY <2>3, FS_EmptySet
<1>7. ASSUME hi < v PROVE Cardinality(S) = Cardinality(K)
  <2>1. ASSUME NEW y \in K PROVE y < v
    <3>1. y \in Int /\ y <= hi
      BY <1>0
    <3>2. QED
      BY <3>1, <1>7
  <2>2. S = K
    BY <2>1, Zenon
  <2>3. QED
    BY <2>2
<1>8. ASSUME lo <= v PROVE Cardinality(S) <= v - lo
  <2>1. ASSUME NEW y \in S PROVE y \in lo .. v - 1
    <3>1. y \in Int /\ lo <= y /\ y < v
      BY <1>0
    <3>2. QED
      BY <3>1, <1>0
  <2>2. IsFiniteSet(lo .. v - 1) /\ Cardinality(lo .. v - 1) = v - lo
    <3>1. v - 1 \in Int /\ lo <= v /\ (v - 1) - lo + 1 = v - lo
      BY <1>0, <1>8
    <3>2. IsFiniteSet(lo .. v - 1)
      BY <1>0, <3>1, FS_Interval
    <3>3. Cardinality(lo .. v - 1) = IF lo > v - 1 THEN 0 ELSE (v - 1) - lo + 1
      BY <1>0, <3>1, FS_Interval
    <3>4. lo > v - 1 => v - lo = 0
      BY <1>0, <1>8
    <3>5. QED
      BY <3>1, <3>2, <3>3, <3>4
  <2> HIDE DEF S
  <2>3. QED
    BY <2>1, <2>2, FS_Subset
<1>9. QED
  BY <1>2, <1>4, <1>5, <1>6, <1>7, <1>8, Zenon DEF Rank

LEMMA RankStep ==
  ASSUME NEW lo \in Nat, NEW hi \in Int, NEW K \in SUBSET (lo .. hi), NEW v \in Int
  PROVE  /\ v \in K => Rank(K, v + 1) = Rank(K, v) + 1
         /\ v \notin K => Rank(K, v + 1) = Rank(K, v)
<1> DEFINE S == {y \in K : y < v}
           T == {y \in K : y < v + 1}
<1>0. lo \in Int /\ 0 <= lo /\ \A y \in K : y \in Int /\ lo <= y /\ y <= hi
  OBVIOUS
<1>1. IsFiniteSet(S)
  BY RankIs
<1>2. ASSUME v \in K PROVE Cardinality(T) = Cardinality(S) + 1
  <2>1. ASSUME NEW y \in K PROVE y < v + 1 <=> y < v \/ y = v
    <3>1. y \in Int
      BY <1>0
    <3>2. QED
      BY <3>1
  <2>2. ~(v < v)
    OBVIOUS
  <2>3. T = S \cup {v} /\ v \notin S
    BY <1>2, <2>1, <2>2, Zenon
  <2> HIDE DEF S, T
  <2>4. QED
    BY <1>1, <2>3, FS_AddElement
<1>3. ASSUME v \notin K PROVE T = S
  <2>1. ASSUME NEW y \in K PROVE y < v + 1 <=> y < v
    <3>1. y \in Int /\ y # v
      BY <1>0, <1>3
    <3>2. QED
      BY <3>1
  <2>2. QED
    BY <2>1, Zenon
<1>4. QED
  BY <1>2, <1>3, Zenon DEF Rank

LEMMA RankMono ==
  ASSUME NEW lo \in Nat, NEW hi \in Int, NEW K \in SUBSET (lo .. hi),
         NEW v \in Int, NEW u \in Int, v <= u
  PROVE  /\ Rank(K, v) <= Rank(K, u)
         /\ v \in K /\ v < u => Rank(K, v) < Rank(K, u)
<1>1. ASSUME NEW x \in Int, x <= u PROVE Rank(K, x) <= Rank(K, u)
  <2>1. {y \in K : y < x} \subseteq {y \in K : y < u}
    <3>1. ASSUME NEW y \in K, y < x PROVE y < u
      <4>1. y \in Int
        OBVIOUS
      <4>2. QED
        BY <4>1, <3>1, <1>1
    <3>2. QED
      BY <3>1, Zenon
  <2>2. IsFiniteSet({y \in K : y < u})
    BY RankIs
  <2>3. QED
    BY <2>1, <2>2, FS_Subset DEF Rank
<1>2. ASSUME v \in K, v < u PROVE Rank(K, v) < Rank(K, u)
  <2>1. Rank(K, v + 1) = Rank(K, v) + 1
    BY <1>2, RankStep
  <2>2. Rank(K, v + 1) <= Rank(K, u)
    BY <1>1, <1>2
  <2>3. Rank(K, v) \in Nat /\ Rank(K, u) \in Nat
    BY RankIs
  <2>4. QED
    BY <2>1, <2>2, <2>3
<1>3. QED
  BY <1>1, <1>2

(* Along a run of members the rank goes up by one.                         *)
LEMMA RankRun ==
  ASSUME NEW lo \in Nat, NEW hi \in Int, NEW K \in SUBSET (lo .. hi),
         NEW v \in Int, NEW n \in Nat, \A i \in 0 .. n - 1 : v + i \in K
  PROVE  \A i \in 0 .. n : Rank(K, v + i) = Rank(K, v) + i
<1> DEFINE S == {i \in Nat : i <= n => Rank(K, v + i) = Rank(K, v) + i}
<1>0. Rank(K, v) \in Nat
  BY RankIs
<1>1. 0 \in S
  BY <1>0
<1>2. ASSUME NEW i \in Nat, i \in S PROVE i + 1 \in S
  <2>1. SUFFICES ASSUME i + 1 <= n PROVE Rank(K, v + (i + 1)) = Rank(K, v) + (i + 1)
    OBVIOUS
  <2>2. v + i \in K /\ v + i \in Int /\ v + (i + 1) = (v + i) + 1 /\ i <= n
    BY <2>1
  <2>3. Rank(K, v + i) = Rank(K, v) + i
    BY <1>2, <2>2
  <2>4. Rank(K, (v + i) + 1) = Rank(K, v + i) + 1
    BY <2>2, RankStep
  <2>5. QED
    BY <1>0, <2>2, <2>3, <2>4
<1>3. \A i \in Nat : i \in S
  <2> HIDE DEF S
  <2>1. QED
    BY <1>1, <1>2, Induction, Zenon
<1>4. QED
  BY <1>3

Between(K, lo, hi) == lo \in Nat /\ hi \in Int /\ K \in SUBSET (lo .. hi)

(* Above all members the rank is their number.                             *)
LEMMA RankTop ==
  ASSUME NEW K, NEW lo, NEW hi, Between(K, lo, hi), NEW v \in Int, hi < v
  PROVE  /\ Rank(K, v) = Cardinality(K) /\ Cardinality(K) \in Nat
         /\ lo <= v => Cardinality(K) <= v - lo
<1>1. lo \in Nat /\ hi \in Int /\ K \in SUBSET (lo .. hi)
  BY DEF Between
<1>2. /\ hi < v => Rank(K, v) = Cardinality(K)
      /\ Cardinality(K) \in Nat
      /\ lo <= v => Rank(K, v) <= v - lo
  BY <1>1, RankIs
<1>3. QED
  BY <1>2

(* Every rank is that of a member.                                         *)
LEMMA RankOnto ==
  ASSUME NEW K, NEW lo, NEW hi, Between(K, lo, hi), NEW n \in Nat, n < Cardinality(K)
  PROVE  \E x \in K : Rank(K, x) = n
<1> USE DEF Between
<1> DEFINE S == {v \in Nat : n < Rank(K, v)}
<1>1. \E v \in Nat : v \in S
  <2>1. CASE hi + 1 \in Nat
    <3>1. Rank(K, hi + 1) = Cardinality(K)
      <4>1. hi < hi + 1 /\ hi + 1 \in Int
        OBVIOUS
      <4>2. QED
        BY <4>1, RankIs
    <3>2. QED
      BY <2>1, <3>1
  <2>2. CASE hi + 1 \notin Nat
    <3>1. K = {}
      BY <2>2
    <3>2. Cardinality(K) = 0
      BY <3>1, FS_EmptySet
    <3>3. QED
      BY <3>2
  <2>3. QED
    BY <2>1, <2>2
<1>2. PICK v \in S : \A u \in S : v <= u
  <2>1. S \in SUBSET Nat /\ S # {}
    BY <1>1
  <2> HIDE DEF S
  <2>2. QED
    BY <2>1, LeastNumber
<1>3. v \in Nat /\ n < Rank(K, v)
  OBVIOUS
<1>4. lo < v
  <2>1. SUFFICES ASSUME v <= lo PROVE FALSE
    BY <1>3
  <2>2. Rank(K, v) = 0
    <3>1. v \in Int
      BY <1>3
    <3>2. QED
      BY <3>1, <2>1, RankIs, ZenonT(60)
  <2>3. QED
    BY <1>3, <2>2
<1>5. v - 1 \in Nat /\ (v - 1) + 1 = v /\ v - 1 \in Int /\ v \in Int
  BY <1>3, <1>4
<1>6. ~(n < Rank(K, v - 1))
  BY <1>2, <1>5
<1>7. Rank(K, v - 1) \in Nat /\ Rank(K, v) \in Nat
  BY <1>5, RankIs
<1>8. /\ v - 1 \in K => Rank(K, (v - 1) + 1) = Rank(K, v - 1) + 1
      /\ v - 1 \notin K => Rank(K, (v - 1) + 1) = Rank(K, v - 1)
  BY <1>5, RankStep
<1>9. v - 1 \in K
  BY <1>3, <1>5, <1>6, <1>8, Zenon
<1>10. Rank(K, v - 1) = n
  <2> DEFINE r == Rank(K, v - 1)
             q == Rank(K, v)
  <2>1. q = r + 1 /\ r \in Nat /\ q \in Nat /\ n < q /\ ~(n < r)
    BY <1>3, <1>5, <1>6, <1>7, <1>8, <1>9
  <2> HIDE DEF r, q
  <2>2. r = n
    BY <2>1
  <2>3. QED
    BY <2>2 DEF r
<1>11. QED
  BY <1>9, <1>10

-----------------------------------------------------------------------------
(* The collection of garbage.                                              *)

(* The blocks that the stack refers to, and where the collector puts them. *)
Live(h, B) == {b \in B : b[1] + Marker \in Pointers(h)}
Place(h, x) == RamBase + Rank(KeptCells(h), x)
Slid(h, B) == {<<Place(h, b[1]), b[2]>> : b \in Live(h, B)}

LEMMA KeptIs ==
  ASSUME NEW h, NEW B, Ordered(h, B)
  PROVE  /\ KeptCells(h) \in SUBSET (RamBase .. h.temptop - 1)
         /\ \A b \in Live(h, B) :
              /\ b \in B /\ b[1] \in Int /\ b[2] \in Int
              /\ RamBase <= b[1] /\ Marker + Word <= b[2] /\ b[1] + b[2] <= h.temptop
              /\ \A i \in 0 .. b[2] - 1 : b[1] + i \in KeptCells(h)
         /\ \A y \in KeptCells(h) : \E b \in Live(h, B) : b[1] <= y /\ y < b[1] + b[2]
<1>1. KeptCells(h) = UNION {b[1] .. b[1] + b[2] - 1 : b \in Live(h, B)}
  BY OrderedIsInOrder DEF KeptCells, KeptBlocks, Live
<1>2. h.temptop \in Int /\ RamBase \in Int
  BY Sizes DEF Ordered, Hp
<1>3. ASSUME NEW b \in Live(h, B)
      PROVE  /\ b \in B /\ b[1] \in Int /\ b[2] \in Int
             /\ RamBase <= b[1] /\ Marker + Word <= b[2] /\ b[1] + b[2] <= h.temptop
  BY Zenon DEF Live, Ordered, Tiles
<1>4. ASSUME NEW b \in Live(h, B), NEW i \in 0 .. b[2] - 1 PROVE b[1] + i \in KeptCells(h)
  <2>1. b[1] + i \in b[1] .. b[1] + b[2] - 1
    BY <1>3
  <2>2. QED
    BY <2>1, <1>1, Zenon
<1>5. ASSUME NEW y \in KeptCells(h)
      PROVE  \E b \in Live(h, B) : b[1] <= y /\ y < b[1] + b[2] /\ y \in Int
  <2>1. PICK b \in Live(h, B) : y \in b[1] .. b[1] + b[2] - 1
    BY <1>1, Zenon
  <2>2. b[1] <= y /\ y < b[1] + b[2] /\ y \in Int
    BY <2>1, <1>3
  <2>3. QED
    BY <2>2
<1>6. ASSUME NEW y \in KeptCells(h) PROVE y \in RamBase .. h.temptop - 1
  <2>1. PICK b \in Live(h, B) : b[1] <= y /\ y < b[1] + b[2] /\ y \in Int
    BY <1>5
  <2>2. b[1] \in Int /\ b[2] \in Int /\ RamBase <= b[1] /\ b[1] + b[2] <= h.temptop
    BY <1>3
  <2>3. QED
    BY <1>2, <2>1, <2>2
<1>7. QED
  BY <1>3, <1>4, <1>5, <1>6

(* A boundary between blocks is where one that is kept ends, unless there  *)
(* is none below it.                                                       *)
LEMMA SlidMeet ==
  ASSUME NEW h, NEW B, Ordered(h, B), NEW v \in Int,
         \A b \in Live(h, B) : b[1] + b[2] <= v \/ v <= b[1]
  PROVE  \/ Place(h, v) = RamBase
         \/ \E b \in Live(h, B) : Place(h, b[1]) + b[2] = Place(h, v)
<1> DEFINE K == KeptCells(h)
           top == h.temptop - 1
           r == Rank(K, v)
<1>0. RamBase \in Nat /\ RamBase \in Int /\ Word \in Int /\ Marker \in Int /\ 0 < Word /\ 0 < Marker
  BY RplAssumption
<1>1. /\ top \in Int /\ K \in SUBSET (RamBase .. top)
  BY KeptIs DEF Ordered, Hp
<1> HIDE DEF K, top
<1>2. r \in Nat /\ r <= Cardinality(K) /\ Cardinality(K) \in Nat
  BY <1>0, <1>1, RankIs
<1>3. CASE r = 0
  BY <1>0, <1>3 DEF Place, K
<1>4. CASE r # 0
  <2>1. PICK x \in K : Rank(K, x) = r - 1
    <3>1. r - 1 \in Nat /\ r - 1 < Cardinality(K)
      BY <1>2, <1>4
    <3>2. ASSUME NEW n \in Nat, n < Cardinality(K) PROVE \E x \in K : Rank(K, x) = n
      <4>1. Between(K, RamBase, top)
        BY <1>0, <1>1 DEF Between
      <4>2. QED
        BY <3>2, <4>1, RankOnto, Zenon
    <3>3. QED
      BY <3>1, <3>2
  <2>2. x \in Int
    BY <1>1
  <2>3. x < v
    <3>1. SUFFICES ASSUME v <= x PROVE FALSE
      BY <2>2
    <3>2. r <= Rank(K, x)
      BY <1>0, <1>1, <2>2, <3>1, RankMono
    <3> HIDE DEF r
    <3>3. QED
      BY <1>2, <2>1, <3>2
  <2>4. PICK b \in Live(h, B) : b[1] <= x /\ x < b[1] + b[2]
    BY KeptIs DEF K
  <2>5. /\ b[1] \in Int /\ b[2] \in Int /\ Marker + Word <= b[2]
        /\ \A i \in 0 .. b[2] - 1 : b[1] + i \in K
    BY KeptIs DEF K
  <2> DEFINE s == b[1]
             n == b[2]
             q == Rank(K, s)
             e == Rank(K, s + n)
  <2>6. s \in Int /\ n \in Int /\ n \in Nat /\ s + n \in Int /\ s <= x /\ x < s + n /\ n \in 0 .. n
    BY <1>0, <2>4, <2>5
  <2>7. s + n <= v
    <3>1. s + n <= v \/ v <= s
      BY <2>4
    <3> HIDE DEF s, n
    <3>2. QED
      BY <2>2, <2>3, <2>6, <3>1
  <2> HIDE DEF s, n
  <2>8. e = q + n
    <3>1. \A i \in 0 .. n - 1 : s + i \in K
      BY <2>5 DEF s, n
    <3>2. \A i \in 0 .. n : Rank(K, s + i) = Rank(K, s) + i
      BY <1>0, <1>1, <2>6, <3>1, RankRun, ZenonT(60)
    <3>3. QED
      BY <2>6, <3>2
  <2>9. e <= r
    BY <1>0, <1>1, <2>6, <2>7, RankMono
  <2>10. Rank(K, x) < e
    <3> DEFINE u == s + n
    <3>1. u \in Int /\ x <= u /\ x < u
      BY <2>2, <2>6
    <3> HIDE DEF u
    <3>2. Rank(K, x) < Rank(K, u)
      BY <1>0, <1>1, <2>2, <3>1, RankMono
    <3>3. QED
      BY <3>2 DEF u
  <2>11. e \in Nat /\ q \in Nat
    BY <1>0, <1>1, <2>6, RankIs
  <2> HIDE DEF e, r, q
  <2>12. q + n = r
    BY <1>2, <2>1, <2>6, <2>8, <2>9, <2>10, <2>11
  <2>13. Place(h, s) + n = Place(h, v)
    <3>1. Place(h, s) = RamBase + q /\ Place(h, v) = RamBase + r
      BY Zenon DEF Place, q, r, K
    <3>2. QED
      BY <1>0, <1>2, <2>6, <2>11, <2>12, <3>1
  <2>14. QED
    BY <2>13 DEF s, n
<1>5. QED
  BY <1>3, <1>4

(* Where everything lies after a collection.                               *)
LEMMA CompactedIs ==
  ASSUME NEW h, NEW B, Ordered(h, B)
  PROVE  LET g == Compacted(h)
             top == RamBase + Cardinality(KeptCells(h))
             gap == h.temptop - top
         IN /\ top \in Int /\ RamBase <= top /\ top <= h.temptop
            /\ g \in Hp
            /\ g.temptop = top /\ g.rsktop = h.rsktop - gap
            /\ g.dsktop = h.dsktop /\ g.editline = h.editline
            /\ g.avmem = (Free(h) + gap) \div Word
            /\ \A x \in KeptCells(h) : /\ Place(h, x) \in RamBase .. top - 1
                                       /\ g.ram[Place(h, x)] = h.ram[x]
            /\ \A x \in Addr : top <= x /\ x < h.rsktop - gap => g.ram[x] = h.ram[x + gap]
            /\ \A b \in Live(h, B), x \in StackCells(h) :
                 h.ram[x] = b[1] + Marker => g.ram[x] = Place(h, b[1]) + Marker
<1> DEFINE K == KeptCells(h)
           top == RamBase + Cardinality(K)
           ht == h.temptop
           hr == h.rsktop
           hd == h.dsktop
           he == h.editline
           gap == ht - top
           place == NewPlace(h)
           Back(x) == CHOOSE y \in K : place[y] = x
           ram == [x \in Addr |->
                 IF x \in RamBase .. top - 1 THEN h.ram[Back(x)]
                 ELSE IF x < hr - gap THEN h.ram[x + gap]
                 ELSE IF x \in StackCells(h) THEN place[h.ram[x] - Marker] + Marker
                 ELSE h.ram[x]]
           av == (Free(h) + gap) \div Word
           r == [ram |-> ram, temptop |-> top, rsktop |-> hr - gap, dsktop |-> hd,
                 editline |-> he, avmem |-> av]
           g == Compacted(h)
<1>0. /\ RamBase \in Nat /\ RamBase \in Int /\ 0 < RamBase /\ RamEnd \in Int
      /\ Word \in Int /\ 0 < Word /\ Marker \in Int /\ 0 < Marker
  BY RplAssumption
<1>1. /\ h \in Hp /\ h.ram \in [Addr -> Cell]
      /\ ht \in Int /\ hr \in Int /\ hd \in Int /\ he \in Int
  BY DEF Ordered, Hp
<1>2. /\ RamBase <= ht /\ ht <= hr /\ hr <= hd /\ hd + Word <= he /\ he < RamEnd
  BY DEF Ordered
<1>3. /\ h.temptop = ht /\ h.rsktop = hr /\ h.dsktop = hd /\ h.editline = he
  OBVIOUS
<1>4. g = r
  BY Zenon DEF Compacted
<1>25. Free(h) = hd - hr
  BY Zenon DEF Free
<1>5. Between(K, RamBase, ht - 1) /\ K \in SUBSET (RamBase .. ht - 1) /\ ht - 1 \in Int
  <2>1. K \in SUBSET (RamBase .. ht - 1)
    BY KeptIs, Zenon
  <2> HIDE DEF K, ht
  <2>2. QED
    BY <1>0, <1>1, <2>1 DEF Between
<1>7. place = [x \in K |-> Place(h, x)]
  BY Zenon DEF NewPlace, Place, Rank
<1>8. /\ \A b \in Live(h, B) :
           /\ b \in B /\ b[1] \in Int /\ b[2] \in Int
           /\ RamBase <= b[1] /\ Marker + Word <= b[2] /\ b[1] + b[2] <= h.temptop
           /\ \A i \in 0 .. b[2] - 1 : b[1] + i \in K
  BY KeptIs
<1> HIDE DEF K, place, ht, hr, hd, he
<1>6. ASSUME NEW x \in K
      PROVE  x \in Int /\ x \in Addr /\ x \in Nat /\ RamBase <= x /\ x < ht
  <2>1. x \in RamBase .. ht - 1
    BY <1>5
  <2>2. QED
    BY <1>0, <1>1, <1>2, <2>1 DEF Addr
<1>9. ASSUME NEW x \in K PROVE Place(h, x) \in RamBase .. top - 1
  <2>1. /\ Rank(K, x) \in Nat /\ Rank(K, ht) = Cardinality(K) /\ Cardinality(K) \in Nat
    <3>1. ht - 1 < ht /\ x \in Int
      BY <1>1, <1>6
    <3>2. Rank(K, x) \in Nat
      BY <3>1, <1>0, <1>5, RankIs
    <3>3. Rank(K, ht) = Cardinality(K) /\ Cardinality(K) \in Nat
      BY <3>1, <1>1, <1>5, RankTop, Zenon
    <3>4. QED
      BY <3>2, <3>3
  <2>2. Rank(K, x) < Rank(K, ht)
    <3>1. x \in Int /\ x <= ht /\ x < ht
      BY <1>1, <1>6
    <3>2. QED
      BY <3>1, <1>0, <1>1, <1>5, RankMono
  <2>3. QED
    BY <1>0, <2>1, <2>2 DEF Place, K
<1>10. top \in Int /\ RamBase <= top /\ top <= ht
  <2>1. ht - 1 < ht /\ RamBase <= ht
    BY <1>1, <1>2
  <2>2. Cardinality(K) \in Nat /\ Cardinality(K) <= ht - RamBase
    BY <2>1, <1>1, <1>5, RankTop, Zenon
  <2> DEFINE n == Cardinality(K)
  <2>3. n \in Nat /\ n <= ht - RamBase /\ top = RamBase + n
    BY <2>1, <2>2
  <2> HIDE DEF n, top
  <2>4. QED
    BY <1>0, <1>1, <2>3
<1>11. \A x, y \in K : Place(h, x) = Place(h, y) => x = y
  <2>1. ASSUME NEW x \in K, NEW y \in K, x < y PROVE Place(h, x) # Place(h, y)
    <3>1. x \in Int /\ y \in Int /\ x <= y
      BY <1>6, <2>1
    <3>2. Rank(K, x) < Rank(K, y)
      BY <3>1, <2>1, <1>0, <1>5, RankMono
    <3>3. Rank(K, x) \in Nat /\ Rank(K, y) \in Nat
      BY <3>1, <1>0, <1>5, RankIs
    <3>4. QED
      BY <1>0, <3>2, <3>3 DEF Place, K
  <2>2. \A x, y \in K : x = y \/ x < y \/ y < x
    BY <1>6
  <2>3. QED
    BY <2>1, <2>2
<1>12. ASSUME NEW x \in K PROVE Back(Place(h, x)) = x
  <2>1. \A y \in K : place[y] = Place(h, y)
    BY <1>7
  <2>2. QED
    BY <2>1, <1>11
<1>13. ASSUME NEW x \in RamBase .. top - 1 PROVE Back(x) \in K
  <2> DEFINE n == x - RamBase
  <2>1. n \in Nat /\ n < Cardinality(K)
    <3>1. Cardinality(K) \in Nat
      BY <1>0, <1>5, RankIs
    <3>2. QED
      BY <3>1, <1>0
  <2>2. x = RamBase + n
    BY <1>0
  <2> HIDE DEF n
  <2>3. PICK y \in K : Rank(K, y) = n
    BY <2>1, <1>5, RankOnto, Zenon
  <2>4. place[y] = x
    BY <1>7, <2>2, <2>3 DEF Place, K
  <2>5. QED
    BY <2>4, Zenon
<1> HIDE DEF Back
<1> HIDE DEF top
<1>15. /\ gap \in Int /\ 0 <= gap /\ hr - gap \in Int /\ RamBase <= hr - gap /\ hr - gap <= hr
       /\ top <= hr - gap /\ gap = ht - top
  BY <1>0, <1>1, <1>2, <1>10
<1>16. av \in Int
  BY <1>0, <1>1, <1>25, <1>15
<1> HIDE DEF gap, av
<1>17. ASSUME NEW b \in Live(h, B), NEW x \in StackCells(h), h.ram[x] = b[1] + Marker
       PROVE  /\ x \in Int /\ x \in Addr /\ hd <= x /\ b[1] \in K
              /\ place[h.ram[x] - Marker] + Marker = Place(h, b[1]) + Marker
  <2>1. x \in Int /\ hd <= x /\ x + 2 * Word <= he
    BY <1>1, <1>2, <1>3, StackCellsLie
  <2>2. x \in Addr
    BY <1>0, <1>1, <1>2, <2>1 DEF Addr
  <2>3. b[1] \in K /\ b[1] \in Int
    <3>1. b[1] \in Int /\ 0 \in 0 .. b[2] - 1 /\ b[1] + 0 = b[1]
      BY <1>0, <1>8
    <3>2. QED
      BY <3>1, <1>8
  <2>4. h.ram[x] - Marker = b[1]
    BY <1>0, <1>17, <2>3
  <2>5. QED
    BY <1>7, <2>1, <2>2, <2>3, <2>4
<1>18. ASSUME NEW x \in Addr PROVE ram[x] \in Cell
  <2>0. x \in Int /\ RamBase <= x /\ x < RamEnd
    BY <1>0 DEF Addr
  <2>1. CASE x \in RamBase .. top - 1
    <3>1. Back(x) \in Addr
      BY <2>1, <1>6, <1>13
    <3>2. h.ram[Back(x)] \in Cell
      BY <3>1, <1>1
    <3>3. QED
      BY <2>1, <3>2
  <2>2. CASE x \notin RamBase .. top - 1 /\ x < hr - gap
    <3>1. x + gap \in Addr
      BY <1>0, <1>1, <1>2, <1>10, <1>15, <2>0, <2>2 DEF Addr
    <3>2. h.ram[x + gap] \in Cell
      BY <3>1, <1>1
    <3>3. QED
      BY <2>2, <3>2
  <2>3. CASE x \notin RamBase .. top - 1 /\ ~(x < hr - gap) /\ x \in StackCells(h)
    <3>1. PICK b \in B : h.ram[x] = b[1] + Marker
      BY <2>3, Zenon DEF Ordered
    <3>2. b \in Live(h, B)
      BY <2>3, <3>1, Zenon DEF Live, Pointers
    <3>3. place[h.ram[x] - Marker] + Marker = Place(h, b[1]) + Marker /\ b[1] \in K
      BY <1>17, <2>3, <3>1, <3>2
    <3>4. Place(h, b[1]) \in RamBase .. top - 1
      BY <1>9, <3>3
    <3>5. Place(h, b[1]) + Marker \in Nat
      BY <1>0, <1>10, <3>4
    <3>6. ram[x] = place[h.ram[x] - Marker] + Marker
      BY <2>3
    <3>7. ram[x] \in Nat
      BY <3>3, <3>5, <3>6, Zenon
    <3>8. QED
      BY <3>7, Zenon DEF Cell
  <2>4. CASE x \notin RamBase .. top - 1 /\ ~(x < hr - gap) /\ x \notin StackCells(h)
    <3>1. h.ram[x] \in Cell
      BY <1>1
    <3>2. QED
      BY <2>4, <3>1
  <2>5. QED
    BY <2>1, <2>2, <2>3, <2>4
<1>19. ram \in [Addr -> Cell]
  BY <1>18
<1>20. ASSUME NEW x \in K
       PROVE  ram[Place(h, x)] = h.ram[x] /\ Place(h, x) \in RamBase .. top - 1
  <2>1. Place(h, x) \in RamBase .. top - 1
    BY <1>9, Zenon DEF top
  <2>2. Place(h, x) \in Addr
    BY <2>1, <1>0, <1>1, <1>2, <1>10 DEF Addr
  <2>3. ram[Place(h, x)] = h.ram[Back(Place(h, x))]
    BY <2>1, <2>2
  <2>4. QED
    BY <2>1, <2>3, <1>12, Zenon
<1>21. ASSUME NEW x \in Addr, top <= x, x < hr - gap PROVE ram[x] = h.ram[x + gap]
  <2>1. x \notin RamBase .. top - 1
    BY <1>10, <1>21
  <2>2. QED
    BY <2>1, <1>21
<1>22. ASSUME NEW b \in Live(h, B), NEW x \in StackCells(h), h.ram[x] = b[1] + Marker
       PROVE  ram[x] = Place(h, b[1]) + Marker
  <2>1. /\ x \in Int /\ x \in Addr /\ hd <= x
        /\ place[h.ram[x] - Marker] + Marker = Place(h, b[1]) + Marker
    BY <1>17, <1>22
  <2>2. x \notin RamBase .. top - 1 /\ ~(x < hr - gap)
    BY <1>0, <1>1, <1>2, <1>10, <1>15, <2>1
  <2>3. ram[x] = place[h.ram[x] - Marker] + Marker
    BY <2>1, <2>2
  <2>4. QED
    BY <2>1, <2>3, Zenon
<1> HIDE DEF ram
<1>23. /\ r \in Hp /\ r.ram = ram /\ r.temptop = top /\ r.rsktop = hr - gap /\ r.dsktop = hd
       /\ r.editline = he /\ r.avmem = av
  BY <1>1, <1>10, <1>15, <1>16, <1>19 DEF Hp
<1> HIDE DEF r, g
<1>24. QED
  BY <1>3, <1>4, <1>10, <1>20, <1>21, <1>22, <1>23, Zenon DEF g, top, gap, av, K

(* The blocks that are kept, after a collection: each has its cells and    *)
(* its size, they lie end to end again, and the memory is in order.        *)
LEMMA SlidIs ==
  ASSUME NEW h, NEW B, Ordered(h, B), NEW b \in Live(h, B)
  PROVE  LET g == Compacted(h)
             p == Place(h, b[1])
         IN /\ p \in Int /\ RamBase <= p
            /\ p + b[2] = Place(h, b[1] + b[2])
            /\ \A i \in 0 .. b[2] - 1 : g.ram[p + i] = h.ram[b[1] + i]
            /\ g.ram[p + b[2] - Word] = b[2]
<1> DEFINE K == KeptCells(h)
           s == b[1]
           n == b[2]
           top == h.temptop - 1
           p == Place(h, s)
           ram == Compacted(h).ram
<1>0. /\ RamBase \in Nat /\ RamBase \in Int /\ 0 < RamBase
      /\ Word \in Int /\ 0 < Word /\ Marker \in Int /\ 0 < Marker
  BY RplAssumption
<1>1. /\ b \in B /\ s \in Int /\ n \in Int /\ Marker + Word <= n
      /\ \A i \in 0 .. n - 1 : s + i \in K
  BY KeptIs
<1>2. h.ram[s + n - Word] = n
  BY <1>1, Zenon DEF Ordered, Tiles
<1>3. \A x \in K : ram[Place(h, x)] = h.ram[x]
  BY CompactedIs
<1>4. K \in SUBSET (RamBase .. top) /\ top \in Int
  BY KeptIs DEF Ordered, Hp
<1> HIDE DEF K, s, n, top, ram
<1>5. n \in Nat /\ s \in Int
  BY <1>0, <1>1
<1>6. Rank(K, s) \in Nat
  BY <1>0, <1>4, <1>5, RankIs
<1>7. \A i \in 0 .. n : Rank(K, s + i) = Rank(K, s) + i
  BY <1>0, <1>1, <1>4, <1>5, RankRun, ZenonT(60)
<1>8. ASSUME NEW i \in 0 .. n PROVE Place(h, s + i) = p + i
  <2>1. Rank(K, s + i) = Rank(K, s) + i /\ i \in Int
    BY <1>7, <1>5
  <2>2. QED
    BY <1>0, <1>6, <2>1 DEF Place, K
<1>9. p \in Int /\ RamBase <= p
  BY <1>0, <1>6 DEF Place, K
<1> HIDE DEF p
<1>10. ASSUME NEW i \in 0 .. n - 1 PROVE ram[p + i] = h.ram[s + i]
  <2>1. i \in 0 .. n
    BY <1>5
  <2>2. Place(h, s + i) = p + i
    BY <2>1, <1>8
  <2>3. s + i \in K
    BY <1>1
  <2>4. QED
    BY <2>2, <2>3, <1>3, Zenon
<1>11. ram[p + n - Word] = n
  <2>1. n - Word \in 0 .. n - 1
    BY <1>0, <1>1
  <2>2. ram[p + (n - Word)] = h.ram[s + (n - Word)]
    BY <2>1, <1>10
  <2>3. p + (n - Word) = p + n - Word /\ s + (n - Word) = s + n - Word
    BY <1>0, <1>5, <1>9
  <2>4. QED
    BY <2>2, <2>3, <1>2, Zenon
<1>12. n \in 0 .. n
  BY <1>5
<1>13. QED
  BY <1>8, <1>9, <1>10, <1>11, <1>12, Zenon DEF s, n, p, ram

LEMMA SlidTiles ==
  ASSUME NEW h, NEW B, Ordered(h, B)
  PROVE  Tiles(Compacted(h).ram, Slid(h, B), Compacted(h).temptop)
<1> DEFINE K == KeptCells(h)
           L == Live(h, B)
           C == Slid(h, B)
           g == Compacted(h)
           top == g.temptop
           ht == h.temptop
<1>0. /\ RamBase \in Nat /\ RamBase \in Int /\ 0 < RamBase
      /\ Word \in Int /\ 0 < Word /\ Marker \in Int /\ 0 < Marker
  BY RplAssumption
<1>1. ht \in Int /\ RamBase <= ht
  BY DEF Ordered, Hp
<1>2. \A b \in L : /\ b \in B /\ b[1] \in Int /\ b[2] \in Int
                   /\ RamBase <= b[1] /\ Marker + Word <= b[2] /\ b[1] + b[2] <= ht
  BY KeptIs
<1>3. \A b \in L : /\ Place(h, b[1]) \in Int /\ RamBase <= Place(h, b[1])
                   /\ Place(h, b[1]) + b[2] = Place(h, b[1] + b[2])
                   /\ g.ram[Place(h, b[1]) + b[2] - Word] = b[2]
  BY SlidIs
<1>4. top = RamBase + Cardinality(K) /\ top \in Int
  BY CompactedIs
<1>5. Between(K, RamBase, ht - 1)
  <2>1. K \in SUBSET (RamBase .. ht - 1)
    BY KeptIs
  <2> HIDE DEF K, ht
  <2>2. QED
    BY <1>0, <1>1, <2>1 DEF Between
<1> HIDE DEF K, ht, top
<1>6. Place(h, ht) = top
  <2>1. ht - 1 < ht
    BY <1>1
  <2>2. Rank(K, ht) = Cardinality(K)
    BY <1>1, <1>5, <2>1, RankTop, Zenon
  <2>3. QED
    BY <1>4, <2>2, Zenon DEF Place, K
<1>7. ASSUME NEW v \in Int, NEW u \in Int, v <= u
      PROVE  Place(h, v) <= Place(h, u) /\ Place(h, u) \in Int
  <2>1. RamBase \in Nat /\ ht - 1 \in Int /\ K \in SUBSET (RamBase .. ht - 1)
    BY <1>5 DEF Between
  <2>2. Rank(K, v) <= Rank(K, u)
    BY <1>7, <2>1, RankMono
  <2>3. Rank(K, v) \in Nat /\ Rank(K, u) \in Nat
    BY <2>1, RankIs
  <2>4. QED
    BY <1>0, <2>2, <2>3 DEF Place, K
<1> HIDE DEF L, g
<1>8. ASSUME NEW c \in C
      PROVE  \E b \in L : c[1] = Place(h, b[1]) /\ c[2] = b[2] /\ c = <<Place(h, b[1]), b[2]>>
  BY DEF Slid, L
<1>9. ASSUME NEW b \in L PROVE <<Place(h, b[1]), b[2]>> \in C
  BY DEF Slid, L
<1> HIDE DEF C
<1>10. C \subseteq Int \X Int
  BY <1>2, <1>3, <1>8
<1>11. ASSUME NEW c \in C
       PROVE  /\ RamBase <= c[1] /\ Marker + Word <= c[2] /\ c[1] + c[2] <= top
              /\ g.ram[c[1] + c[2] - Word] = c[2]
  <2>1. PICK b \in L : c[1] = Place(h, b[1]) /\ c[2] = b[2]
    BY <1>8
  <2>2. Place(h, b[1] + b[2]) <= Place(h, ht)
    <3> DEFINE e == b[1] + b[2]
    <3>1. e \in Int /\ e <= ht
      BY <1>2
    <3> HIDE DEF e
    <3>2. Place(h, e) <= Place(h, ht)
      BY <1>1, <1>7, <3>1
    <3>3. QED
      BY <3>2 DEF e
  <2>3. c[1] + c[2] <= top
    BY <1>3, <1>6, <2>1, <2>2, Zenon
  <2>4. QED
    BY <1>2, <1>3, <2>1, <2>3, Zenon
<1>12. ASSUME NEW c \in C, NEW d \in C
       PROVE  c = d \/ c[1] + c[2] <= d[1] \/ d[1] + d[2] <= c[1]
  <2>1. PICK b \in L : c[1] = Place(h, b[1]) /\ c[2] = b[2] /\ c = <<Place(h, b[1]), b[2]>>
    BY <1>8
  <2>2. PICK a \in L : d[1] = Place(h, a[1]) /\ d[2] = a[2] /\ d = <<Place(h, a[1]), a[2]>>
    BY <1>8
  <2>3. b = a \/ b[1] + b[2] <= a[1] \/ a[1] + a[2] <= b[1]
    BY <1>2, Zenon DEF Ordered, Tiles
  <2>4. \A x, y \in L : x[1] + x[2] <= y[1] => Place(h, x[1]) + x[2] <= Place(h, y[1])
    <3>1. SUFFICES ASSUME NEW x \in L, NEW y \in L, x[1] + x[2] <= y[1]
                   PROVE  Place(h, x[1]) + x[2] <= Place(h, y[1])
      BY Zenon
    <3> DEFINE e == x[1] + x[2]
               f == y[1]
    <3>2. e \in Int /\ f \in Int /\ e <= f
      BY <1>2, <3>1
    <3> HIDE DEF e, f
    <3>3. Place(h, e) <= Place(h, f)
      BY <1>7, <3>2
    <3>4. QED
      BY <1>3, <3>3, Zenon DEF e, f
  <2>5. CASE b = a
    BY <2>1, <2>2, <2>5, Zenon
  <2>6. CASE b[1] + b[2] <= a[1]
    BY <2>1, <2>2, <2>4, <2>6, Zenon
  <2>7. CASE a[1] + a[2] <= b[1]
    BY <2>1, <2>2, <2>4, <2>7, Zenon
  <2>8. QED
    BY <2>3, <2>5, <2>6, <2>7
<1>13. ASSUME NEW v \in Int, \A b \in L : b[1] + b[2] <= v \/ v <= b[1]
       PROVE  Place(h, v) = RamBase \/ \E d \in C : d[1] + d[2] = Place(h, v)
  <2>1. \/ Place(h, v) = RamBase
        \/ \E b \in L : Place(h, b[1]) + b[2] = Place(h, v)
    BY <1>13, SlidMeet DEF L
  <2>2. ASSUME NEW b \in L, Place(h, b[1]) + b[2] = Place(h, v)
        PROVE  \E d \in C : d[1] + d[2] = Place(h, v)
    <3> DEFINE d == <<Place(h, b[1]), b[2]>>
    <3>1. d \in C /\ d[1] = Place(h, b[1]) /\ d[2] = b[2]
      BY <1>9
    <3> HIDE DEF d
    <3>2. QED
      BY <2>2, <3>1, Zenon
  <2>3. QED
    BY <2>1, <2>2, Zenon
<1>14. ASSUME NEW c \in C PROVE c[1] = RamBase \/ \E d \in C : d[1] + d[2] = c[1]
  <2>1. PICK b \in L : c[1] = Place(h, b[1])
    BY <1>8
  <2>2. b[1] \in Int
    BY <1>2
  <2>3. ASSUME NEW a \in L PROVE a[1] + a[2] <= b[1] \/ b[1] <= a[1]
    <3>1. b = a \/ b[1] + b[2] <= a[1] \/ a[1] + a[2] <= b[1]
      BY <1>2, Zenon DEF Ordered, Tiles
    <3>2. b[1] <= b[1]
      BY <2>2
    <3>3. b[1] + b[2] <= a[1] => b[1] <= a[1]
      BY <1>0, <1>2
    <3>4. QED
      BY <3>1, <3>2, <3>3, Zenon
  <2>4. QED
    BY <2>1, <2>2, <2>3, <1>13, Zenon
<1>15. top = RamBase \/ \E d \in C : d[1] + d[2] = top
  <2>1. \A a \in L : a[1] + a[2] <= ht \/ ht <= a[1]
    BY <1>2
  <2>2. QED
    BY <2>1, <1>1, <1>6, <1>13, Zenon
<1>16. QED
  BY <1>10, <1>11, <1>12, <1>14, <1>15, Zenon DEF Tiles, top, C, g

(* A collection keeps the memory in order and what the HP shows.           *)
LEMMA CollectKeeps ==
  ASSUME NEW h, NEW B, Ordered(h, B)
  PROVE  /\ Ordered(Compacted(h), Slid(h, B))
         /\ Keeps(h, B, Compacted(h), Slid(h, B))
<1> DEFINE C == Slid(h, B)
           g == Compacted(h)
           L == Live(h, B)
           ht == h.temptop
           hr == h.rsktop
           hd == h.dsktop
           he == h.editline
           gap == ht - (RamBase + Cardinality(KeptCells(h)))
           gt == g.temptop
<1>0. /\ RamBase \in Nat /\ RamBase \in Int /\ 0 < RamBase /\ RamEnd \in Int
      /\ Word \in Int /\ 0 < Word /\ Marker \in Int /\ 0 < Marker
  BY RplAssumption
<1>1. /\ ht \in Int /\ hr \in Int /\ hd \in Int /\ he \in Int /\ h.ram \in [Addr -> Cell]
  BY DEF Ordered, Hp
<1>2. /\ RamBase <= ht /\ ht <= hr /\ hr <= hd /\ hd + Word <= he /\ he < RamEnd
  BY DEF Ordered
<1>3. /\ h.temptop = ht /\ h.rsktop = hr /\ h.dsktop = hd /\ h.editline = he
      /\ g.temptop = gt
  OBVIOUS
<1>4. /\ g \in Hp /\ RamBase <= gt /\ gt <= ht /\ gt \in Int
      /\ gt = RamBase + Cardinality(KeptCells(h))
      /\ g.rsktop = hr - gap /\ g.dsktop = hd /\ g.editline = he
      /\ g.avmem = (Free(h) + gap) \div Word
      /\ \A x \in Addr : gt <= x /\ x < hr - gap => g.ram[x] = h.ram[x + gap]
      /\ \A b \in L, x \in StackCells(h) :
           h.ram[x] = b[1] + Marker => g.ram[x] = Place(h, b[1]) + Marker
  BY CompactedIs
<1>5. gap = ht - gt
  BY <1>4, Zenon
<1>6. Free(h) = hd - hr /\ Free(g) = hd - (hr - gap)
  BY <1>4, Zenon DEF Free
<1>7. \A x \in StackCells(h) : \E b \in L : h.ram[x] = b[1] + Marker
  BY Zenon DEF Ordered, Live, Pointers
<1>8. StackCells(g) = StackCells(h)
  BY <1>4, StackCellsSame
<1>9. ASSUME NEW b \in L
      PROVE  /\ <<Place(h, b[1]), b[2]>> \in C /\ b \in B
             /\ \A i \in 0 .. b[2] - 1 : g.ram[Place(h, b[1]) + i] = h.ram[b[1] + i]
  BY SlidIs, Zenon DEF Live, Slid
<1>10. \A b \in L : b[2] \in Int
  BY KeptIs
<1>11. Tiles(g.ram, C, gt)
  BY SlidTiles, Zenon
<1> HIDE DEF C, g, L, ht, hr, hd, he, gap, gt
<1>12. /\ gap \in Int /\ 0 <= gap /\ gt <= hr - gap /\ hr - gap <= hd /\ hr - gap \in Int
       /\ (hr - gap) - gt = hr - ht
  BY <1>0, <1>1, <1>2, <1>4, <1>5
<1>13. g.avmem = Free(g) \div Word
  <2>1. Free(h) + gap = Free(g)
    BY <1>1, <1>6, <1>12
  <2>2. QED
    BY <2>1, <1>4, Zenon
<1>14. ASSUME NEW x \in StackCells(h), NEW b \in L, h.ram[x] = b[1] + Marker
       PROVE  \E c \in C : /\ g.ram[x] = c[1] + Marker /\ c[2] = b[2]
                           /\ \A i \in Marker .. b[2] - Word - 1 : g.ram[c[1] + i] = h.ram[b[1] + i]
  <2> DEFINE c == <<Place(h, b[1]), b[2]>>
  <2>1. c \in C /\ c[1] = Place(h, b[1]) /\ c[2] = b[2]
    BY <1>9
  <2> HIDE DEF c
  <2>2. g.ram[x] = c[1] + Marker
    BY <1>4, <1>14, <2>1, Zenon
  <2>3. \A i \in Marker .. b[2] - Word - 1 : i \in 0 .. b[2] - 1
    BY <1>0, <1>10
  <2>4. \A i \in Marker .. b[2] - Word - 1 : g.ram[c[1] + i] = h.ram[b[1] + i]
    BY <1>9, <2>1, <2>3, Zenon
  <2>5. QED
    BY <2>1, <2>2, <2>4, Zenon
<1>15. ASSUME NEW i \in 0 .. hr - ht - 1 PROVE g.ram[gt + i] = h.ram[ht + i]
  <2> DEFINE x == gt + i
  <2>0. i \in Int /\ 0 <= i /\ i < hr - ht
    BY <1>1
  <2>1. x \in Addr /\ gt <= x /\ x < hr - gap /\ x + gap = ht + i
    <3>1. gt \in Int /\ RamBase <= gt
      BY <1>4
    <3>2. gt <= x /\ x + gap = ht + i
      BY <1>1, <1>5, <2>0, <3>1
    <3>3. x < hr - gap
      BY <1>1, <1>12, <2>0, <3>1
    <3>4. x \in Int /\ RamBase <= x /\ x < RamEnd
      BY <1>0, <1>1, <1>2, <1>12, <2>0, <3>1, <3>3
    <3>5. QED
      BY <1>0, <3>2, <3>3, <3>4 DEF Addr
  <2> HIDE DEF x
  <2>2. g.ram[x] = h.ram[x + gap]
    BY <1>4, <2>1
  <2>3. g.ram[x] = h.ram[ht + i]
    BY <2>1, <2>2, Zenon
  <2>4. QED
    BY <2>3 DEF x
<1>16. Ordered(g, C)
  <2>1. ASSUME NEW x \in StackCells(g) PROVE \E c \in C : g.ram[x] = c[1] + Marker
    BY <1>7, <1>8, <1>14, Zenon
  <2>2. QED
    BY <1>2, <1>3, <1>4, <1>11, <1>12, <1>13, <2>1, Zenon DEF Ordered
<1>17. Keeps(h, B, g, C)
  <2>1. ASSUME NEW x \in StackCells(h)
        PROVE  \E b \in B, c \in C :
                 /\ h.ram[x] = b[1] + Marker /\ g.ram[x] = c[1] + Marker /\ c[2] = b[2]
                 /\ \A i \in Marker .. b[2] - Word - 1 : g.ram[c[1] + i] = h.ram[b[1] + i]
    BY <1>7, <1>9, <1>14, Zenon
  <2>2. QED
    BY <1>3, <1>4, <1>12, <1>15, <2>1, Zenon DEF Keeps
<1>18. QED
  BY <1>16, <1>17, Zenon DEF g, C

-----------------------------------------------------------------------------
(* The invariant.                                                          *)

(* The import of a payload is under way and has written a part of it.      *)
Importing(h, t, payload) ==
  /\ \E B : Underway(h, t, B)
  /\ 2 * t.bytes = Len(payload)
  /\ \A i \in 1 .. 2 * t.written : h.ram[t.object + i - 1] = payload[i]

(* The memory is in order once the ROM has set up its pointers.            *)
InHand(h) == rpl_pointers(h) => \E B : Ordered(h, B)

MemoryInv ==
  /\ selected \in Names \cup {NoName}
  /\ job # "idle" => ~torn
  /\ job \in {"read", "close"} => selected \in Names /\ Importing(hp, transfer, Payload)
  /\ job = "close" => transfer.written = transfer.bytes
  /\ job \notin {"read", "close"} /\ ~torn => InHand(hp)

(* What the memory holds after a restart, and before the ROM is ready.     *)
LEMMA BootIs == \E B : Ordered(BootHp, B)
<1> DEFINE B == TempBlocks(BootHp)
<1>1. /\ BootHp \in Hp /\ rpl_pointers(BootHp) /\ InOrder(BootHp)
      /\ BootHp.dsktop + Word <= BootHp.editline
  BY ObjectFilesAssumption
<1>2. \A x \in StackCells(BootHp) : \E b \in B : BootHp.ram[x] = b[1] + Marker
  BY <1>1, Zenon DEF InOrder, Pointers
<1>3. Ordered(BootHp, B)
  BY <1>1, <1>2, Zenon DEF Ordered, InOrder, rpl_pointers
<1>4. QED
  BY <1>3

LEMMA UnreadyIs ==
  ASSUME NEW h, h = [BootHp EXCEPT !.temptop = 0, !.rsktop = 0, !.dsktop = 0,
                                   !.editline = 0, !.avmem = 0]
  PROVE  ~rpl_pointers(h)
<1>1. BootHp \in Hp
  BY ObjectFilesAssumption
<1>2. h.temptop = 0
  BY <1>1 DEF Hp
<1>3. QED
  BY <1>2, RplAssumption DEF rpl_pointers

(* The next file is one of the INBOX.                                      *)
LEMMA NamesAre == Names \in SUBSET Nat /\ \A name \in Names : NoName < name
<1>1. ASSUME NEW name \in Names PROVE name \in Nat /\ NoName < name
  <2>1. PICK entry \in Inbox : entry.name = name
    BY Zenon DEF Names
  <2>2. entry.name \in Nat /\ entry.name > NoName
    BY ObjectFilesAssumption
  <2>3. NoName \in Nat
    BY ObjectFilesAssumption
  <2>4. QED
    BY <2>1, <2>2, <2>3
<1>2. QED
  BY <1>1

LEMMA LeastIs ==
  ASSUME NEW S \in SUBSET Nat, S # {}
  PROVE  Least(S) \in S /\ \A y \in S : Least(S) <= y
<1>1. \E n \in S : \A m \in S : n <= m
  BY LeastNumber
<1>2. QED
  BY <1>1 DEF Least

LEMMA NextNameIs ==
  ASSUME NEW name
  PROVE  NextName(name) \in Names \cup {NoName}
<1> DEFINE after == {n \in Names : n > name}
<1>1. ASSUME Names # {} PROVE Least(Names) \in Names
  BY <1>1, NamesAre, LeastIs
<1>2. ASSUME after # {} PROVE Least(after) \in Names
  <2>1. after \in SUBSET Nat /\ after \in SUBSET Names
    BY NamesAre
  <2> HIDE DEF after
  <2>2. Least(after) \in after
    BY <2>1, <1>2, LeastIs
  <2>3. QED
    BY <2>1, <2>2
<1>3. NextName(name) = IF Names = {} THEN NoName
                       ELSE IF name = NoName \/ after = {} THEN Least(Names) ELSE Least(after)
  BY DEF NextName
<1> HIDE DEF after
<1>4. QED
  BY <1>1, <1>2, <1>3

(* What a file of the INBOX holds.                                         *)
LEMMA PayloadIs ==
  ASSUME NEW name \in Names
  PROVE  Entry(name).payload \in Seq(Cell) /\ Len(Entry(name).payload) % 2 = 0
<1>1. \E entry \in Inbox : entry.name = name
  BY Zenon DEF Names
<1>2. Entry(name) \in Inbox
  BY <1>1, Zenon DEF Entry
<1>3. QED
  BY <1>2, ObjectFilesAssumption

(* The begin of an import: every outcome it can have.                      *)
LEMMA BeginIs ==
  ASSUME NEW h, NEW n, NEW begun \in ImportBegin(h, n)
  PROVE  \/ begun = Outcome(h, NoTransfer, "OUT_OF_RANGE")
         \/ begun = Outcome(h, NoTransfer, "NOT_READY")
         \/ rpl_pointers(h) /\ Fits(h, Allocation(n)) /\ begun = Accepted(h, n)
         \/ rpl_pointers(h) /\ \E x \in HalfCompacted(h) : begun = Outcome(x, NoTransfer, "GC_FAILED")
         \/ /\ rpl_pointers(h) /\ Fits(Compacted(h), Allocation(n))
            /\ begun = Accepted(Compacted(h), n)
         \/ rpl_pointers(h) /\ begun = Outcome(Compacted(h), NoTransfer, "NO_MEMORY")
<1> DEFINE a == Allocation(n)
           far == Outcome(h, NoTransfer, "OUT_OF_RANGE")
           none == Outcome(h, NoTransfer, "NOT_READY")
           some == Accepted(h, n)
           late == Accepted(Compacted(h), n)
           full == Outcome(Compacted(h), NoTransfer, "NO_MEMORY")
           torns == {Outcome(x, NoTransfer, "GC_FAILED") : x \in HalfCompacted(h)}
           last == IF Fits(Compacted(h), a) THEN late ELSE full
<1>1. ImportBegin(h, n) =
        IF n = 0 \/ 2 * n > RamEnd - RamBase - Marker - Word THEN {far}
        ELSE IF ~rpl_pointers(h) THEN {none}
        ELSE IF Fits(h, a) THEN {some}
        ELSE torns \cup {last}
  BY DEF ImportBegin
<1> HIDE DEF far, none, some, last
<1>2. \/ begun = far \/ begun = none
      \/ rpl_pointers(h) /\ Fits(h, a) /\ begun = some
      \/ rpl_pointers(h) /\ begun \in torns
      \/ rpl_pointers(h) /\ begun = last
  <2> HIDE DEF torns, a
  <2>1. begun \in torns \cup {last} => begun \in torns \/ begun = last
    OBVIOUS
  <2>2. \A x : begun \in {x} => begun = x
    OBVIOUS
  <2>3. QED
    BY <1>1, <2>1, <2>2, Zenon
<1>3. begun = last => (Fits(Compacted(h), a) /\ begun = late) \/ begun = full
  BY Zenon DEF last
<1>4. begun \in torns => \E x \in HalfCompacted(h) : begun = Outcome(x, NoTransfer, "GC_FAILED")
  BY Zenon
<1>5. QED
  BY <1>2, <1>3, <1>4, Zenon DEF far, none, some, late, full

(* What an accepted or a refused import leaves.                            *)
LEMMA BeginKeeps ==
  ASSUME NEW h, InHand(h), NEW n \in Nat \ {0}, NEW begun \in ImportBegin(h, n)
  PROVE  /\ begun.status \in {"OK", "OUT_OF_RANGE", "NOT_READY", "GC_FAILED", "NO_MEMORY"}
         /\ begun.status = "OK" =>
              /\ \E B : Underway(begun.hp, begun.transfer, B)
              /\ begun.transfer.bytes = n /\ begun.transfer.written = 0
         /\ begun.status \notin {"OK", "GC_FAILED"} => InHand(begun.hp)
<1> DEFINE a == Allocation(n)
           far == Outcome(h, NoTransfer, "OUT_OF_RANGE")
           none == Outcome(h, NoTransfer, "NOT_READY")
           some == Accepted(h, n)
           late == Accepted(Compacted(h), n)
           full == Outcome(Compacted(h), NoTransfer, "NO_MEMORY")
<1>1. /\ far.hp = h /\ far.status = "OUT_OF_RANGE"
      /\ none.hp = h /\ none.status = "NOT_READY"
      /\ full.hp = Compacted(h) /\ full.status = "NO_MEMORY"
      /\ \A x : Outcome(x, NoTransfer, "GC_FAILED").status = "GC_FAILED"
  BY DEF Outcome
<1>2. ASSUME NEW g PROVE /\ Accepted(g, n).transfer.bytes = n
                         /\ Accepted(g, n).transfer.written = 0
                         /\ Accepted(g, n).status = "OK"
  BY DEF Accepted, Outcome
<1>3. \/ begun = far \/ begun = none
      \/ rpl_pointers(h) /\ Fits(h, a) /\ begun = some
      \/ rpl_pointers(h) /\ \E x \in HalfCompacted(h) : begun = Outcome(x, NoTransfer, "GC_FAILED")
      \/ rpl_pointers(h) /\ Fits(Compacted(h), a) /\ begun = late
      \/ rpl_pointers(h) /\ begun = full
  BY BeginIs
<1> HIDE DEF far, none, some, late, full
<1>4. CASE begun = far \/ begun = none
  BY <1>1, <1>4, Zenon
<1>5. CASE rpl_pointers(h) /\ Fits(h, a) /\ begun = some
  <2>1. PICK B : Ordered(h, B)
    BY <1>5 DEF InHand
  <2>2. Underway(some.hp, some.transfer, B)
    BY <2>1, <1>5, BeginAccepts, Zenon DEF some
  <2>3. QED
    BY <2>2, <1>2, <1>5, Zenon DEF some
<1>6. CASE \E x \in HalfCompacted(h) : begun = Outcome(x, NoTransfer, "GC_FAILED")
  BY <1>1, <1>6, Zenon
<1>7. CASE rpl_pointers(h) /\ Fits(Compacted(h), a) /\ begun = late
  <2>1. PICK B : Ordered(h, B)
    BY <1>7 DEF InHand
  <2>2. Ordered(Compacted(h), Slid(h, B))
    BY <2>1, CollectKeeps
  <2>3. Underway(late.hp, late.transfer, Slid(h, B))
    BY <2>2, <1>7, BeginAccepts, Zenon DEF late
  <2>4. QED
    BY <2>3, <1>2, <1>7, Zenon DEF late
<1>8. CASE rpl_pointers(h) /\ begun = full
  <2>1. PICK B : Ordered(h, B)
    BY <1>8 DEF InHand
  <2>2. Ordered(Compacted(h), Slid(h, B))
    BY <2>1, CollectKeeps
  <2>3. InHand(full.hp)
    BY <2>2, <1>1, Zenon DEF InHand
  <2>4. QED
    BY <2>3, <1>1, <1>8, Zenon
<1>9. QED
  BY <1>3, <1>4, <1>5, <1>6, <1>7, <1>8, Zenon

(* An import that is aborted or committed.                                 *)
LEMMA EndKeeps ==
  ASSUME NEW h, NEW t, NEW payload, Importing(h, t, payload), NEW result
  PROVE  InHand(ImportAbort(h, t, result).hp) /\ InHand(ImportCommit(h, t).hp)
<1>1. PICK B : Underway(h, t, B)
  BY DEF Importing
<1>2. \A x : InHand(ImportAbort(h, t, x).hp)
  BY <1>1, AbortRestores DEF InHand
<1>3. InHand(ImportCommit(h, t).hp)
  <2> DEFINE o == ImportCommit(h, t)
             new == <<t.temptop, t.allocation>>
  <2>1. \/ o = ImportAbort(h, t, o.status)
        \/ Ordered(o.hp, B \cup {new})
    BY <1>1, CommitIs
  <2> HIDE DEF o, new
  <2>2. InHand(o.hp)
    BY <2>1, <1>2, Zenon DEF InHand
  <2>3. QED
    BY <2>2 DEF o
<1>4. QED
  BY <1>2, <1>3

(* A write of the next cells of the payload.                               *)
LEMMA WriteImports ==
  ASSUME NEW h, NEW t, NEW payload \in Seq(Cell), Importing(h, t, payload),
         NEW w \in Nat, t.written + w <= t.bytes
  PROVE  LET from == 2 * t.written
             o == ImportWrite(h, t, SubSeq(payload, from + 1, from + 2 * w))
         IN /\ Importing(o.hp, o.transfer, payload)
            /\ o.transfer.written = t.written + w /\ o.transfer.bytes = t.bytes
<1> DEFINE tw == t.written
           tb == t.bytes
           ob == t.object
           from == 2 * t.written
           at == ob + from
           cells == SubSeq(payload, from + 1, from + 2 * w)
           o == ImportWrite(h, t, cells)
<1>1. PICK B : Underway(h, t, B)
  BY DEF Importing
<1>2. /\ tw \in Int /\ 0 <= tw /\ tb \in Int /\ ob \in Int /\ t \in ImportRecord
      /\ tw + w <= tb /\ from = 2 * tw /\ at = ob + from
  BY <1>1, UnderwayTypes, SMTT(30) DEF Underway
<1>3. 2 * tb = Len(payload) /\ \A i \in 1 .. 2 * tw : h.ram[ob + i - 1] = payload[i]
  BY Zenon DEF Importing
<1>4. \A x \in Addr : x \in Int /\ RamBase <= x
  BY Sizes DEF Addr
<1>5. /\ ob = t.temptop + Marker /\ RamBase <= t.temptop /\ t.temptop \in Int
      /\ h.temptop = t.temptop + t.allocation /\ h.temptop \in Int
      /\ t.allocation = 2 * tb + Marker + Word
      /\ h.rsktop = t.rsktop + t.allocation /\ t.rsktop \in Int /\ t.temptop <= t.rsktop
      /\ h.rsktop + Word <= h.dsktop /\ h.dsktop + Word <= h.editline /\ h.editline < RamEnd
      /\ h.dsktop \in Int /\ h.editline \in Int
  BY <1>1, UnderwayTypes, UnderwayLies
<1>6. RamBase <= ob /\ ob + 2 * tb < RamEnd
  <2> DEFINE tt == t.temptop
             tr == t.rsktop
             al == t.allocation
             hd == h.dsktop
             he == h.editline
  <2>1. /\ ob = tt + Marker /\ RamBase <= tt /\ tt \in Int /\ al = 2 * tb + Marker + Word
        /\ tr + al + Word <= hd /\ tr \in Int /\ tt <= tr
        /\ hd + Word <= he /\ he < RamEnd /\ hd \in Int /\ he \in Int
    BY <1>5, Zenon
  <2> HIDE DEF tt, tr, al, hd, he, tb, ob
  <2>2. QED
    BY <1>2, <2>1, Sizes
<1> HIDE DEF tw, tb, ob, from, at
<1>7. /\ from \in Nat /\ from + 1 \in 1 .. Len(payload) + 1 /\ from + 2 * w <= Len(payload)
      /\ from + 2 * w \in Int
  BY <1>2, <1>3
<1>8. /\ cells \in Seq(Cell) /\ Len(cells) = 2 * w
      /\ \A i \in 1 .. 2 * w : cells[i] = payload[from + i]
  BY <1>7
<1> HIDE DEF cells
<1>9. /\ Underway(o.hp, o.transfer, B)
      /\ o.transfer = [t EXCEPT !.written = tw + w]
      /\ \A i \in 1 .. 2 * w : o.hp.ram[at + i - 1] = cells[i]
      /\ \A x \in Addr : x < at \/ at + 2 * w <= x => o.hp.ram[x] = h.ram[x]
  <2>1. /\ Underway(o.hp, o.transfer, B)
        /\ o.transfer = [t EXCEPT !.written = t.written + w]
        /\ \A i \in 1 .. 2 * w : o.hp.ram[t.object + 2 * t.written + i - 1] = cells[i]
        /\ \A x \in Addr : x < t.object + 2 * t.written \/ t.object + 2 * t.written + 2 * w <= x
             => o.hp.ram[x] = h.ram[x]
    BY <1>1, <1>8, WriteKeeps
  <2> HIDE DEF o
  <2>2. QED
    BY <2>1, Zenon DEF tw, from, at, ob
<1> HIDE DEF o
<1>10. o.transfer.written = tw + w /\ o.transfer.bytes = tb /\ o.transfer.object = ob
  BY <1>2, <1>9 DEF ImportRecord, tw, tb, ob
<1>11. ASSUME NEW i \in 1 .. 2 * (tw + w) PROVE o.hp.ram[ob + i - 1] = payload[i]
  <2>0. i \in Int /\ 1 <= i /\ i <= 2 * tw + 2 * w
    BY <1>2
  <2>1. CASE i <= from
    <3> DEFINE x == ob + i - 1
    <3>1. x \in Addr /\ x < at /\ i \in 1 .. 2 * tw
      BY <1>2, <1>6, <2>0, <2>1, Sizes DEF Addr
    <3>2. h.ram[x] = payload[i]
      BY <1>3, <3>1
    <3> HIDE DEF x
    <3>3. o.hp.ram[x] = payload[i]
      BY <1>9, <3>1, <3>2
    <3>4. QED
      BY <3>3 DEF x
  <2>2. CASE ~(i <= from)
    <3> DEFINE j == i - from
    <3>1. j \in 1 .. 2 * w /\ at + j - 1 = ob + i - 1 /\ from + j = i
      BY <1>2, <2>0, <2>2
    <3> HIDE DEF j
    <3>2. o.hp.ram[at + j - 1] = cells[j] /\ cells[j] = payload[from + j]
      BY <1>8, <1>9, <3>1
    <3>3. QED
      BY <3>1, <3>2, Zenon
  <2>3. QED
    BY <2>1, <2>2
<1>12. Importing(o.hp, o.transfer, payload)
  BY <1>3, <1>9, <1>10, <1>11, Zenon DEF Importing
<1>13. QED
  BY <1>10, <1>12, Zenon DEF o, tw, tb, cells, from

-----------------------------------------------------------------------------
(* The steps.                                                              *)

LEMMA DoneIs == ASSUME NEW result, Done(result) PROVE job' = "idle"
BY DEF Done

(* Between transfers the memory is in order.                               *)
LEMMA IdleIs ==
  ASSUME MemoryInv, Idle
  PROVE  InHand(hp) /\ ~torn /\ selected \in Names \cup {NoName}
BY DEF MemoryInv, Idle

(* A step after which the HP is between transfers, or exports.             *)
LEMMA Settles ==
  ASSUME job' \notin {"read", "close"}, torn' => job' = "idle",
         selected' \in Names \cup {NoName}, ~torn' => InHand(hp')
  PROVE  MemoryInv'
<1>1. (job # "idle" => ~torn)'
  OBVIOUS
<1>2. (job = "close" => transfer.written = transfer.bytes)'
  OBVIOUS
<1>3. QED
  BY <1>1, <1>2, Zenon DEF MemoryInv

LEMMA CycleStep ==
  ASSUME MemoryInv, object_files_cycle
  PROVE  MemoryInv'
<1>1. /\ selected' = NextName(selected) /\ hp' = hp /\ torn' = torn /\ job' = job
      /\ job = "idle"
  BY DEF object_files_cycle, Idle
<1>2. InHand(hp) /\ ~torn
  BY IdleIs DEF object_files_cycle
<1>3. QED
  BY <1>1, <1>2, NextNameIs, Settles

LEMMA UnreadableStep ==
  ASSUME MemoryInv, ImportUnreadable
  PROVE  MemoryInv'
<1>1. /\ hp' = hp /\ torn' = torn /\ job' = "idle"
      /\ selected' \in {selected, IF selected = NoName THEN NextName(NoName) ELSE selected}
  BY DoneIs DEF ImportUnreadable
<1>2. InHand(hp) /\ ~torn /\ selected \in Names \cup {NoName}
  BY IdleIs DEF ImportUnreadable
<1>3. selected' \in Names \cup {NoName}
  BY <1>1, <1>2, NextNameIs
<1>4. QED
  BY <1>1, <1>2, <1>3, Settles

LEMMA ImportStep ==
  ASSUME MemoryInv, object_files_import_selected
  PROVE  MemoryInv'
<1> DEFINE s == selected'
           n == Len(Entry(s).payload) \div 2
<1>1. InHand(hp) /\ ~torn /\ selected \in Names \cup {NoName}
  BY IdleIs DEF object_files_import_selected
<1>2. s \in Names \cup {NoName}
  BY <1>1, NextNameIs DEF object_files_import_selected
<1>3. CASE s = NoName
  <2>1. job' = "idle" /\ hp' = hp /\ torn' = torn
    BY <1>3, DoneIs DEF object_files_import_selected
  <2>2. QED
    BY <1>1, <1>2, <2>1, Settles
<1>4. CASE s # NoName /\ Entry(s).header # "HPHP48-"
  <2>1. job' = "idle" /\ hp' = hp /\ torn' = torn
    BY <1>4, DoneIs DEF object_files_import_selected
  <2>2. QED
    BY <1>1, <1>2, <2>1, Settles
<1>5. CASE s # NoName /\ Entry(s).header = "HPHP48-" /\ Entry(s).payload = <<>>
  <2>1. job' = "idle" /\ hp' = hp /\ torn' = torn
    BY <1>5, DoneIs DEF object_files_import_selected
  <2>2. QED
    BY <1>1, <1>2, <2>1, Settles
<1>6. CASE s # NoName /\ Entry(s).header = "HPHP48-" /\ Entry(s).payload # <<>>
  <2>1. PICK begun \in ImportBegin(hp, n) :
          /\ hp' = begun.hp /\ transfer' = begun.transfer
          /\ torn' = (begun.status = "GC_FAILED")
          /\ IF begun.status = "OK" THEN job' = "read" /\ UNCHANGED status
             ELSE Done(begun.status)
    BY <1>6, Zenon DEF object_files_import_selected
  <2>2. s \in Names
    BY <1>2, <1>6
  <2>3. n \in Nat \ {0} /\ 2 * n = Len(Entry(s).payload)
    <3> DEFINE payload == Entry(s).payload
    <3>1. payload \in Seq(Cell) /\ Len(payload) % 2 = 0 /\ payload # <<>>
      BY <1>6, <2>2, PayloadIs
    <3> HIDE DEF payload
    <3>2. Len(payload) \in Nat \ {0}
      BY <3>1
    <3>3. Len(payload) \div 2 \in Nat \ {0} /\ 2 * (Len(payload) \div 2) = Len(payload)
      BY <3>1, <3>2
    <3>4. QED
      BY <3>3 DEF payload
  <2> HIDE DEF n, s
  <2>4. /\ begun.status \in {"OK", "OUT_OF_RANGE", "NOT_READY", "GC_FAILED", "NO_MEMORY"}
        /\ begun.status = "OK" =>
             /\ \E B : Underway(begun.hp, begun.transfer, B)
             /\ begun.transfer.bytes = n /\ begun.transfer.written = 0
        /\ begun.status \notin {"OK", "GC_FAILED"} => InHand(begun.hp)
    BY <1>1, <2>3, BeginKeeps
  <2>5. CASE begun.status = "OK"
    <3>1. job' = "read" /\ hp' = begun.hp /\ transfer' = begun.transfer /\ ~torn'
      BY <2>1, <2>5
    <3>2. Importing(begun.hp, begun.transfer, Entry(s).payload)
      <4>1. 1 .. 2 * begun.transfer.written = {}
        BY <2>4, <2>5
      <4>2. 2 * begun.transfer.bytes = Len(Entry(s).payload)
        BY <2>3, <2>4, <2>5, Zenon
      <4>3. QED
        BY <2>4, <2>5, <4>1, <4>2, Zenon DEF Importing
    <3>3. (Importing(hp, transfer, Payload))'
      BY <3>1, <3>2, Zenon DEF Payload, s
    <3>4. (selected \in Names)'
      BY <2>2 DEF s
    <3>5. QED
      BY <3>1, <3>3, <3>4 DEF MemoryInv
  <2>6. CASE begun.status # "OK"
    <3>1. job' = "idle" /\ hp' = begun.hp /\ torn' = (begun.status = "GC_FAILED")
      BY <2>1, <2>6, DoneIs
    <3>2. ~torn' => InHand(hp')
      BY <2>4, <2>6, <3>1, Zenon
    <3>3. s \in Names \cup {NoName}
      BY <2>2
    <3>4. QED
      BY <3>1, <3>2, <3>3, Settles DEF s
  <2>7. QED
    BY <2>5, <2>6
<1>7. QED
  BY <1>3, <1>4, <1>5, <1>6

LEMMA ReadStep ==
  ASSUME MemoryInv, ImportRead
  PROVE  MemoryInv'
<1> DEFINE left == transfer.bytes - transfer.written
           wanted == IF left > BUFFER_BYTES THEN BUFFER_BYTES ELSE left
           from == 2 * transfer.written
           wrote == ImportWrite(hp, transfer, SubSeq(Payload, from + 1, from + 2 * wanted))
<1>1. /\ job = "read" /\ selected \in Names /\ Importing(hp, transfer, Payload) /\ ~torn
      /\ selected' = selected /\ torn' = torn
  BY DEF ImportRead, MemoryInv
<1>2. \/ /\ hp' = wrote.hp /\ transfer' = wrote.transfer
         /\ job' = IF wanted = left THEN "close" ELSE "read"
      \/ EndImport(ImportAbort(hp, transfer, "IO_ERROR"))
  BY Zenon DEF ImportRead
<1>3. CASE EndImport(ImportAbort(hp, transfer, "IO_ERROR"))
  <2>1. job' = "idle" /\ hp' = ImportAbort(hp, transfer, "IO_ERROR").hp
    BY <1>3, DoneIs DEF EndImport
  <2>2. InHand(hp')
    BY <1>1, <2>1, EndKeeps
  <2>3. QED
    BY <1>1, <2>1, <2>2, Settles
<1>4. CASE /\ hp' = wrote.hp /\ transfer' = wrote.transfer
           /\ job' = IF wanted = left THEN "close" ELSE "read"
  <2>1. Payload \in Seq(Cell)
    BY <1>1, PayloadIs DEF Payload
  <2>2. /\ transfer.bytes \in Int /\ transfer.written \in Int
        /\ transfer.written <= transfer.bytes
    BY <1>1 DEF Importing, Underway
  <2>3. wanted \in Nat /\ transfer.written + wanted <= transfer.bytes
        /\ (wanted = left => transfer.written + wanted = transfer.bytes)
    <3> DEFINE tb == transfer.bytes
               tw == transfer.written
    <3>1. tb \in Int /\ tw \in Int /\ tw <= tb /\ left = tb - tw
      BY <2>2
    <3> HIDE DEF tb, tw
    <3>2. left \in Int /\ 0 <= left /\ BUFFER_BYTES \in Nat
      BY <3>1, ObjectFilesAssumption
    <3>3. wanted \in Nat /\ wanted <= left
      BY <3>2
    <3> HIDE DEF wanted, left
    <3>4. tw + wanted <= tb /\ (wanted = left => tw + wanted = tb)
      BY <3>1, <3>2, <3>3
    <3>5. QED
      BY <3>3, <3>4 DEF tb, tw
  <2> HIDE DEF wanted, left
  <2>4. /\ Importing(wrote.hp, wrote.transfer, Payload)
        /\ wrote.transfer.written = transfer.written + wanted
        /\ wrote.transfer.bytes = transfer.bytes
    BY <1>1, <2>1, <2>3, WriteImports
  <2> HIDE DEF wrote
  <2>5. (Importing(hp, transfer, Payload))'
    BY <1>1, <1>4, <2>4, Zenon DEF Payload
  <2>6. job' = "close" => transfer'.written = transfer'.bytes
    BY <1>4, <2>3, <2>4
  <2>7. job' \in {"read", "close"}
    BY <1>4
  <2>8. QED
    BY <1>1, <2>5, <2>6, <2>7 DEF MemoryInv
<1>5. QED
  BY <1>2, <1>3, <1>4

LEMMA CloseStep ==
  ASSUME MemoryInv, ImportClose
  PROVE  MemoryInv'
<1>1. /\ job = "close" /\ selected \in Names /\ Importing(hp, transfer, Payload) /\ ~torn
      /\ selected' = selected /\ torn' = torn
  BY DEF ImportClose, MemoryInv
<1>2. /\ job' = "idle"
      /\ \/ hp' = ImportAbort(hp, transfer, "IO_ERROR").hp
         \/ hp' = ImportCommit(hp, transfer).hp
  BY DoneIs DEF ImportClose, EndImport
<1>3. InHand(hp')
  BY <1>1, <1>2, EndKeeps
<1>4. QED
  BY <1>1, <1>2, <1>3, Settles

(* The export changes nothing of the HP.                                   *)
LEMMA ExportStep ==
  ASSUME MemoryInv,
         \/ ExportFails \/ object_files_export_stack \/ ExportWrite \/ ExportSync
         \/ ExportRename \/ ExportUnlink
  PROVE  MemoryInv'
<1>1. /\ hp' = hp /\ selected' = selected /\ torn' = torn /\ ~torn
      /\ job \notin {"read", "close"}
  BY DEF ExportFails, object_files_export_stack, ExportWrite, ExportSync, ExportRename,
         ExportUnlink, MemoryInv, Idle
<1>2. job' \notin {"read", "close"}
  <2>1. CASE ExportFails
    BY <2>1, DoneIs DEF ExportFails
  <2>2. CASE object_files_export_stack
    <3>1. (\E result : Done(result)) \/ job' = "write"
      BY <2>2, Zenon DEF object_files_export_stack
    <3>2. QED
      BY <3>1, DoneIs
  <2>3. CASE ExportWrite
    BY <2>3 DEF ExportWrite
  <2>4. CASE ExportSync
    BY <2>4 DEF ExportSync
  <2>5. CASE ExportRename
    BY <2>5, DoneIs DEF ExportRename
  <2>6. CASE ExportUnlink
    BY <2>6, DoneIs DEF ExportUnlink
  <2>7. QED
    BY <2>1, <2>2, <2>3, <2>4, <2>5, <2>6
<1>3. InHand(hp) /\ selected \in Names \cup {NoName}
  BY <1>1 DEF MemoryInv
<1>4. QED
  BY <1>1, <1>2, <1>3, Settles

(* What the ROM's steps make of the HP.                                    *)
LEMMA DropsOne ==
  ASSUME NEW B, Ordered(hp, B), Drop
  PROVE  hp' = Dropped(hp)
<1> DEFINE next == [hp EXCEPT !.dsktop = @ + Word]
<1>1. hp' = [next EXCEPT !.avmem = Free(next) \div Word]
  BY DEF Drop, RomStep
<1>2. hp \in Hp /\ hp.dsktop \in Int /\ hp.rsktop \in Int
  BY DEF Ordered, Hp
<1>3. Free(next) = Free(hp) + Word
  <2>1. next.dsktop = hp.dsktop + Word /\ next.rsktop = hp.rsktop
    BY <1>2 DEF Hp
  <2>2. QED
    BY <1>2, <2>1, Sizes DEF Free
<1>4. hp' = [next EXCEPT !.avmem = (Free(hp) + Word) \div Word]
  BY <1>1, <1>3, Zenon
<1> DEFINE av == (Free(hp) + Word) \div Word
<1> HIDE DEF av
<1>5. [next EXCEPT !.avmem = av] = [hp EXCEPT !.dsktop = hp.dsktop + Word, !.avmem = av]
  BY <1>2 DEF Hp
<1>6. QED
  BY <1>4, <1>5, Zenon DEF Dropped, av

LEMMA PicksOne ==
  ASSUME NEW B, Ordered(hp, B), Pick
  PROVE  \E b \in B : /\ hp' = Pushed(hp, b[1] + Marker)
                      /\ \E level \in StackCells(hp) : hp.ram[level] = b[1] + Marker
<1>1. PICK level \in StackCells(hp) :
        RomStep([hp EXCEPT !.dsktop = @ - Word,
                           !.ram = Write5(@, hp.dsktop - Word, @[level])])
  BY DEF Pick
<1> DEFINE p == hp.ram[level]
           next == [hp EXCEPT !.dsktop = @ - Word,
                              !.ram = Write5(@, hp.dsktop - Word, @[level])]
           up == hp.dsktop - Word
           ram == Write5(hp.ram, up, p)
<1>2. hp' = [next EXCEPT !.avmem = Free(next) \div Word]
  BY <1>1, Zenon DEF RomStep
<1>3. PICK b \in B : p = b[1] + Marker
  BY DEF Ordered
<1>4. hp \in Hp /\ hp.dsktop \in Int /\ hp.rsktop \in Int
  BY DEF Ordered, Hp
<1>5. hp' = Pushed(hp, p)
  <2>1. next = [hp EXCEPT !.dsktop = up, !.ram = ram]
    BY <1>4 DEF Hp
  <2> HIDE DEF p, ram, next
  <2>2. Free(next) = Free(hp) - Word
    <3>1. next.dsktop = hp.dsktop - Word /\ next.rsktop = hp.rsktop
      BY <1>4, <2>1 DEF Hp
    <3>2. QED
      BY <1>4, <3>1, Sizes DEF Free
  <2> DEFINE av == (Free(hp) - Word) \div Word
  <2>3. hp' = [next EXCEPT !.avmem = av]
    BY <1>2, <2>2, Zenon
  <2> HIDE DEF av, up
  <2>4. [next EXCEPT !.avmem = av] = [hp EXCEPT !.ram = ram, !.dsktop = up, !.avmem = av]
    BY <1>4, <2>1 DEF Hp
  <2>5. QED
    BY <2>3, <2>4, Zenon DEF Pushed, av, up, ram
<1>6. hp' = Pushed(hp, b[1] + Marker)
  BY <1>3, <1>5, Zenon
<1>7. QED
  BY <1>3, <1>6

(* The ROM's own steps.                                                    *)
LEMMA DropStep ==
  ASSUME MemoryInv, Drop
  PROVE  MemoryInv'
<1>1. /\ rpl_pointers(hp) /\ hp48_rpl_stack_depth(hp) > 0
      /\ selected' = selected /\ job' = job /\ torn' = torn
  BY DEF Drop, RomStep
<1>2. InHand(hp) /\ ~torn /\ selected \in Names \cup {NoName} /\ job = "idle"
  BY IdleIs DEF Drop, RomStep, Idle
<1>3. PICK B : Ordered(hp, B)
  BY <1>1, <1>2 DEF InHand
<1>4. Ordered(hp', B)
  <2>1. hp' = Dropped(hp)
    BY <1>3, DropsOne
  <2>2. QED
    BY <1>1, <1>3, <2>1, DropIs
<1>5. QED
  BY <1>1, <1>2, <1>4, Settles DEF InHand

LEMMA PickStep ==
  ASSUME MemoryInv, Pick
  PROVE  MemoryInv'
<1>1. /\ rpl_pointers(hp) /\ Free(hp) >= Word
      /\ selected' = selected /\ job' = job /\ torn' = torn
  BY Zenon DEF Pick, RomStep
<1>2. InHand(hp) /\ ~torn /\ selected \in Names \cup {NoName} /\ job = "idle"
  BY IdleIs DEF Pick, RomStep, Idle
<1>3. PICK B : Ordered(hp, B)
  BY <1>1, <1>2 DEF InHand
<1>4. PICK b \in B : hp' = Pushed(hp, b[1] + Marker)
  BY <1>3, PicksOne
<1>5. hp.rsktop + Word <= hp.dsktop
  <2>1. hp.dsktop \in Int /\ hp.rsktop \in Int
    BY <1>3 DEF Ordered, Hp
  <2>2. QED
    BY <1>1, <2>1, Sizes DEF Free
<1>6. Ordered(hp', B)
  BY <1>3, <1>4, <1>5, PushIs
<1>7. QED
  BY <1>1, <1>2, <1>6, Settles DEF InHand

LEMMA PowerCutStep ==
  ASSUME MemoryInv, PowerCut
  PROVE  MemoryInv'
<1>1. /\ job' = "idle" /\ torn' = FALSE /\ selected' \in {NoName, NextName(NoName)}
      /\ hp' \in {BootHp, [BootHp EXCEPT !.temptop = 0, !.rsktop = 0, !.dsktop = 0,
                                         !.editline = 0, !.avmem = 0]}
  BY DEF PowerCut
<1>2. InHand(hp')
  <2>1. CASE hp' = BootHp
    BY <2>1, BootIs DEF InHand
  <2>2. CASE hp' # BootHp
    BY <1>1, <2>2, UnreadyIs DEF InHand
  <2>3. QED
    BY <2>1, <2>2
<1>3. QED
  BY <1>1, <1>2, NextNameIs, Settles

LEMMA RomReadyStep ==
  ASSUME MemoryInv, RomReady
  PROVE  MemoryInv'
<1>1. /\ hp' = BootHp /\ selected' = selected /\ job' = job /\ torn' = torn /\ Idle
  BY DEF RomReady
<1>2. ~torn /\ selected \in Names \cup {NoName} /\ job = "idle"
  BY <1>1, IdleIs DEF Idle
<1>3. InHand(hp')
  BY <1>1, BootIs DEF InHand
<1>4. QED
  BY <1>1, <1>2, <1>3, Settles

(* What the invariant says: from the first state on the HP's memory is in  *)
(* order, under way or stopped half way through a collection, and what an  *)
(* import has written so far is the beginning of the file.                 *)
THEOREM MemoryHolds == Spec => []MemoryInv
<1>1. Init => MemoryInv
  <2>1. SUFFICES ASSUME Init PROVE MemoryInv
    OBVIOUS
  <2>2. hp = BootHp /\ selected = NoName /\ job = "idle" /\ torn = FALSE
    BY <2>1 DEF Init
  <2>3. InHand(hp)
    BY <2>2, BootIs DEF InHand
  <2>4. QED
    BY <2>2, <2>3 DEF MemoryInv
<1>2. MemoryInv /\ [Next]_vars => MemoryInv'
  <2>1. SUFFICES ASSUME MemoryInv, [Next]_vars PROVE MemoryInv'
    OBVIOUS
  <2>2. CASE object_files_cycle
    BY <2>1, <2>2, CycleStep
  <2>3. CASE ImportUnreadable
    BY <2>1, <2>3, UnreadableStep
  <2>4. CASE object_files_import_selected
    BY <2>1, <2>4, ImportStep
  <2>5. CASE ImportRead
    BY <2>1, <2>5, ReadStep
  <2>6. CASE ImportClose
    BY <2>1, <2>6, CloseStep
  <2>7. CASE \/ ExportFails \/ object_files_export_stack \/ ExportWrite \/ ExportSync
             \/ ExportRename \/ ExportUnlink
    BY <2>1, <2>7, ExportStep
  <2>8. CASE Drop
    BY <2>1, <2>8, DropStep
  <2>9. CASE Pick
    BY <2>1, <2>9, PickStep
  <2>10. CASE PowerCut
    BY <2>1, <2>10, PowerCutStep
  <2>11. CASE RomReady
    BY <2>1, <2>11, RomReadyStep
  <2>12. CASE UNCHANGED vars
    BY <2>1, <2>12, Zenon DEF vars, MemoryInv, Payload
  <2>13. QED
    BY <2>1, <2>2, <2>3, <2>4, <2>5, <2>6, <2>7, <2>8, <2>9, <2>10, <2>11, <2>12
    DEF Next, Transfers
<1>3. QED
  BY <1>1, <1>2, PTL DEF Spec

(* Between any two calls, and during an import, the temporary objects lie  *)
(* end to end up to TEMPTOP, every level of the stack is the start of one  *)
(* of them, and AVMEM is what is free: whatever the INBOX holds, however   *)
(* large the memory and the buffer are, wherever an import ends.           *)
THEOREM MemoryStaysInOrder == Spec => []MemoryIsInOrder
<1>1. MemoryInv => MemoryIsInOrder
  <2>1. SUFFICES ASSUME MemoryInv, rpl_pointers(hp), ~torn PROVE InOrder(hp)
    BY DEF MemoryIsInOrder
  <2>2. CASE job \in {"read", "close"}
    <3>1. PICK B : Underway(hp, transfer, B)
      BY <2>1, <2>2 DEF MemoryInv, Importing
    <3>2. QED
      BY <3>1, UnderwayIsInOrder, OrderedIsInOrder
  <2>3. CASE job \notin {"read", "close"}
    <3>1. PICK B : Ordered(hp, B)
      BY <2>1, <2>3 DEF MemoryInv, InHand
    <3>2. QED
      BY <3>1, OrderedIsInOrder
  <2>4. QED
    BY <2>2, <2>3
<1>2. QED
  BY <1>1, MemoryHolds, PTL

-----------------------------------------------------------------------------
(* What the HP shows: the objects on its stack and its return stack.       *)

(* The cell of a level, and the object of a block.                         *)
LevelCell(h, level) == h.dsktop + Word * (level - 1)
ObjectIn(h, b) == Cells(h.ram, b[1] + Marker, b[2] - Marker - Word)

LEMMA LevelCells ==
  ASSUME NEW h, NEW level \in 1 .. hp48_rpl_stack_depth(h),
         hp48_rpl_stack_depth(h) \in Int
  PROVE  LevelCell(h, level) \in StackCells(h)
<1> DEFINE depth == hp48_rpl_stack_depth(h)
           i == level - 1
<1> HIDE DEF depth
<1>1. level \in Int /\ 1 <= level /\ level <= depth
  BY DEF depth
<1>2. i \in 0 .. depth - 1
  BY <1>1 DEF depth
<1>3. LevelCell(h, level) = h.dsktop + Word * i
  BY DEF LevelCell
<1> HIDE DEF i
<1>4. QED
  BY <1>2, <1>3, Zenon DEF StackCells, depth

LEMMA DepthIs ==
  ASSUME NEW h, NEW B, Ordered(h, B)
  PROVE  hp48_rpl_stack_depth(h) \in Nat
<1>1. h \in Hp /\ h.dsktop + Word <= h.editline
  BY DEF Ordered
<1> DEFINE d == h.dsktop
           e == h.editline
<1>2. d \in Int /\ e \in Int /\ d + Word <= e /\ Word \in Int /\ 1 < Word
  BY <1>1, Sizes DEF Hp
<1>3. hp48_rpl_stack_depth(h) = IF e < d + Word THEN 0 ELSE (e - d) \div Word - 1
  BY DEF hp48_rpl_stack_depth
<1> HIDE DEF d, e
<1> DEFINE q == (e - d) \div Word
<1>4. q \in Int /\ e - d < Word * q + Word
  BY <1>2
<1> HIDE DEF q
<1>5. q >= 1
  <2>1. SUFFICES ASSUME q <= 0 PROVE FALSE
    BY <1>4
  <2>2. Word * q <= 0
    BY <1>2, <1>4, <2>1
  <2>3. QED
    BY <1>2, <1>4, <2>2
<1>6. ~(e < d + Word)
  BY <1>2
<1>7. QED
  BY <1>3, <1>4, <1>5, <1>6 DEF q

(* A function on the numbers up to n is a sequence.                        *)
LEMMA FunctionIsSeq ==
  ASSUME NEW S, NEW n \in Nat, NEW f \in [1 .. n -> S]
  PROVE  f \in Seq(S) /\ Len(f) = n
OBVIOUS

(* Each level is the object of the block that it refers to.                *)
LEMMA ObjectsAre ==
  ASSUME NEW h, NEW B, Ordered(h, B)
  PROVE  /\ ObjectsOf(h) \in Seq(Seq(Cell))
         /\ Len(ObjectsOf(h)) = hp48_rpl_stack_depth(h)
         /\ \A level \in 1 .. hp48_rpl_stack_depth(h), b \in B :
              h.ram[LevelCell(h, level)] = b[1] + Marker =>
                ObjectsOf(h)[level] = ObjectIn(h, b)
<1> DEFINE depth == hp48_rpl_stack_depth(h)
           TheBlock(p) == CHOOSE b \in TempBlocks(h) : p = b[1] + Marker
           ObjectAt(p) == Cells(h.ram, p, TheBlock(p)[2] - Marker - Word)
<1>0. /\ Word \in Int /\ 1 < Word /\ Marker \in Int /\ 0 < Marker
      /\ RamBase \in Int /\ 0 < RamBase /\ RamEnd \in Int
  BY Sizes
<1>1. TempBlocks(h) = B
  BY OrderedIsInOrder
<1>2. depth \in Nat
  BY DepthIs
<1>3. ObjectsOf(h) = [level \in 1 .. depth |-> ObjectAt(h.ram[LevelCell(h, level)])]
  BY DEF ObjectsOf, LevelCell
<1>4. ASSUME NEW b \in B
      PROVE  /\ b[1] \in Int /\ b[2] \in Int /\ Marker + Word <= b[2]
             /\ RamBase <= b[1] /\ b[1] + b[2] <= RamEnd
  <2> DEFINE t == h.temptop
  <2>1. t \in Int /\ t <= RamEnd
    <3> DEFINE r == h.rsktop
               d == h.dsktop
               e == h.editline
    <3>1. t \in Int /\ r \in Int /\ d \in Int /\ e \in Int
      BY DEF Ordered, Hp
    <3>2. t <= r /\ r <= d /\ d + Word <= e /\ e < RamEnd
      BY DEF Ordered
    <3> HIDE DEF t, r, d, e
    <3>3. QED
      BY <3>1, <3>2, <1>0
  <2>2. Tiles(h.ram, B, t)
    BY DEF Ordered
  <2> HIDE DEF t
  <2>3. b[1] \in Int /\ b[2] \in Int
    BY <2>2 DEF Tiles
  <2>4. RamBase <= b[1] /\ Marker + Word <= b[2] /\ b[1] + b[2] <= t
    BY <2>2, Zenon DEF Tiles
  <2>5. QED
    BY <2>1, <2>3, <2>4, <1>0
<1>5. ASSUME NEW b \in B, NEW c \in B, b[1] + Marker = c[1] + Marker PROVE b = c
  <2>1. b = c \/ b[1] + b[2] <= c[1] \/ c[1] + c[2] <= b[1]
    BY DEF Ordered, Tiles
  <2>2. QED
    BY <1>0, <1>4, <1>5, <2>1
<1>6. ASSUME NEW p, NEW b \in B, p = b[1] + Marker PROVE ObjectAt(p) = ObjectIn(h, b)
  <2>1. TheBlock(p) \in B /\ p = TheBlock(p)[1] + Marker
    BY <1>1, <1>6, Zenon
  <2>2. TheBlock(p) = b
    BY <2>1, <1>5, <1>6
  <2> HIDE DEF TheBlock
  <2>3. QED
    BY <2>2, <1>6, Zenon DEF ObjectIn
<1> HIDE DEF TheBlock, ObjectAt
<1>7. ASSUME NEW b \in B PROVE ObjectIn(h, b) \in Seq(Cell)
  <2> DEFINE a == b[1] + Marker
             n == b[2] - Marker - Word
             ram == h.ram
  <2>1. a \in Int /\ n \in Nat /\ RamBase <= a /\ a + n <= RamEnd
    BY <1>0, <1>4
  <2>2. ram \in [Addr -> Cell]
    BY DEF Ordered, Hp
  <2>3. ObjectIn(h, b) = [i \in 1 .. n |-> ram[a + i - 1]]
    BY DEF ObjectIn, Cells
  <2> HIDE DEF a, n, ram
  <2>4. \A i \in 1 .. n : ram[a + i - 1] \in Cell
    <3>1. ASSUME NEW i \in 1 .. n PROVE ram[a + i - 1] \in Cell
      <4>1. a + i - 1 \in Addr
        BY <1>0, <2>1 DEF Addr
      <4>2. QED
        BY <4>1, <2>2
    <3>2. QED
      BY <3>1
  <2>5. QED
    BY <2>1, <2>3, <2>4
<1>8. \A level \in 1 .. depth : \E b \in B : h.ram[LevelCell(h, level)] = b[1] + Marker
  <2>1. depth \in Int
    BY <1>2
  <2>2. \A level \in 1 .. depth : LevelCell(h, level) \in StackCells(h)
    BY <2>1, LevelCells
  <2>3. \A x \in StackCells(h) : \E b \in B : h.ram[x] = b[1] + Marker
    BY DEF Ordered
  <2>4. QED
    BY <2>2, <2>3, Zenon
<1>9. \A level \in 1 .. depth : ObjectAt(h.ram[LevelCell(h, level)]) \in Seq(Cell)
  BY <1>6, <1>7, <1>8, Zenon
<1>10. /\ ObjectsOf(h) \in Seq(Seq(Cell)) /\ Len(ObjectsOf(h)) = depth
       /\ \A level \in 1 .. depth : ObjectsOf(h)[level] = ObjectAt(h.ram[LevelCell(h, level)])
  <2> DEFINE e(level) == ObjectAt(h.ram[LevelCell(h, level)])
             f == ObjectsOf(h)
  <2> HIDE DEF depth
  <2>1. f = [level \in 1 .. depth |-> e(level)] /\ \A level \in 1 .. depth : e(level) \in Seq(Cell)
    BY <1>3, <1>9
  <2> HIDE DEF e, f
  <2>2. f \in [1 .. depth -> Seq(Cell)] /\ \A level \in 1 .. depth : f[level] = e(level)
    BY <2>1
  <2>3. f \in Seq(Seq(Cell)) /\ Len(f) = depth
    BY <1>2, <2>2, FunctionIsSeq DEF depth
  <2>4. QED
    BY <2>2, <2>3 DEF e, f
<1>11. QED
  BY <1>6, <1>10, Zenon

(* What a step that keeps the stack and the return stack shows.            *)
Shows(h, g) == ObjectsOf(g) = ObjectsOf(h) /\ ReturnsOf(g) = ReturnsOf(h)

LEMMA KeptIsShown ==
  ASSUME NEW h, NEW B, Ordered(h, B), NEW g, NEW C, Ordered(g, C),
         NEW B0 \in SUBSET B, NEW C0 \in SUBSET C, Keeps(h, B0, g, C0)
  PROVE  Shows(h, g)
<1> DEFINE depth == hp48_rpl_stack_depth(h)
<1>0. Word \in Int /\ 1 < Word /\ Marker \in Int /\ 0 < Marker
  BY Sizes
<1>1. depth \in Nat /\ hp48_rpl_stack_depth(g) = depth /\ \A l : LevelCell(g, l) = LevelCell(h, l)
  <2>1. g.dsktop = h.dsktop /\ g.editline = h.editline
    BY DEF Keeps
  <2>2. depth \in Nat
    BY DepthIs
  <2>3. QED
    BY <2>1, <2>2, StackCellsSame, Zenon DEF LevelCell
<1>2. /\ ObjectsOf(h) \in Seq(Seq(Cell)) /\ Len(ObjectsOf(h)) = depth
      /\ ObjectsOf(g) \in Seq(Seq(Cell)) /\ Len(ObjectsOf(g)) = depth
  BY <1>1, ObjectsAre
<1>3. ASSUME NEW level \in 1 .. depth PROVE ObjectsOf(g)[level] = ObjectsOf(h)[level]
  <2> DEFINE x == LevelCell(h, level)
  <2>1. x \in StackCells(h)
    BY <1>1, LevelCells
  <2>2. PICK b \in B0, c \in C0 :
          /\ h.ram[x] = b[1] + Marker /\ g.ram[x] = c[1] + Marker /\ c[2] = b[2]
          /\ \A i \in Marker .. b[2] - Word - 1 : g.ram[c[1] + i] = h.ram[b[1] + i]
    BY <2>1, Zenon DEF Keeps
  <2>3. b \in B /\ c \in C
    OBVIOUS
  <2>4. ObjectsOf(h)[level] = ObjectIn(h, b) /\ ObjectsOf(g)[level] = ObjectIn(g, c)
    BY <1>1, <2>2, <2>3, ObjectsAre
  <2>5. ObjectIn(g, c) = ObjectIn(h, b)
    <3> DEFINE hr == h.ram
               gr == g.ram
               n == b[2] - Marker - Word
    <3>1. b[1] \in Int /\ b[2] \in Int /\ c[1] \in Int
      <4>1. Tiles(h.ram, B, h.temptop) /\ Tiles(g.ram, C, g.temptop)
        BY DEF Ordered
      <4>2. b \in Int \X Int /\ c \in Int \X Int
        BY <4>1, <2>3 DEF Tiles
      <4>3. QED
        BY <4>2
    <3>2. \A i \in Marker .. b[2] - Word - 1 : gr[c[1] + i] = hr[b[1] + i]
      BY <2>2
    <3>3. ObjectIn(g, c) = [i \in 1 .. n |-> gr[c[1] + Marker + i - 1]]
      BY <2>2 DEF ObjectIn, Cells
    <3>4. ObjectIn(h, b) = [i \in 1 .. n |-> hr[b[1] + Marker + i - 1]]
      BY DEF ObjectIn, Cells
    <3> HIDE DEF hr, gr
    <3>5. ASSUME NEW i \in 1 .. n PROVE gr[c[1] + Marker + i - 1] = hr[b[1] + Marker + i - 1]
      <4>1. Marker + i - 1 \in Marker .. b[2] - Word - 1
        BY <1>0, <3>1
      <4>2. gr[c[1] + (Marker + i - 1)] = hr[b[1] + (Marker + i - 1)]
        BY <3>2, <4>1
      <4>3. c[1] + (Marker + i - 1) = c[1] + Marker + i - 1 /\ b[1] + (Marker + i - 1) = b[1] + Marker + i - 1
        BY <1>0, <3>1
      <4>4. QED
        BY <4>2, <4>3
    <3> HIDE DEF n
    <3>6. QED
      BY <3>3, <3>4, <3>5
  <2>6. QED
    BY <2>4, <2>5
<1>4. ObjectsOf(g) = ObjectsOf(h)
  <2> HIDE DEF depth
  <2>1. \A level \in 1 .. depth : ObjectsOf(g)[level] = ObjectsOf(h)[level]
    BY <1>3
  <2>2. QED
    BY <1>2, <2>1, SeqEqual
<1>5. ReturnsOf(g) = ReturnsOf(h)
  <2> DEFINE hr == h.ram
             gr == g.ram
             ht == h.temptop
             gt == g.temptop
             n == h.rsktop - h.temptop
  <2>1. ht \in Int /\ gt \in Int /\ n \in Int
    <3>1. h \in Hp /\ g \in Hp
      BY DEF Ordered
    <3>2. h.temptop \in Int /\ h.rsktop \in Int /\ g.temptop \in Int
      BY <3>1 DEF Hp
    <3>3. QED
      BY <3>2
  <2>2. \A i \in 0 .. n - 1 : gr[gt + i] = hr[ht + i]
    BY DEF Keeps
  <2>3. ReturnsOf(h) = [i \in 1 .. n |-> hr[ht + i - 1]]
    BY DEF ReturnsOf, Cells
  <2>4. ReturnsOf(g) = [i \in 1 .. n |-> gr[gt + i - 1]]
    BY DEF ReturnsOf, Cells, Keeps
  <2> HIDE DEF hr, gr, ht, gt, n
  <2>5. ASSUME NEW i \in 1 .. n PROVE gr[gt + i - 1] = hr[ht + i - 1]
    <3>1. i - 1 \in 0 .. n - 1
      BY <2>1
    <3>2. gr[gt + (i - 1)] = hr[ht + (i - 1)]
      BY <3>1, <2>2
    <3>3. gt + (i - 1) = gt + i - 1 /\ ht + (i - 1) = ht + i - 1
      BY <2>1
    <3>4. QED
      BY <3>2, <3>3
  <2>6. QED
    BY <2>3, <2>4, <2>5
<1>6. QED
  BY <1>4, <1>5 DEF Shows

(* An element in front of a sequence.                                      *)
LEMMA PrependIs ==
  ASSUME NEW S, NEW s \in Seq(S), NEW t \in Seq(S), NEW o \in S,
         Len(t) = Len(s) + 1, t[1] = o, \A i \in 1 .. Len(s) : t[i + 1] = s[i]
  PROVE  t = <<o>> \o s
<1>1. <<o>> \in Seq(S) /\ Len(<<o>>) = 1 /\ <<o>>[1] = o
  OBVIOUS
<1>2. Len(s) \in Nat
  OBVIOUS
<1> DEFINE u == <<o>> \o s
<1>3. /\ u \in Seq(S) /\ Len(u) = 1 + Len(s)
      /\ \A i \in 1 .. 1 + Len(s) : u[i] = IF i <= 1 THEN <<o>>[i] ELSE s[i - 1]
  BY <1>1, ConcatProperties
<1> HIDE DEF u
<1>4. ASSUME NEW i \in 1 .. Len(t) PROVE t[i] = u[i]
  <2>1. CASE i = 1
    BY <1>1, <1>2, <1>3, <2>1
  <2>2. CASE i # 1
    <3>1. i - 1 \in 1 .. Len(s) /\ (i - 1) + 1 = i /\ ~(i <= 1) /\ i \in 1 .. 1 + Len(s)
      BY <1>2, <2>2
    <3>2. t[i] = s[i - 1]
      BY <3>1
    <3>3. QED
      BY <3>1, <3>2, <1>3
  <2>3. QED
    BY <2>1, <2>2
<1>5. t = u
  BY <1>2, <1>3, <1>4, SeqEqual
<1>6. QED
  BY <1>5 DEF u

(* A level more in front of the others.                                    *)
LEMMA PushShows ==
  ASSUME NEW h, NEW C, Ordered(h, C), NEW c \in C, h.rsktop + Word <= h.dsktop
  PROVE  LET g == Pushed(h, c[1] + Marker)
         IN /\ Ordered(g, C)
            /\ ObjectsOf(g) = <<ObjectIn(h, c)>> \o ObjectsOf(h)
            /\ ReturnsOf(g) = ReturnsOf(h)
<1> DEFINE g == Pushed(h, c[1] + Marker)
           depth == hp48_rpl_stack_depth(h)
<1>0. Word \in Int /\ 1 < Word /\ Marker \in Int /\ 0 < Marker /\ RamBase \in Int /\ 0 < RamBase
      /\ RamEnd \in Int
  BY Sizes
<1>1. /\ Ordered(g, C)
      /\ g.temptop = h.temptop /\ g.rsktop = h.rsktop /\ g.editline = h.editline
      /\ g.dsktop = h.dsktop - Word /\ g.ram[g.dsktop] = c[1] + Marker
      /\ \A x \in Addr : x < g.dsktop \/ h.dsktop <= x => g.ram[x] = h.ram[x]
  BY PushIs
<1> HIDE DEF g
<1> DEFINE ht == h.temptop
           hs == h.rsktop
           hd == h.dsktop
           gd == g.dsktop
           he == h.editline
           hr == h.ram
           gr == g.ram
<1>2. /\ ht \in Int /\ hs \in Int /\ hd \in Int /\ he \in Int /\ h \in Hp /\ g \in Hp
      /\ RamBase <= ht /\ ht <= hs /\ hs + Word <= hd /\ hd + Word <= he /\ he < RamEnd
      /\ gd = hd - Word
  BY <1>1 DEF Ordered, Hp
<1>3. depth \in Nat /\ hp48_rpl_stack_depth(g) = depth + 1
  BY <1>1, <1>2, StackCellsGrow
<1>4. \A x \in Addr : x < gd \/ hd <= x => gr[x] = hr[x]
  BY <1>1
<1>5. /\ ObjectsOf(h) \in Seq(Seq(Cell)) /\ Len(ObjectsOf(h)) = depth
      /\ ObjectsOf(g) \in Seq(Seq(Cell)) /\ Len(ObjectsOf(g)) = depth + 1
  BY <1>1, <1>3, ObjectsAre
<1>6. ASSUME NEW b \in C PROVE ObjectIn(g, b) = ObjectIn(h, b)
  <2>1. Tiles(hr, C, ht)
    BY DEF Ordered
  <2> DEFINE n == b[2] - Marker - Word
  <2>2. ObjectIn(g, b) = [i \in 1 .. n |-> gr[b[1] + Marker + i - 1]]
        /\ ObjectIn(h, b) = [i \in 1 .. n |-> hr[b[1] + Marker + i - 1]]
    BY DEF ObjectIn, Cells
  <2> HIDE DEF ht, hs, hd, gd, he, hr, gr
  <2>3. b[1] \in Int /\ b[2] \in Int
    BY <2>1 DEF Tiles
  <2>4. RamBase <= b[1] /\ b[1] + b[2] <= ht
    BY <2>1, Zenon DEF Tiles
  <2>5. ASSUME NEW i \in 1 .. n PROVE gr[b[1] + Marker + i - 1] = hr[b[1] + Marker + i - 1]
    <3>1. b[1] + Marker + i - 1 \in Addr /\ b[1] + Marker + i - 1 < gd
      BY <1>0, <1>2, <2>3, <2>4 DEF Addr
    <3>2. QED
      BY <3>1, <1>4
  <2> HIDE DEF n
  <2>6. QED
    BY <2>2, <2>5
<1>7. ObjectsOf(g)[1] = ObjectIn(h, c)
  <2>1. LevelCell(g, 1) = g.dsktop
    <3>1. g.dsktop \in Int
      BY <1>2 DEF Hp
    <3> HIDE DEF gd
    <3>2. QED
      BY <3>1, <1>0 DEF LevelCell
  <2>2. 1 \in 1 .. hp48_rpl_stack_depth(g)
    BY <1>3
  <2>3. g.ram[LevelCell(g, 1)] = c[1] + Marker
    BY <1>1, <2>1
  <2>4. ObjectsOf(g)[1] = ObjectIn(g, c)
    BY <1>1, <2>2, <2>3, ObjectsAre
  <2>5. QED
    BY <2>4, <1>6
<1>8. ASSUME NEW level \in 1 .. depth PROVE ObjectsOf(g)[level + 1] = ObjectsOf(h)[level]
  <2> DEFINE x == LevelCell(h, level)
  <2>1. LevelCell(g, level + 1) = x
    <3>1. LevelCell(g, level + 1) = gd + Word * (level + 1 - 1) /\ x = hd + Word * (level - 1)
      BY DEF LevelCell
    <3>2. level \in Int
      BY <1>3
    <3> HIDE DEF gd, hd, x
    <3>3. gd + Word * (level + 1 - 1) = hd + Word * (level - 1)
      BY <1>0, <1>2, <3>2
    <3>4. QED
      BY <3>1, <3>3
  <2>2. x \in StackCells(h)
    BY <1>3, LevelCells
  <2>3. PICK b \in C : hr[x] = b[1] + Marker
    BY <2>2, Zenon DEF Ordered
  <2>4. gr[x] = hr[x]
    <3>1. x \in Int /\ hd <= x /\ x + 2 * Word <= he
      BY <1>2, <2>2, StackCellsLie
    <3> HIDE DEF x, hd, he, ht, hs, gd
    <3>2. x \in Addr /\ hd <= x
      BY <3>1, <1>0, <1>2 DEF Addr
    <3>3. QED
      BY <3>2, <1>4
  <2>5. level + 1 \in 1 .. hp48_rpl_stack_depth(g)
    BY <1>3
  <2>6. ObjectsOf(g)[level + 1] = ObjectIn(g, b)
    <3>1. g.ram[LevelCell(g, level + 1)] = b[1] + Marker
      BY <2>1, <2>3, <2>4
    <3>2. QED
      BY <1>1, <2>5, <3>1, ObjectsAre
  <2>7. ObjectsOf(h)[level] = ObjectIn(h, b)
    BY <2>3, ObjectsAre
  <2>8. QED
    BY <2>6, <2>7, <1>6
<1>9. ObjectsOf(g) = <<ObjectIn(h, c)>> \o ObjectsOf(h)
  <2> DEFINE o == ObjectIn(h, c)
             s == ObjectsOf(h)
             t == ObjectsOf(g)
  <2>1. t \in Seq(Seq(Cell)) /\ s \in Seq(Seq(Cell)) /\ Len(s) = depth /\ Len(t) = depth + 1
        /\ t[1] = o /\ \A level \in 1 .. depth : t[level + 1] = s[level]
    BY <1>5, <1>7, <1>8
  <2> HIDE DEF o, s, t, depth
  <2>2. o \in Seq(Cell)
    BY <1>3, <2>1
  <2>3. t = <<o>> \o s
    BY <1>3, <2>1, <2>2, PrependIs
  <2>4. QED
    BY <2>3 DEF o, s, t
<1>10. ReturnsOf(g) = ReturnsOf(h)
  <2> DEFINE n == hs - ht
  <2>1. ReturnsOf(g) = [i \in 1 .. n |-> gr[ht + i - 1]] /\ ReturnsOf(h) = [i \in 1 .. n |-> hr[ht + i - 1]]
    BY <1>1 DEF ReturnsOf, Cells
  <2> HIDE DEF ht, hs, hd, gd, he, hr, gr
  <2>2. ASSUME NEW i \in 1 .. n PROVE gr[ht + i - 1] = hr[ht + i - 1]
    <3>1. ht + i - 1 \in Addr /\ ht + i - 1 < gd
      BY <1>0, <1>2 DEF Addr
    <3>2. QED
      BY <3>1, <1>4
  <2> HIDE DEF n
  <2>3. QED
    BY <2>1, <2>2
<1>11. QED
  BY <1>1, <1>9, <1>10 DEF g

(* A level less.                                                           *)
LEMMA DropShows ==
  ASSUME NEW h, NEW C, Ordered(h, C), hp48_rpl_stack_depth(h) > 0
  PROVE  /\ Ordered(Dropped(h), C)
         /\ ObjectsOf(h) # <<>> /\ ObjectsOf(Dropped(h)) = Tail(ObjectsOf(h))
         /\ ReturnsOf(Dropped(h)) = ReturnsOf(h)
<1> DEFINE g == Dropped(h)
           depth == hp48_rpl_stack_depth(h)
           hd == h.dsktop
           gd == g.dsktop
<1>0. Word \in Int /\ 1 < Word
  BY Sizes
<1>1. /\ Ordered(g, C) /\ depth = hp48_rpl_stack_depth(g) + 1
  BY DropIs
<1>2. g.ram = h.ram /\ g.temptop = h.temptop /\ g.rsktop = h.rsktop /\ gd = hd + Word /\ hd \in Int
  BY DEF Dropped, Ordered, Hp
<1>3. hp48_rpl_stack_depth(g) \in Nat /\ depth \in Nat
  BY <1>1, DepthIs
<1> HIDE DEF g
<1>4. /\ ObjectsOf(h) \in Seq(Seq(Cell)) /\ Len(ObjectsOf(h)) = depth
      /\ ObjectsOf(g) \in Seq(Seq(Cell)) /\ Len(ObjectsOf(g)) = depth - 1
  BY <1>1, <1>3, ObjectsAre
<1>5. ASSUME NEW level \in 1 .. depth - 1 PROVE ObjectsOf(g)[level] = ObjectsOf(h)[level + 1]
  <2> DEFINE x == LevelCell(g, level)
  <2>1. LevelCell(h, level + 1) = x
    <3>1. LevelCell(h, level + 1) = hd + Word * (level + 1 - 1) /\ x = gd + Word * (level - 1)
      BY DEF LevelCell
    <3>2. level \in Int
      BY <1>3
    <3> HIDE DEF gd, hd, x
    <3>3. hd + Word * (level + 1 - 1) = gd + Word * (level - 1)
      BY <1>0, <1>2, <3>2
    <3>4. QED
      BY <3>1, <3>3
  <2>2. level \in 1 .. hp48_rpl_stack_depth(g) /\ level + 1 \in 1 .. hp48_rpl_stack_depth(h)
    BY <1>1, <1>3
  <2>3. x \in StackCells(g)
    BY <1>3, <2>2, LevelCells
  <2>4. PICK b \in C : g.ram[x] = b[1] + Marker
    BY <1>1, <2>3, Zenon DEF Ordered
  <2>5. ObjectsOf(g)[level] = ObjectIn(g, b)
    BY <1>1, <2>2, <2>4, ObjectsAre
  <2>6. h.ram[LevelCell(h, level + 1)] = b[1] + Marker
    BY <1>2, <2>1, <2>4
  <2>7. ObjectsOf(h)[level + 1] = ObjectIn(h, b)
    BY <2>2, <2>6, ObjectsAre
  <2>8. ObjectIn(g, b) = ObjectIn(h, b)
    BY <1>2, Zenon DEF ObjectIn
  <2>9. QED
    BY <2>5, <2>7, <2>8
<1>6. ObjectsOf(h) # <<>> /\ ObjectsOf(g) = Tail(ObjectsOf(h))
  <2> DEFINE s == ObjectsOf(h)
             t == ObjectsOf(g)
  <2>1. t \in Seq(Seq(Cell)) /\ s \in Seq(Seq(Cell)) /\ Len(s) = depth /\ Len(t) = depth - 1
        /\ \A level \in 1 .. depth - 1 : t[level] = s[level + 1]
    BY <1>4, <1>5
  <2>2. depth \in Nat /\ depth > 0
    BY <1>3
  <2> HIDE DEF s, t, depth
  <2>3. s # <<>>
    BY <2>1, <2>2
  <2>4. /\ Tail(s) \in Seq(Seq(Cell)) /\ Len(Tail(s)) = Len(s) - 1
        /\ \A i \in 1 .. Len(Tail(s)) : Tail(s)[i] = s[i + 1]
    BY <2>1, <2>3, HeadTailProperties
  <2>5. t = Tail(s)
    BY <2>1, <2>4, SeqEqual
  <2>6. QED
    BY <2>3, <2>5 DEF s, t
<1>7. ReturnsOf(g) = ReturnsOf(h)
  BY <1>2, Zenon DEF ReturnsOf
<1>8. QED
  BY <1>1, <1>6, <1>7 DEF g

LEMMA OrderedIsReady ==
  ASSUME NEW h, NEW B, Ordered(h, B)
  PROVE  rpl_pointers(h)
<1> DEFINE d == h.dsktop
           e == h.editline
<1>1. d \in Int /\ e \in Int /\ d + Word <= e /\ Word \in Int /\ 1 < Word
  BY Sizes DEF Ordered, Hp
<1> HIDE DEF d, e
<1>2. d <= e
  BY <1>1
<1>3. QED
  BY <1>2, Zenon DEF d, e, Ordered, rpl_pointers

(* The begin of an import shows nothing, unless the collector stopped.     *)
LEMMA BeginShows ==
  ASSUME NEW h, InHand(h), NEW n \in Nat \ {0}, NEW begun \in ImportBegin(h, n),
         begun.status # "GC_FAILED"
  PROVE  \/ begun.hp = h
         \/ rpl_pointers(h) /\ rpl_pointers(begun.hp) /\ Shows(h, begun.hp)
<1> DEFINE a == Allocation(n)
           C == Compacted(h)
<1>1. /\ Outcome(h, NoTransfer, "OUT_OF_RANGE").hp = h
      /\ Outcome(h, NoTransfer, "NOT_READY").hp = h
      /\ Outcome(C, NoTransfer, "NO_MEMORY").hp = C
      /\ \A x : Outcome(x, NoTransfer, "GC_FAILED").status = "GC_FAILED"
  BY DEF Outcome
<1>2. ASSUME NEW g, NEW D, Ordered(g, D), Fits(g, a)
      PROVE  Shows(g, Accepted(g, n).hp) /\ rpl_pointers(Accepted(g, n).hp)
  <2> DEFINE k == Accepted(g, n).hp
             t == Accepted(g, n).transfer
  <2>1. Underway(k, t, D) /\ Keeps(g, D, k, D)
    BY <1>2, BeginAccepts
  <2> HIDE DEF k, t
  <2> DEFINE E == D \cup {<<t.temptop, t.allocation>>}
  <2>2. Ordered(k, E)
    BY <2>1, UnderwayIsInOrder
  <2>3. D \in SUBSET E
    OBVIOUS
  <2> HIDE DEF E
  <2>4. Shows(g, k)
    <3>1. D \in SUBSET D
      OBVIOUS
    <3>2. QED
      BY <1>2, <2>1, <2>2, <2>3, <3>1, KeptIsShown
  <2>5. QED
    BY <2>2, <2>4, OrderedIsReady DEF k
<1>3. ASSUME rpl_pointers(h)
      PROVE  \E B : Ordered(h, B)
  BY <1>3 DEF InHand
<1>4. ASSUME NEW B, Ordered(h, B)
      PROVE  Ordered(C, Slid(h, B)) /\ Shows(h, C)
  <2>1. Ordered(C, Slid(h, B)) /\ Keeps(h, B, C, Slid(h, B))
    BY <1>4, CollectKeeps
  <2>2. B \in SUBSET B /\ Slid(h, B) \in SUBSET Slid(h, B)
    OBVIOUS
  <2> HIDE DEF C
  <2>3. QED
    BY <1>4, <2>1, <2>2, KeptIsShown
<1>5. CASE rpl_pointers(h) /\ Fits(h, a) /\ begun = Accepted(h, n)
  BY <1>2, <1>3, <1>5
<1>6. CASE rpl_pointers(h) /\ Fits(C, a) /\ begun = Accepted(C, n)
  <2>1. PICK B : Ordered(h, B)
    BY <1>3, <1>6
  <2>2. Ordered(C, Slid(h, B)) /\ Shows(h, C)
    BY <1>4, <2>1
  <2>3. Shows(C, begun.hp) /\ rpl_pointers(begun.hp)
    BY <1>2, <1>6, <2>2
  <2>4. QED
    BY <1>6, <2>2, <2>3 DEF Shows
<1>7. CASE rpl_pointers(h) /\ begun = Outcome(C, NoTransfer, "NO_MEMORY")
  <2>1. PICK B : Ordered(h, B)
    BY <1>3, <1>7
  <2>2. Ordered(C, Slid(h, B)) /\ Shows(h, C)
    BY <1>4, <2>1
  <2>3. QED
    BY <1>1, <1>7, <2>2, OrderedIsReady
<1> HIDE DEF C
<1>8. QED
  BY <1>1, <1>5, <1>6, <1>7, BeginIs, ZenonT(60) DEF a, C

(* Neither does a write of the payload, or an import that is aborted.      *)
LEMMA WriteShows ==
  ASSUME NEW h, NEW t, NEW B, Underway(h, t, B), NEW w \in Nat, t.written + w <= t.bytes,
         NEW cells \in Seq(Cell), Len(cells) = 2 * w
  PROVE  /\ rpl_pointers(h) /\ rpl_pointers(ImportWrite(h, t, cells).hp)
         /\ Shows(h, ImportWrite(h, t, cells).hp)
<1> DEFINE o == ImportWrite(h, t, cells)
           g == o.hp
           u == o.transfer
<1>1. Underway(g, u, B) /\ Keeps(h, B, g, B)
  BY WriteKeeps, ZenonT(60)
<1> HIDE DEF o
<1> DEFINE D == B \cup {<<t.temptop, t.allocation>>}
           E == B \cup {<<u.temptop, u.allocation>>}
<1>2. Ordered(h, D) /\ Ordered(g, E)
  BY <1>1, UnderwayIsInOrder
<1>3. B \in SUBSET D /\ B \in SUBSET E
  OBVIOUS
<1> HIDE DEF D, E, g, u
<1>4. Shows(h, g)
  BY <1>1, <1>2, <1>3, KeptIsShown
<1>5. QED
  BY <1>2, <1>4, OrderedIsReady DEF g, o

LEMMA AbortShows ==
  ASSUME NEW h, NEW t, NEW B, Underway(h, t, B), NEW result
  PROVE  /\ rpl_pointers(h) /\ rpl_pointers(ImportAbort(h, t, result).hp)
         /\ Shows(h, ImportAbort(h, t, result).hp)
         /\ ImportAbort(h, t, result).status = result
<1> DEFINE o == ImportAbort(h, t, result)
           g == o.hp
<1>1. Ordered(g, B) /\ Keeps(h, B, g, B) /\ o.status = result
  BY AbortRestores
<1> HIDE DEF o
<1> DEFINE D == B \cup {<<t.temptop, t.allocation>>}
<1>2. Ordered(h, D)
  BY UnderwayIsInOrder
<1>3. B \in SUBSET D /\ B \in SUBSET B
  OBVIOUS
<1> HIDE DEF D, g
<1>4. Shows(h, g)
  BY <1>1, <1>2, <1>3, KeptIsShown
<1>5. QED
  BY <1>1, <1>2, <1>4, OrderedIsReady DEF g, o

(* A commit puts the whole payload on level 1, or shows nothing.           *)
LEMMA CommitShows ==
  ASSUME NEW h, NEW t, NEW payload \in Seq(Cell), Importing(h, t, payload)
  PROVE  LET o == ImportCommit(h, t)
         IN /\ rpl_pointers(h) /\ rpl_pointers(o.hp)
            /\ \/ o.status \in {"BAD_OBJECT", "NO_MEMORY"} /\ Shows(h, o.hp)
               \/ /\ o.status = "OK" /\ ReturnsOf(o.hp) = ReturnsOf(h)
                  /\ ObjectsOf(o.hp) = <<payload>> \o ObjectsOf(h)
<1> DEFINE o == ImportCommit(h, t)
<1>1. PICK B : Underway(h, t, B)
  BY DEF Importing
<1> DEFINE new == <<t.temptop, t.allocation>>
           D == B \cup {new}
<1>2. Ordered(h, D) /\ new \in D
  BY <1>1, UnderwayIsInOrder
<1>3. \/ o.status \in {"BAD_OBJECT", "NO_MEMORY"} /\ o = ImportAbort(h, t, o.status)
      \/ o.status = "OK" /\ o.hp = Pushed(h, t.object) /\ t.written = t.bytes
  BY <1>1, CommitIs
<1> HIDE DEF o, D
<1>4. CASE o.status \in {"BAD_OBJECT", "NO_MEMORY"} /\ o = ImportAbort(h, t, o.status)
  <2>1. /\ rpl_pointers(h) /\ rpl_pointers(ImportAbort(h, t, o.status).hp)
        /\ Shows(h, ImportAbort(h, t, o.status).hp)
    BY <1>1, AbortShows
  <2>2. QED
    BY <1>4, <2>1, Zenon DEF o
<1>5. CASE o.status = "OK" /\ o.hp = Pushed(h, t.object) /\ t.written = t.bytes
  <2>1. /\ new[1] = t.temptop /\ new[2] = t.allocation
        /\ t.object = new[1] + Marker /\ t.allocation = 2 * t.bytes + Marker + Word
        /\ h.rsktop + Word <= h.dsktop
    BY <1>1, UnderwayLies
  <2> HIDE DEF new
  <2>2. /\ Ordered(Pushed(h, new[1] + Marker), D)
        /\ ObjectsOf(Pushed(h, new[1] + Marker)) = <<ObjectIn(h, new)>> \o ObjectsOf(h)
        /\ ReturnsOf(Pushed(h, new[1] + Marker)) = ReturnsOf(h)
    BY <1>2, <2>1, PushShows
  <2>3. o.hp = Pushed(h, new[1] + Marker)
    BY <1>5, <2>1
  <2>4. ObjectIn(h, new) = payload
    <3> DEFINE ob == t.object
               hr == h.ram
               tb == t.bytes
               n == Len(payload)
    <3>1. tb \in Int /\ n \in Nat /\ 2 * tb = n
      BY <1>1, UnderwayTypes DEF Importing
    <3>2. \A i \in 1 .. n : hr[ob + i - 1] = payload[i]
      <4>1. 2 * t.written = n
        BY <1>5, <3>1
      <4>2. \A i \in 1 .. 2 * t.written : h.ram[t.object + i - 1] = payload[i]
        BY DEF Importing
      <4>3. QED
        BY <4>1, <4>2
    <3>3. ObjectIn(h, new) = [i \in 1 .. n |-> hr[ob + i - 1]]
      <4>1. new[2] - Marker - Word = n
        BY <2>1, <3>1, Sizes
      <4>2. QED
        BY <2>1, <4>1, Zenon DEF ObjectIn, Cells
    <3>4. payload = [i \in 1 .. n |-> payload[i]]
      BY <3>1
    <3> HIDE DEF ob, hr
    <3> HIDE DEF n
    <3>5. QED
      BY <3>2, <3>3, <3>4
  <2>5. rpl_pointers(h) /\ rpl_pointers(o.hp)
    BY <1>2, <2>2, <2>3, OrderedIsReady
  <2>6. ReturnsOf(o.hp) = ReturnsOf(h) /\ ObjectsOf(o.hp) = <<payload>> \o ObjectsOf(h)
    BY <2>2, <2>3, <2>4, Zenon
  <2>7. QED
    BY <1>5, <2>5, <2>6, Zenon DEF o
<1>6. QED
  BY <1>3, <1>4, <1>5

-----------------------------------------------------------------------------
(* What object_size measures.                                              *)

(* A call of object_size, how much is left for it to do, and what it may   *)
(* return: nothing that is longer than what it was told it may read.       *)
MeasureOf(ram, size, s) == SizeOf(ram, size, s[1], s[2], s[3], s[4])
Effort(s) == (IF s[3] < 0 THEN 0 ELSE 2 * s[3]) + (IF s[1] = "body" THEN 1 ELSE 0)
Fit(a, n, v) ==
  v = BAD_SIZE \/ (v \in Int /\ 0 <= v /\ v <= n /\ Word <= n /\ a + n <= RamEnd)

LEMMA SpanIs ==
  ASSUME NEW what \in {"object", "body"}, NEW a \in Int, RamBase <= a, a <= RamEnd,
         NEW n \in Int, NEW d \in Nat
  PROVE  LET s == <<what, a, n, d>>
         IN /\ s \in Spans /\ s[1] = what /\ s[2] = a /\ s[3] = n /\ s[4] = d
            /\ Effort(s) \in Nat
            /\ n >= 0 /\ what = "object" => Effort(s) = 2 * n
            /\ n >= 0 /\ what = "body" => Effort(s) = 2 * n + 1
            /\ \A ram, size : MeasureOf(ram, size, s) = SizeOf(ram, size, what, a, n, d)
<1> DEFINE s == <<what, a, n, d>>
<1>1. s[1] = what /\ s[2] = a /\ s[3] = n /\ s[4] = d
  OBVIOUS
<1>2. s \in Spans
  BY Sizes DEF Spans
<1> HIDE DEF s
<1>3. /\ Effort(s) \in Nat
      /\ n >= 0 /\ what = "object" => Effort(s) = 2 * n
      /\ n >= 0 /\ what = "body" => Effort(s) = 2 * n + 1
  BY <1>1 DEF Effort
<1>4. \A ram, size : MeasureOf(ram, size, s) = SizeOf(ram, size, what, a, n, d)
  BY <1>1, Zenon DEF MeasureOf
<1>5. QED
  BY <1>1, <1>2, <1>3, <1>4 DEF s

LEMMA SpansAre ==
  ASSUME NEW s \in Spans
  PROVE  /\ s[1] \in {"object", "body"} /\ s[2] \in Int /\ RamBase <= s[2] /\ s[2] <= RamEnd
         /\ s[3] \in Int /\ s[4] \in Nat /\ s = <<s[1], s[2], s[3], s[4]>>
BY Sizes DEF Spans

(* object_size by the kind of the object.                                  *)
LEMMA BodyIs ==
  ASSUME NEW ram, NEW f, NEW a, NEW n, NEW d
  PROVE  LET v == SizeOf(ram, f, "body", a, n, d)
             child == f[<<"object", a, n, d>>]
         IN /\ child = BAD_SIZE => v = BAD_SIZE
            /\ child = 0 => v = Word
            /\ child \notin {0, BAD_SIZE} =>
                 v = Plus(child, f[<<"body", a + child, n - child, d>>])
BY DEF SizeOf, BAD_SIZE

LEMMA NoObject ==
  ASSUME NEW ram, NEW f, NEW a, NEW n, NEW d,
         d > MAX_OBJECT_NESTING \/ n < Word \/ a + n > RamEnd
  PROVE  SizeOf(ram, f, "object", a, n, d) = BAD_SIZE
BY DEF SizeOf

LEMMA ObjectIs ==
  ASSUME NEW ram, NEW f, NEW a, NEW n, NEW d,
         ~(d > MAX_OBJECT_NESTING \/ n < Word \/ a + n > RamEnd)
  PROVE  LET v == SizeOf(ram, f, "object", a, n, d)
             p == ram[a]
             tagged == Word + 1 + ram[a + Word]
             offset == ram[a + Word + 1]
             after == Word + 1 + offset
             held == after + (ram[a + after] + 2)
         IN /\ p = SEMI => v = 0
            /\ p = DOREAL => v = Within(RealLength, n)
            /\ p = DOCSTR => v = IF n < 2 * Word THEN BAD_SIZE
                                 ELSE Within(Word + ram[a + Word], n)
            /\ p = DOLIST => v = Plus(Word, f[<<"body", a + Word, n - Word, d + 1>>])
            /\ p \in {DOTAG, DOIDNT} => v = IF n < Word + 1 THEN BAD_SIZE
                                ELSE IF tagged > n THEN BAD_SIZE
                                ELSE Plus(tagged, f[<<"object", a + tagged, n - tagged, d + 1>>])
            /\ p = DORRP => v = IF n < 2 * Word + 1 THEN BAD_SIZE
                                ELSE IF offset = 0 THEN 2 * Word + 1
                                ELSE IF after > n - 1 \/ held > n THEN BAD_SIZE
                                ELSE Plus(held, f[<<"object", a + held, n - held, d + 1>>])
            /\ p \notin Prologs => v = Within(Word, n)
<1> DEFINE v == SizeOf(ram, f, "object", a, n, d)
           p == ram[a]
<1> USE DEF SEMI, DOREAL, DOCSTR, DOLIST, DOTAG, DORRP, DOIDNT
<1>1. p = SEMI => v = 0
  BY DEF SizeOf
<1>2. p = DOREAL => v = Within(RealLength, n)
  BY DEF SizeOf
<1>3. p = DOCSTR => v = IF n < 2 * Word THEN BAD_SIZE ELSE Within(Word + ram[a + Word], n)
  BY DEF SizeOf
<1>4. p = DOLIST => v = Plus(Word, f[<<"body", a + Word, n - Word, d + 1>>])
  BY DEF SizeOf
<1>5. p \in {DOTAG, DOIDNT} => v = IF n < Word + 1 THEN BAD_SIZE
                       ELSE LET tagged == Word + 1 + ram[a + Word]
                            IN IF tagged > n THEN BAD_SIZE
                               ELSE Plus(tagged, f[<<"object", a + tagged, n - tagged, d + 1>>])
  BY DEF SizeOf
<1>6. p = DORRP => v = IF n < 2 * Word + 1 THEN BAD_SIZE
                       ELSE LET offset == ram[a + Word + 1]
                                after == Word + 1 + offset
                                held == after + (ram[a + after] + 2)
                            IN IF offset = 0 THEN 2 * Word + 1
                               ELSE IF after > n - 1 \/ held > n THEN BAD_SIZE
                               ELSE Plus(held, f[<<"object", a + held, n - held, d + 1>>])
  BY DEF SizeOf
<1>7. p \notin Prologs => v = Within(Word, n)
  BY DEF SizeOf, Prologs
<1>8. QED
  BY <1>1, <1>2, <1>3, <1>4, <1>5, <1>6, <1>7

LEMMA FitsWithin ==
  ASSUME NEW a \in Int, NEW n \in Int, NEW l \in Int, 0 <= l, Word <= n, a + n <= RamEnd
  PROVE  Fit(a, n, Within(l, n))
BY DEF Fit, Within

LEMMA FitsPlus ==
  ASSUME NEW a \in Int, NEW n \in Int, NEW l \in Int, 0 <= l, l <= n, Word <= n, a + n <= RamEnd,
         NEW v, Fit(a + l, n - l, v)
  PROVE  Fit(a, n, Plus(l, v))
<1>1. CASE v = BAD_SIZE
  BY <1>1 DEF Fit, Plus
<1>2. CASE v # BAD_SIZE
  <2>1. v \in Int /\ 0 <= v /\ v <= n - l
    BY <1>2 DEF Fit
  <2>2. Plus(l, v) = l + v
    BY <1>2 DEF Plus
  <2>3. l + v \in Int /\ 0 <= l + v /\ l + v <= n
    BY <2>1
  <2>4. QED
    BY <2>2, <2>3 DEF Fit
<1>3. QED
  BY <1>1, <1>2

(* The calls that take less effort decide what a call returns, and if they *)
(* return what fits then so does it.                                       *)
LEMMA StepFits ==
  ASSUME NEW ram \in [Addr -> Cell], NEW f, NEW g, NEW s \in Spans,
         \A u \in Spans : Effort(u) < Effort(s) => f[u] = g[u] /\ Fit(u[2], u[3], f[u])
  PROVE  /\ MeasureOf(ram, f, s) = MeasureOf(ram, g, s)
         /\ Fit(s[2], s[3], MeasureOf(ram, f, s))
<1> DEFINE a == s[2]
           n == s[3]
           d == s[4]
<1>0. /\ Word \in Int /\ 1 < Word /\ RamBase \in Int /\ 0 < RamBase /\ RamEnd \in Int
  BY Sizes
<1>1. /\ s[1] \in {"object", "body"} /\ a \in Int /\ RamBase <= a /\ a <= RamEnd
      /\ n \in Int /\ d \in Nat /\ s = <<s[1], a, n, d>>
  BY SpansAre
<1>2. \A size : MeasureOf(ram, size, s) = SizeOf(ram, size, s[1], a, n, d)
  BY DEF MeasureOf
<1>3. /\ Effort(s) \in Nat
      /\ s[1] = "body" => Effort(s) = IF n < 0 THEN 1 ELSE 2 * n + 1
      /\ s[1] = "object" => Effort(s) = IF n < 0 THEN 0 ELSE 2 * n
  BY <1>1 DEF Effort
<1>4. ASSUME NEW what \in {"object", "body"}, NEW b \in Int, RamBase <= b, b <= RamEnd,
             NEW m \in Int, 0 <= m, NEW e \in Nat,
             (IF what = "body" THEN 2 * m + 1 ELSE 2 * m) < Effort(s)
      PROVE  f[<<what, b, m, e>>] = g[<<what, b, m, e>>] /\ Fit(b, m, f[<<what, b, m, e>>])
  <2> DEFINE u == <<what, b, m, e>>
  <2>1. /\ u \in Spans /\ u[2] = b /\ u[3] = m
        /\ m >= 0 /\ what = "object" => Effort(u) = 2 * m
        /\ m >= 0 /\ what = "body" => Effort(u) = 2 * m + 1
    BY <1>4, SpanIs
  <2> HIDE DEF u
  <2>2. Effort(u) < Effort(s)
    BY <1>4, <2>1
  <2>3. f[u] = g[u] /\ Fit(u[2], u[3], f[u])
    BY <2>1, <2>2
  <2>4. QED
    BY <2>1, <2>3 DEF u
<1> HIDE DEF a, n, d
<1>5. CASE s[1] = "body"
  <2> DEFINE o == <<"object", a, n, d>>
             child == f[o]
             v(size) == SizeOf(ram, size, "body", a, n, d)
  <2>1. child = g[o] /\ Fit(a, n, child)
    <3>1. o \in Spans /\ o[2] = a /\ o[3] = n /\ Effort(o) = IF n < 0 THEN 0 ELSE 2 * n
      <4>1. o \in Spans /\ o[1] = "object" /\ o[2] = a /\ o[3] = n
        BY <1>1, SpanIs
      <4> HIDE DEF o
      <4>2. Effort(o) = IF n < 0 THEN 0 ELSE 2 * n
        BY <4>1, <1>1 DEF Effort
      <4>3. QED
        BY <4>1, <4>2
    <3> HIDE DEF o
    <3>2. Effort(o) < Effort(s)
      BY <3>1, <1>1, <1>3, <1>5
    <3>3. QED
      BY <3>1, <3>2
  <2>2. \A size : /\ size[o] = BAD_SIZE => v(size) = BAD_SIZE
                  /\ size[o] = 0 => v(size) = Word
                  /\ size[o] \notin {0, BAD_SIZE} =>
                       v(size) = Plus(size[o], size[<<"body", a + size[o], n - size[o], d>>])
    BY BodyIs
  <2>3. MeasureOf(ram, f, s) = v(f) /\ MeasureOf(ram, g, s) = v(g)
    BY <1>2, <1>5
  <2> HIDE DEF o, v
  <2>4. CASE child = BAD_SIZE
    BY <2>1, <2>2, <2>3, <2>4, Zenon DEF Fit, a, n
  <2>5. CASE child = 0 /\ child # BAD_SIZE
    <3>1. v(f) = Word /\ v(g) = Word
      BY <2>1, <2>2, <2>5
    <3>2. Fit(a, n, Word)
      BY <2>1, <2>5, <1>0 DEF Fit
    <3>3. QED
      BY <2>3, <3>1, <3>2, Zenon DEF a, n
  <2>6. CASE child # 0 /\ child # BAD_SIZE
    <3>1. child \in Int /\ 0 < child /\ child <= n /\ Word <= n /\ a + n <= RamEnd
      BY <2>1, <2>6 DEF Fit
    <3> DEFINE rest(size) == size[<<"body", a + child, n - child, d>>]
    <3>2. v(f) = Plus(child, rest(f)) /\ v(g) = Plus(child, rest(g))
      BY <2>1, <2>2, <2>6
    <3>3. rest(f) = rest(g) /\ Fit(a + child, n - child, rest(f))
      <4> DEFINE b == a + child
                 m == n - child
      <4>1. b \in Int /\ RamBase <= b /\ b <= RamEnd /\ m \in Int /\ 0 <= m /\ 2 * m + 1 < Effort(s)
        BY <3>1, <1>0, <1>1, <1>3, <1>5
      <4> HIDE DEF b, m
      <4>2. f[<<"body", b, m, d>>] = g[<<"body", b, m, d>>] /\ Fit(b, m, f[<<"body", b, m, d>>])
        BY <4>1, <1>1, <1>4
      <4>3. QED
        BY <4>2 DEF b, m
    <3> HIDE DEF rest
    <3>4. Fit(a, n, Plus(child, rest(f)))
      BY <3>1, <3>3, <1>1, FitsPlus
    <3>5. QED
      BY <2>3, <3>2, <3>3, <3>4, Zenon DEF a, n
  <2>7. QED
    BY <2>4, <2>5, <2>6
<1>6. CASE s[1] = "object"
  <2> DEFINE v(size) == SizeOf(ram, size, "object", a, n, d)
             p == ram[a]
             tagged == Word + 1 + ram[a + Word]
             offset == ram[a + Word + 1]
             after == Word + 1 + offset
             held == after + (ram[a + after] + 2)
             part(what, size, l) == size[<<what, a + l, n - l, d + 1>>]
  <2>1. MeasureOf(ram, f, s) = v(f) /\ MeasureOf(ram, g, s) = v(g)
    BY <1>2, <1>6
  <2>2. SUFFICES v(f) = v(g) /\ Fit(a, n, v(f))
    BY <2>1, Zenon DEF a, n
  <2>3. CASE d > MAX_OBJECT_NESTING \/ n < Word \/ a + n > RamEnd
    <3>1. v(f) = BAD_SIZE /\ v(g) = BAD_SIZE
      BY <2>3, NoObject
    <3> HIDE DEF v
    <3>2. QED
      BY <3>1 DEF Fit
  <2>4. CASE ~(d > MAX_OBJECT_NESTING \/ n < Word \/ a + n > RamEnd)
    <3>0. MAX_OBJECT_NESTING \in Nat
      BY RplAssumption
    <3>1. Word <= n /\ a + n <= RamEnd
      BY <2>4, <1>0, <1>1
    <3>2. ASSUME NEW size
          PROVE
            /\ p = SEMI => v(size) = 0
            /\ p = DOREAL => v(size) = Within(RealLength, n)
            /\ p = DOCSTR => v(size) = IF n < 2 * Word THEN BAD_SIZE
                                       ELSE Within(Word + ram[a + Word], n)
            /\ p = DOLIST => v(size) = Plus(Word, part("body", size, Word))
            /\ p \in {DOTAG, DOIDNT} => v(size) = IF n < Word + 1 THEN BAD_SIZE
                                      ELSE IF tagged > n THEN BAD_SIZE
                                      ELSE Plus(tagged, part("object", size, tagged))
            /\ p = DORRP => v(size) = IF n < 2 * Word + 1 THEN BAD_SIZE
                                      ELSE IF offset = 0 THEN 2 * Word + 1
                                      ELSE IF after > n - 1 \/ held > n THEN BAD_SIZE
                                      ELSE Plus(held, part("object", size, held))
            /\ p \notin Prologs => v(size) = Within(Word, n)
      BY <2>4, ObjectIs, SMTT(60)
    <3>3. ASSUME NEW x \in Int, a <= x, x < a + n PROVE ram[x] \in Int /\ 0 <= ram[x] + 1
      <4>1. x \in Addr
        BY <3>1, <3>3, <1>0, <1>1 DEF Addr
      <4>2. ram[x] \in Cell
        BY <4>1
      <4>3. QED
        BY <4>2 DEF Cell, Rest
    <3>4. ASSUME NEW what \in {"object", "body"}, NEW l \in Int, 0 < l, l <= n
          PROVE  /\ part(what, f, l) = part(what, g, l)
                 /\ Fit(a, n, Plus(l, part(what, f, l)))
      <4> DEFINE b == a + l
                 m == n - l
      <4>1. b \in Int /\ RamBase <= b /\ b <= RamEnd /\ m \in Int /\ 0 <= m /\ d + 1 \in Nat
        BY <3>1, <3>4, <1>0, <1>1
      <4>2. (IF what = "body" THEN 2 * m + 1 ELSE 2 * m) < Effort(s)
        BY <3>1, <3>4, <1>0, <1>1, <1>3, <1>6
      <4> HIDE DEF b, m
      <4>3. /\ f[<<what, b, m, d + 1>>] = g[<<what, b, m, d + 1>>]
            /\ Fit(b, m, f[<<what, b, m, d + 1>>])
        BY <4>1, <4>2, <1>4
      <4>4. part(what, f, l) = part(what, g, l) /\ Fit(a + l, n - l, part(what, f, l))
        BY <4>3 DEF b, m
      <4> HIDE DEF part
      <4>5. QED
        BY <4>4, <3>1, <3>4, <1>1, FitsPlus
    <3> HIDE DEF v, part, tagged, after, held, offset
    <3>5. CASE p = SEMI
      <4>1. v(f) = 0 /\ v(g) = 0
        BY <3>2, <3>5
      <4>2. Fit(a, n, 0)
        BY <3>1, <1>0, <1>1 DEF Fit
      <4>3. QED
        BY <4>1, <4>2
    <3>6. CASE p = DOREAL
      <4>1. v(f) = Within(RealLength, n) /\ v(g) = Within(RealLength, n)
        BY <3>2, <3>6
      <4>2. RealLength \in Int /\ 0 <= RealLength
        BY <1>0 DEF RealLength
      <4>3. QED
        BY <4>1, <4>2, <3>1, <1>1, FitsWithin
    <3>7. CASE p = DOCSTR
      <4>1. CASE n < 2 * Word
        <5>1. v(f) = BAD_SIZE /\ v(g) = BAD_SIZE
          BY <3>2, <3>7, <4>1
        <5>2. QED
          BY <5>1 DEF Fit
      <4>2. CASE ~(n < 2 * Word)
        <5> DEFINE l == Word + ram[a + Word]
        <5>1. v(f) = Within(l, n) /\ v(g) = Within(l, n)
          BY <3>2, <3>7, <4>2
        <5>2. l \in Int /\ 0 <= l
          <6>1. a + Word \in Int /\ a <= a + Word /\ a + Word < a + n
            BY <4>2, <1>0, <1>1
          <6>2. ram[a + Word] \in Int /\ 0 <= ram[a + Word] + 1
            BY <6>1, <3>3
          <6>3. QED
            BY <6>2, <1>0
        <5> HIDE DEF l
        <5>3. QED
          BY <5>1, <5>2, <3>1, <1>1, FitsWithin
      <4>3. QED
        BY <4>1, <4>2
    <3>8. CASE p = DOLIST
      <4>1. v(f) = Plus(Word, part("body", f, Word)) /\ v(g) = Plus(Word, part("body", g, Word))
        BY <3>2, <3>8
      <4>2. /\ part("body", f, Word) = part("body", g, Word)
            /\ Fit(a, n, Plus(Word, part("body", f, Word)))
        BY <3>1, <3>4, <1>0
      <4>3. QED
        BY <4>1, <4>2
    <3>9. CASE p \in {DOTAG, DOIDNT}
      <4>1. CASE n < Word + 1 \/ tagged > n
        <5>1. v(f) = BAD_SIZE /\ v(g) = BAD_SIZE
          BY <3>2, <3>9, <4>1
        <5>2. QED
          BY <5>1 DEF Fit
      <4>2. CASE ~(n < Word + 1) /\ ~(tagged > n)
        <5>1. v(f) = Plus(tagged, part("object", f, tagged)) /\ v(g) = Plus(tagged, part("object", g, tagged))
          BY <3>2, <3>9, <4>2
        <5>2. tagged \in Int /\ 0 < tagged /\ tagged <= n
          <6>1. a + Word \in Int /\ a <= a + Word /\ a + Word < a + n
            BY <4>2, <1>0, <1>1
          <6>2. ram[a + Word] \in Int /\ 0 <= ram[a + Word] + 1
            BY <6>1, <3>3
          <6>3. tagged \in Int /\ 0 < tagged
            BY <6>2, <1>0 DEF tagged
          <6>4. QED
            BY <6>3, <4>2, <1>1
        <5>3. QED
          BY <5>1, <5>2, <3>4
      <4>3. QED
        BY <4>1, <4>2
    <3>10. CASE p = DORRP
      <4>1. CASE n < 2 * Word + 1 \/ (offset # 0 /\ (after > n - 1 \/ held > n))
        <5>1. v(f) = BAD_SIZE /\ v(g) = BAD_SIZE
          BY <3>2, <3>10, <4>1
        <5>2. QED
          BY <5>1 DEF Fit
      <4>2. CASE ~(n < 2 * Word + 1) /\ offset = 0
        <5>1. v(f) = 2 * Word + 1 /\ v(g) = 2 * Word + 1
          BY <3>2, <3>10, <4>2
        <5>2. 2 * Word + 1 \in Int /\ 0 <= 2 * Word + 1 /\ 2 * Word + 1 <= n
          BY <4>2, <1>0, <1>1
        <5>3. QED
          BY <5>1, <5>2, <3>1 DEF Fit
      <4>3. CASE ~(n < 2 * Word + 1) /\ offset # 0 /\ ~(after > n - 1) /\ ~(held > n)
        <5>1. v(f) = Plus(held, part("object", f, held)) /\ v(g) = Plus(held, part("object", g, held))
          BY <3>2, <3>10, <4>3
        <5>2. held \in Int /\ 0 < held /\ held <= n
          <6>1. a + Word + 1 \in Int /\ a <= a + Word + 1 /\ a + Word + 1 < a + n
            BY <4>3, <1>0, <1>1
          <6>2. offset \in Int /\ 0 <= offset + 1
            BY <6>1, <3>3 DEF offset
          <6>3. after \in Int /\ 0 < after /\ after <= n - 1
            BY <6>2, <4>3, <1>0, <1>1 DEF after
          <6>4. a + after \in Int /\ a <= a + after /\ a + after < a + n
            BY <6>3, <1>1
          <6>5. ram[a + after] \in Int /\ 0 <= ram[a + after] + 1
            BY <6>4, <3>3
          <6>6. held \in Int /\ 0 < held
            BY <6>3, <6>5 DEF held
          <6>7. QED
            BY <6>6, <4>3, <1>1
        <5>3. QED
          BY <5>1, <5>2, <3>4
      <4>4. QED
        BY <4>1, <4>2, <4>3
    <3>11. CASE p \notin Prologs
      <4>1. v(f) = Within(Word, n) /\ v(g) = Within(Word, n)
        BY <3>2, <3>11
      <4>2. QED
        BY <4>1, <3>1, <1>0, <1>1, FitsWithin
    <3>12. QED
      BY <3>5, <3>6, <3>7, <3>8, <3>9, <3>10, <3>11 DEF Prologs
  <2>5. QED
    BY <2>3, <2>4
<1>7. QED
  BY <1>1, <1>5, <1>6

(* A measure of all calls that take less effort than k.                    *)
Measures(ram, f, k) ==
  \A s \in Spans : Effort(s) < k => f[s] = MeasureOf(ram, f, s) /\ Fit(s[2], s[3], f[s])

LEMMA EffortIs == \A s \in Spans : Effort(s) \in Nat
<1>1. SUFFICES ASSUME NEW s \in Spans PROVE Effort(s) \in Nat
  OBVIOUS
<1>2. s[1] \in {"object", "body"} /\ s[3] \in Int
  BY SpansAre
<1>3. QED
  BY <1>2 DEF Effort

LEMMA MeasuresAgree ==
  ASSUME NEW ram \in [Addr -> Cell], NEW k \in Nat, NEW f, NEW g,
         Measures(ram, f, k), Measures(ram, g, k)
  PROVE  \A s \in Spans : Effort(s) < k => f[s] = g[s]
<1> DEFINE S == {j \in Nat : j < k => \A s \in Spans : Effort(s) = j => f[s] = g[s]}
<1>1. ASSUME NEW j \in Nat, \A i \in 0 .. j - 1 : i \in S
      PROVE  j \in S
  <2>1. SUFFICES ASSUME j < k, NEW s \in Spans, Effort(s) = j PROVE f[s] = g[s]
    OBVIOUS
  <2>2. ASSUME NEW u \in Spans, Effort(u) < Effort(s)
        PROVE  f[u] = g[u] /\ Fit(u[2], u[3], f[u])
    <3>1. Effort(u) \in Nat /\ Effort(u) \in 0 .. j - 1 /\ Effort(u) < k
      BY <2>1, <2>2, EffortIs
    <3>2. Effort(u) \in S
      BY <1>1, <3>1
    <3>3. f[u] = g[u]
      BY <3>1, <3>2
    <3>4. Fit(u[2], u[3], f[u])
      BY <3>1 DEF Measures
    <3>5. QED
      BY <3>3, <3>4
  <2>3. MeasureOf(ram, f, s) = MeasureOf(ram, g, s)
    BY <2>2, StepFits
  <2>4. f[s] = MeasureOf(ram, f, s) /\ g[s] = MeasureOf(ram, g, s)
    BY <2>1 DEF Measures
  <2>5. QED
    BY <2>3, <2>4
<1> HIDE DEF S
<1>2. \A j \in Nat : j \in S
  BY <1>1, StrongInduction
<1>3. QED
  BY <1>2, EffortIs DEF S

LEMMA MeasureExists ==
  ASSUME NEW ram \in [Addr -> Cell]
  PROVE  \A k \in Nat : \E f : Measures(ram, f, k)
<1> DEFINE S == {k \in Nat : \E f : Measures(ram, f, k)}
<1>1. 0 \in S
  <2>1. \A f : Measures(ram, f, 0)
    BY EffortIs DEF Measures
  <2>2. QED
    BY <2>1
<1>2. ASSUME NEW k \in Nat, k \in S PROVE k + 1 \in S
  <2>1. PICK f : Measures(ram, f, k)
    BY <1>2
  <2> DEFINE g == [s \in Spans |-> IF Effort(s) < k THEN f[s] ELSE MeasureOf(ram, f, s)]
  <2>2. \A s \in Spans : g[s] = IF Effort(s) < k THEN f[s] ELSE MeasureOf(ram, f, s)
    OBVIOUS
  <2> HIDE DEF g
  <2>3. ASSUME NEW s \in Spans, Effort(s) < k + 1
        PROVE  /\ g[s] = MeasureOf(ram, f, s)
               /\ MeasureOf(ram, f, s) = MeasureOf(ram, g, s)
               /\ Fit(s[2], s[3], MeasureOf(ram, f, s))
    <3>1. \A u \in Spans : Effort(u) < Effort(s) => Effort(u) < k
      BY <2>3, EffortIs
    <3>2. ASSUME NEW u \in Spans, Effort(u) < Effort(s)
          PROVE  f[u] = g[u] /\ Fit(u[2], u[3], f[u])
      BY <2>1, <2>2, <3>1, <3>2 DEF Measures
    <3>3. /\ MeasureOf(ram, f, s) = MeasureOf(ram, g, s)
          /\ Fit(s[2], s[3], MeasureOf(ram, f, s))
      BY <3>2, StepFits
    <3>4. g[s] = MeasureOf(ram, f, s)
      BY <2>1, <2>2 DEF Measures
    <3>5. QED
      BY <3>3, <3>4
  <2>4. Measures(ram, g, k + 1)
    BY <2>3, Zenon DEF Measures
  <2>5. QED
    BY <2>4
<1> HIDE DEF S
<1>3. \A k \in Nat : k \in S
  BY <1>1, <1>2, Induction
<1>4. QED
  BY <1>3 DEF S

(* What all calls on a RAM return.                                         *)
Answers(ram, f) ==
  /\ \A s \in Spans : f[s] = MeasureOf(ram, f, s) /\ Fit(s[2], s[3], f[s])
  /\ \A a, n : ObjectSize(ram, a, n) = f[<<"object", a, n, 0>>]

LEMMA SizesAre ==
  ASSUME NEW ram \in [Addr -> Cell]
  PROVE  \E f : Answers(ram, f)
<1> DEFINE P(f) == f = [s \in Spans |-> MeasureOf(ram, f, s)]
           best == CHOOSE f : P(f)
           at(s) == CHOOSE f : Measures(ram, f, Effort(s) + 1)
           F == [s \in Spans |-> at(s)[s]]
<1>1. ASSUME NEW s \in Spans PROVE Measures(ram, at(s), Effort(s) + 1)
  <2>1. Effort(s) + 1 \in Nat
    BY EffortIs
  <2>2. \E f : Measures(ram, f, Effort(s) + 1)
    BY <2>1, MeasureExists
  <2>3. QED
    BY <2>2, Zenon
<1>2. \A s \in Spans : F[s] = at(s)[s]
  OBVIOUS
<1>3. F = [s \in Spans |-> F[s]]
  OBVIOUS
<1> HIDE DEF F, at
<1>4. ASSUME NEW s \in Spans
      PROVE  F[s] = MeasureOf(ram, F, s) /\ Fit(s[2], s[3], F[s])
  <2> DEFINE f == at(s)
  <2>1. Measures(ram, f, Effort(s) + 1) /\ Effort(s) \in Nat
    BY <1>1, EffortIs
  <2>2. ASSUME NEW u \in Spans, Effort(u) < Effort(s)
        PROVE  f[u] = F[u] /\ Fit(u[2], u[3], f[u])
    <3>1. /\ Effort(u) \in Nat /\ Effort(u) < Effort(u) + 1
          /\ Effort(u) < Effort(s) + 1 /\ Effort(u) + 1 \in Nat
      BY <2>1, <2>2, EffortIs
    <3>2. Measures(ram, f, Effort(u) + 1)
      <4>1. \A w \in Spans : Effort(w) < Effort(u) + 1 => Effort(w) < Effort(s) + 1
        BY <2>1, <2>2, EffortIs
      <4>2. QED
        BY <2>1, <4>1, Zenon DEF Measures
    <3>3. Measures(ram, at(u), Effort(u) + 1)
      BY <1>1
    <3> HIDE DEF f
    <3>4. f[u] = at(u)[u]
      BY <3>1, <3>2, <3>3, MeasuresAgree
    <3>5. Fit(u[2], u[3], f[u])
      BY <2>1, <3>1, Zenon DEF Measures
    <3>6. QED
      BY <1>2, <3>4, <3>5
  <2>3. MeasureOf(ram, f, s) = MeasureOf(ram, F, s)
    BY <2>2, StepFits
  <2>4. f[s] = MeasureOf(ram, f, s) /\ Fit(s[2], s[3], f[s])
    <3>1. Effort(s) < Effort(s) + 1
      BY <2>1
    <3>2. QED
      BY <2>1, <3>1, Zenon DEF Measures
  <2>5. F[s] = f[s]
    BY <1>2
  <2>6. QED
    BY <2>3, <2>4, <2>5
<1>5. P(F)
  <2>1. \A s \in Spans : F[s] = MeasureOf(ram, F, s)
    BY <1>4
  <2>2. [s \in Spans |-> F[s]] = [s \in Spans |-> MeasureOf(ram, F, s)]
    BY <2>1, Zenon
  <2>3. QED
    BY <1>3, <2>2, Zenon
<1> HIDE DEF P
<1>6. P(best)
  BY <1>5, Zenon
<1> HIDE DEF best
<1>7. \A s \in Spans : best[s] = MeasureOf(ram, best, s)
  BY <1>6, Zenon DEF P
<1>8. \A a, n : ObjectSize(ram, a, n) = best[<<"object", a, n, 0>>]
  BY Zenon DEF ObjectSize, best, P, MeasureOf
<1>9. \A s \in Spans : Fit(s[2], s[3], best[s])
  <2> DEFINE T == {j \in Nat : \A u \in Spans : Effort(u) = j => Fit(u[2], u[3], best[u])}
  <2>1. ASSUME NEW j \in Nat, \A i \in 0 .. j - 1 : i \in T
        PROVE  j \in T
    <3>1. SUFFICES ASSUME NEW u \in Spans, Effort(u) = j PROVE Fit(u[2], u[3], best[u])
      OBVIOUS
    <3>2. ASSUME NEW w \in Spans, Effort(w) < Effort(u)
          PROVE  best[w] = best[w] /\ Fit(w[2], w[3], best[w])
      <4>1. Effort(w) \in 0 .. j - 1
        BY <3>1, <3>2, EffortIs
      <4>2. Effort(w) \in T
        BY <2>1, <4>1
      <4>3. QED
        BY <4>2
    <3>3. Fit(u[2], u[3], MeasureOf(ram, best, u))
      BY <3>2, StepFits
    <3>4. QED
      BY <1>7, <3>3
  <2> HIDE DEF T
  <2>2. \A j \in Nat : j \in T
    BY <2>1, StrongInduction
  <2>3. QED
    BY <2>2, EffortIs DEF T
<1>10. Answers(ram, best)
  BY <1>7, <1>8, <1>9, Zenon DEF Answers
<1>11. QED
  BY <1>10

(* What object_size returns is one of what it is told it may read: it      *)
(* never measures an object beyond that or beyond the RAM.                 *)
LEMMA SizeIs ==
  ASSUME NEW ram \in [Addr -> Cell], NEW a \in RamBase .. RamEnd, NEW n \in Int
  PROVE  Fit(a, n, ObjectSize(ram, a, n))
<1> DEFINE s == <<"object", a, n, 0>>
<1>1. PICK f : Answers(ram, f)
  BY SizesAre
<1>2. a \in Int /\ RamBase <= a /\ a <= RamEnd
  BY Sizes
<1>3. s \in Spans /\ s[2] = a /\ s[3] = n
  BY <1>2, SpanIs
<1> HIDE DEF s
<1>4. Fit(s[2], s[3], f[s])
  BY <1>1, <1>3 DEF Answers
<1>5. ObjectSize(ram, a, n) = f[s]
  BY <1>1, Zenon DEF Answers, s
<1>6. QED
  BY <1>3, <1>4, <1>5

(* The same cells elsewhere, with at least as many to read.                *)
Carried(ram, s, ram2, s2) ==
  /\ s2[1] = s[1] /\ s2[4] = s[4] /\ s[3] <= s2[3] /\ s2[2] + s2[3] <= RamEnd
  /\ \A i \in 0 .. s[3] - 1 : ram2[s2[2] + i] = ram[s[2] + i]

(* What a call returns depends on the cells it may read, and not on where  *)
(* they are or what follows, if that is so of the calls it makes.          *)
LEMMA StepCarries ==
  ASSUME NEW ram \in [Addr -> Cell], NEW ram2, NEW f, NEW g, NEW s \in Spans, NEW s2 \in Spans,
         Carried(ram, s, ram2, s2),
         \A u \in Spans : Effort(u) < Effort(s) => Fit(u[2], u[3], f[u]),
         \A u, w \in Spans :
           Effort(u) < Effort(s) /\ Carried(ram, u, ram2, w) /\ f[u] # BAD_SIZE => g[w] = f[u],
         MeasureOf(ram, f, s) # BAD_SIZE
  PROVE  MeasureOf(ram2, g, s2) = MeasureOf(ram, f, s)
<1> DEFINE a == s[2]
           n == s[3]
           d == s[4]
           a2 == s2[2]
           n2 == s2[3]
<1>0. /\ Word \in Int /\ 1 < Word /\ RamBase \in Int /\ 0 < RamBase /\ RamEnd \in Int
      /\ MAX_OBJECT_NESTING \in Nat
  BY Sizes, RplAssumption
<1>1. /\ s[1] \in {"object", "body"} /\ a \in Int /\ RamBase <= a /\ a <= RamEnd
      /\ n \in Int /\ d \in Nat /\ s = <<s[1], a, n, d>>
      /\ a2 \in Int /\ RamBase <= a2 /\ a2 <= RamEnd /\ n2 \in Int
  BY SpansAre
<1>2. /\ s2[1] = s[1] /\ s2[4] = d /\ n <= n2 /\ a2 + n2 <= RamEnd
      /\ \A i \in 0 .. n - 1 : ram2[a2 + i] = ram[a + i]
  BY DEF Carried
<1>3. /\ \A size : MeasureOf(ram, size, s) = SizeOf(ram, size, s[1], a, n, d)
      /\ \A size : MeasureOf(ram2, size, s2) = SizeOf(ram2, size, s[1], a2, n2, d)
  BY <1>2, Zenon DEF MeasureOf
<1>4. /\ Effort(s) \in Nat
      /\ s[1] = "body" => Effort(s) = IF n < 0 THEN 1 ELSE 2 * n + 1
      /\ s[1] = "object" => Effort(s) = IF n < 0 THEN 0 ELSE 2 * n
  BY <1>1 DEF Effort
<1> HIDE DEF a, n, d, a2, n2
<1>5. ASSUME NEW what \in {"object", "body"}, NEW l \in Int, 0 <= l, l <= n, a + n <= RamEnd,
             NEW e \in Nat,
             (IF what = "body" THEN 2 * (n - l) + 1 ELSE 2 * (n - l)) < Effort(s)
      PROVE  /\ Fit(a + l, n - l, f[<<what, a + l, n - l, e>>])
             /\ f[<<what, a + l, n - l, e>>] # BAD_SIZE =>
                  g[<<what, a2 + l, n2 - l, e>>] = f[<<what, a + l, n - l, e>>]
  <2> DEFINE b == a + l
             m == n - l
             b2 == a2 + l
             m2 == n2 - l
             u == <<what, b, m, e>>
             w == <<what, b2, m2, e>>
  <2>1. /\ b \in Int /\ RamBase <= b /\ b <= RamEnd /\ m \in Int /\ 0 <= m
        /\ b2 \in Int /\ RamBase <= b2 /\ b2 <= RamEnd /\ m2 \in Int /\ m <= m2
        /\ b2 + m2 <= RamEnd
    BY <1>5, <1>0, <1>1, <1>2
  <2>2. \A i \in 0 .. m - 1 : ram2[b2 + i] = ram[b + i]
    <3>1. ASSUME NEW i \in 0 .. m - 1 PROVE ram2[b2 + i] = ram[b + i]
      <4>1. l + i \in 0 .. n - 1
        BY <1>1, <1>5
      <4>2. ram2[a2 + (l + i)] = ram[a + (l + i)]
        BY <1>2, <4>1
      <4>3. a2 + (l + i) = b2 + i /\ a + (l + i) = b + i
        BY <1>1, <1>5
      <4> HIDE DEF b, b2
      <4>4. QED
        BY <4>2, <4>3
    <3>2. QED
      BY <3>1
  <2>3. (IF what = "body" THEN 2 * m + 1 ELSE 2 * m) < Effort(s)
    BY <1>5
  <2> HIDE DEF b, m, b2, m2
  <2>4. /\ u \in Spans /\ u[1] = what /\ u[2] = b /\ u[3] = m /\ u[4] = e
        /\ what = "object" => Effort(u) = 2 * m
        /\ what = "body" => Effort(u) = 2 * m + 1
    BY <1>5, <2>1, SpanIs
  <2>5. w \in Spans /\ w[1] = what /\ w[2] = b2 /\ w[3] = m2 /\ w[4] = e
    BY <1>5, <2>1, SpanIs
  <2> HIDE DEF u, w
  <2>6. Effort(u) < Effort(s)
    BY <1>5, <2>3, <2>4
  <2>7. Carried(ram, u, ram2, w)
    BY <2>1, <2>2, <2>4, <2>5 DEF Carried
  <2>8. Fit(b, m, f[u]) /\ (f[u] # BAD_SIZE => g[w] = f[u])
    BY <2>4, <2>5, <2>6, <2>7
  <2>9. QED
    BY <2>8 DEF b, m, b2, m2, u, w
<1>6. CASE s[1] = "body"
  <2> DEFINE o == <<"object", a, n, d>>
             o2 == <<"object", a2, n2, d>>
             child == f[o]
             v == SizeOf(ram, f, "body", a, n, d)
             v2 == SizeOf(ram2, g, "body", a2, n2, d)
  <2>1. MeasureOf(ram, f, s) = v /\ MeasureOf(ram2, g, s2) = v2 /\ v # BAD_SIZE
    BY <1>3, <1>6
  <2>2. child # BAD_SIZE
    <3>1. child = BAD_SIZE => v = BAD_SIZE
      BY BodyIs, ZenonT(60)
    <3>2. QED
      BY <2>1, <3>1, Zenon
  <2>3. o \in Spans /\ o[2] = a /\ o[3] = n /\ Effort(o) = IF n < 0 THEN 0 ELSE 2 * n
    <3>1. o \in Spans /\ o[1] = "object" /\ o[2] = a /\ o[3] = n
      BY <1>1, SpanIs
    <3> HIDE DEF o
    <3>2. Effort(o) = IF n < 0 THEN 0 ELSE 2 * n
      BY <3>1, <1>1 DEF Effort
    <3>3. QED
      BY <3>1, <3>2
  <2>4. Fit(a, n, child)
    <3> HIDE DEF o
    <3>1. Effort(o) < Effort(s)
      BY <2>3, <1>1, <1>4, <1>6
    <3>2. QED
      BY <2>3, <3>1
  <2> HIDE DEF child
  <2>5. child \in Int /\ 0 <= child /\ child <= n /\ Word <= n /\ a + n <= RamEnd
    BY <2>2, <2>4 DEF Fit
  <2>6. g[o2] = child
    <3>1. (IF "object" = "body" THEN 2 * (n - 0) + 1 ELSE 2 * (n - 0)) < Effort(s)
      BY <1>0, <1>1, <1>4, <1>6, <2>5
    <3>2. f[<<"object", a + 0, n - 0, d>>] # BAD_SIZE =>
            g[<<"object", a2 + 0, n2 - 0, d>>] = f[<<"object", a + 0, n - 0, d>>]
      BY <1>0, <1>1, <1>5, <2>5, <3>1
    <3>3. a + 0 = a /\ n - 0 = n /\ a2 + 0 = a2 /\ n2 - 0 = n2
      BY <1>1
    <3>4. f[o] # BAD_SIZE => g[o2] = f[o]
      BY <3>2, <3>3, Zenon
    <3>5. QED
      BY <2>2, <3>4 DEF child
  <2>7. /\ child = 0 => v = Word
        /\ child \notin {0, BAD_SIZE} => v = Plus(child, f[<<"body", a + child, n - child, d>>])
    BY BodyIs DEF child
  <2>8. /\ child = 0 => v2 = Word
        /\ child \notin {0, BAD_SIZE} => v2 = Plus(child, g[<<"body", a2 + child, n2 - child, d>>])
    <3>1. /\ g[o2] = 0 => v2 = Word
          /\ g[o2] \notin {0, BAD_SIZE} => v2 = Plus(g[o2], g[<<"body", a2 + g[o2], n2 - g[o2], d>>])
      BY BodyIs
    <3>2. QED
      BY <3>1, <2>6, Zenon
  <2> HIDE DEF v, v2, o, o2
  <2>9. CASE child = 0
    BY <2>1, <2>7, <2>8, <2>9
  <2>10. CASE child # 0
    <3> DEFINE rest == f[<<"body", a + child, n - child, d>>]
               rest2 == g[<<"body", a2 + child, n2 - child, d>>]
    <3>1. v = Plus(child, rest) /\ v2 = Plus(child, rest2)
      BY <2>2, <2>7, <2>8, <2>10
    <3>2. rest # BAD_SIZE
      BY <2>1, <3>1 DEF Plus
    <3>3. (IF "body" = "body" THEN 2 * (n - child) + 1 ELSE 2 * (n - child)) < Effort(s)
      BY <1>0, <1>1, <1>4, <1>6, <2>5, <2>10
    <3>4. rest2 = rest
      BY <1>1, <1>5, <2>5, <3>2, <3>3
    <3>5. QED
      BY <2>1, <3>1, <3>4
  <2>11. QED
    BY <2>9, <2>10
<1>7. CASE s[1] = "object"
  <2> DEFINE v == SizeOf(ram, f, "object", a, n, d)
             v2 == SizeOf(ram2, g, "object", a2, n2, d)
             p == ram[a]
             tagged == Word + 1 + ram[a + Word]
             offset == ram[a + Word + 1]
             after == Word + 1 + offset
             held == after + (ram[a + after] + 2)
             tagged2 == Word + 1 + ram2[a2 + Word]
             offset2 == ram2[a2 + Word + 1]
             after2 == Word + 1 + offset2
             held2 == after2 + (ram2[a2 + after2] + 2)
             part(what, l) == f[<<what, a + l, n - l, d + 1>>]
             part2(what, l) == g[<<what, a2 + l, n2 - l, d + 1>>]
  <2>1. MeasureOf(ram, f, s) = v /\ MeasureOf(ram2, g, s2) = v2 /\ v # BAD_SIZE
    BY <1>3, <1>7
  <2>2. ~(d > MAX_OBJECT_NESTING \/ n < Word \/ a + n > RamEnd)
    BY <2>1, NoObject
  <2>3. d <= MAX_OBJECT_NESTING /\ Word <= n /\ a + n <= RamEnd
    BY <2>2, <1>0, <1>1
  <2>4. ~(d > MAX_OBJECT_NESTING \/ n2 < Word \/ a2 + n2 > RamEnd)
    BY <2>3, <1>0, <1>1, <1>2
  <2>5. /\ p = SEMI => v = 0
        /\ p = DOREAL => v = Within(RealLength, n)
        /\ p = DOCSTR => v = IF n < 2 * Word THEN BAD_SIZE ELSE Within(Word + ram[a + Word], n)
        /\ p = DOLIST => v = Plus(Word, part("body", Word))
        /\ p \in {DOTAG, DOIDNT} => v = IF n < Word + 1 THEN BAD_SIZE
                            ELSE IF tagged > n THEN BAD_SIZE
                            ELSE Plus(tagged, part("object", tagged))
        /\ p = DORRP => v = IF n < 2 * Word + 1 THEN BAD_SIZE
                            ELSE IF offset = 0 THEN 2 * Word + 1
                            ELSE IF after > n - 1 \/ held > n THEN BAD_SIZE
                            ELSE Plus(held, part("object", held))
        /\ p \notin Prologs => v = Within(Word, n)
    BY <2>2, ObjectIs
  <2>6. /\ ram2[a2] = SEMI => v2 = 0
        /\ ram2[a2] = DOREAL => v2 = Within(RealLength, n2)
        /\ ram2[a2] = DOCSTR => v2 = IF n2 < 2 * Word THEN BAD_SIZE
                                     ELSE Within(Word + ram2[a2 + Word], n2)
        /\ ram2[a2] = DOLIST => v2 = Plus(Word, part2("body", Word))
        /\ ram2[a2] \in {DOTAG, DOIDNT} => v2 = IF n2 < Word + 1 THEN BAD_SIZE
                            ELSE IF tagged2 > n2 THEN BAD_SIZE
                            ELSE Plus(tagged2, part2("object", tagged2))
        /\ ram2[a2] = DORRP => v2 = IF n2 < 2 * Word + 1 THEN BAD_SIZE
                            ELSE IF offset2 = 0 THEN 2 * Word + 1
                            ELSE IF after2 > n2 - 1 \/ held2 > n2 THEN BAD_SIZE
                            ELSE Plus(held2, part2("object", held2))
        /\ ram2[a2] \notin Prologs => v2 = Within(Word, n2)
    BY <2>4, ObjectIs
  <2>7. ASSUME NEW i \in Int, 0 <= i, i < n
        PROVE  /\ ram2[a2 + i] = ram[a + i]
               /\ ram[a + i] \in Int /\ 0 <= ram[a + i] + 1
    <3>1. i \in 0 .. n - 1 /\ a + i \in Addr
      BY <2>3, <2>7, <1>0, <1>1, SMTT(30) DEF Addr
    <3>2. ram2[a2 + i] = ram[a + i]
      BY <1>2, <3>1
    <3>3. ram[a + i] \in Cell
      BY <3>1
    <3>4. QED
      BY <3>2, <3>3 DEF Cell, Rest
  <2>8. ram2[a2] = p
    <3>1. ram2[a2 + 0] = ram[a + 0]
      BY <2>3, <2>7, <1>0, <1>1
    <3>2. a2 + 0 = a2 /\ a + 0 = a
      BY <1>1
    <3>3. QED
      BY <3>1, <3>2, Zenon
  <2>9. ASSUME NEW what \in {"object", "body"}, NEW l \in Int, 0 < l, l <= n,
               Plus(l, part(what, l)) # BAD_SIZE
        PROVE  Plus(l, part2(what, l)) = Plus(l, part(what, l))
    <3>1. part(what, l) # BAD_SIZE
      BY <2>9 DEF Plus
    <3>2. (IF what = "body" THEN 2 * (n - l) + 1 ELSE 2 * (n - l)) < Effort(s)
      BY <2>3, <2>9, <1>0, <1>1, <1>4, <1>7
    <3>3. d + 1 \in Nat
      BY <1>1
    <3>4. part2(what, l) = part(what, l)
      BY <1>5, <2>3, <2>9, <3>1, <3>2, <3>3
    <3>5. QED
      BY <3>4
  <2>10. ASSUME NEW l \in Int, Within(l, n) # BAD_SIZE
         PROVE  Within(l, n2) = Within(l, n)
    BY <2>10, <1>1, <1>2 DEF Within
  <2> HIDE DEF v, v2, part, part2, tagged, after, held, offset, tagged2, after2, held2, offset2
  <2>11. CASE p = SEMI
    BY <2>5, <2>6, <2>8, <2>11, <2>1
  <2>12. CASE p = DOREAL
    <3>1. RealLength \in Int
      BY <1>0 DEF RealLength
    <3>2. v = Within(RealLength, n) /\ v2 = Within(RealLength, n2)
      BY <2>5, <2>6, <2>8, <2>12
    <3>3. QED
      BY <2>1, <2>10, <3>1, <3>2
  <2>13. CASE p = DOCSTR
    <3>1. ~(n < 2 * Word)
      BY <2>1, <2>5, <2>13
    <3>2. ~(n2 < 2 * Word) /\ Word < n
      BY <3>1, <1>0, <1>1, <1>2
    <3>3. ram2[a2 + Word] = ram[a + Word] /\ ram[a + Word] \in Int
      BY <2>7, <3>2, <1>0
    <3> DEFINE l == Word + ram[a + Word]
    <3>4. v = Within(l, n) /\ v2 = Within(l, n2)
      BY <2>5, <2>6, <2>8, <2>13, <3>1, <3>2, <3>3
    <3>5. l \in Int
      BY <1>0, <3>3
    <3> HIDE DEF l
    <3>6. QED
      BY <2>1, <2>10, <3>4, <3>5
  <2>14. CASE p = DOLIST
    <3>1. v = Plus(Word, part("body", Word)) /\ v2 = Plus(Word, part2("body", Word))
      BY <2>5, <2>6, <2>8, <2>14
    <3>2. 0 < Word
      BY <1>0
    <3>3. QED
      BY <2>1, <2>3, <2>9, <3>1, <3>2, <1>0
  <2>15. CASE p \in {DOTAG, DOIDNT}
    <3>1. ~(n < Word + 1) /\ ~(tagged > n)
      BY <2>1, <2>5, <2>15
    <3>2. ~(n2 < Word + 1) /\ Word < n
      BY <3>1, <1>0, <1>1, <1>2
    <3>3. ram2[a2 + Word] = ram[a + Word] /\ ram[a + Word] \in Int /\ 0 <= ram[a + Word] + 1
      BY <2>7, <3>2, <1>0
    <3>4. tagged2 = tagged /\ tagged \in Int /\ 0 < tagged
      BY <3>3, <1>0 DEF tagged, tagged2
    <3>5. tagged <= n /\ ~(tagged > n2)
      BY <3>1, <3>4, <1>1, <1>2
    <3>6. v = Plus(tagged, part("object", tagged)) /\ v2 = Plus(tagged, part2("object", tagged))
      BY <2>5, <2>6, <2>8, <2>15, <3>1, <3>2, <3>4, <3>5
    <3>7. QED
      BY <2>1, <2>9, <3>4, <3>5, <3>6
  <2>16. CASE p = DORRP
    <3>1. ~(n < 2 * Word + 1)
      BY <2>1, <2>5, <2>16
    <3>2. ~(n2 < 2 * Word + 1) /\ 0 <= Word + 1 /\ Word + 1 < n
      BY <3>1, <1>0, <1>1, <1>2
    <3>3. offset2 = offset /\ offset \in Int /\ 0 <= offset + 1
      <4>1. /\ ram2[a2 + (Word + 1)] = ram[a + (Word + 1)]
            /\ ram[a + (Word + 1)] \in Int /\ 0 <= ram[a + (Word + 1)] + 1
        BY <2>7, <3>2, <1>0
      <4>2. a2 + (Word + 1) = a2 + Word + 1 /\ a + (Word + 1) = a + Word + 1
        BY <1>0, <1>1
      <4>3. QED
        BY <4>1, <4>2 DEF offset, offset2
    <3>4. CASE offset = 0
      BY <2>5, <2>6, <2>8, <2>16, <3>1, <3>2, <3>3, <3>4, <2>1
    <3>5. CASE offset # 0
      <4>1. ~(after > n - 1) /\ ~(held > n)
        BY <2>1, <2>5, <2>16, <3>1, <3>5
      <4>2. after2 = after /\ after \in Int /\ 0 < after
        BY <3>3, <1>0 DEF after, after2
      <4>3. after < n /\ ~(after > n2 - 1)
        BY <4>1, <4>2, <1>1, <1>2
      <4>4. ram2[a2 + after] = ram[a + after] /\ ram[a + after] \in Int /\ 0 <= ram[a + after] + 1
        BY <2>7, <4>2, <4>3
      <4>5. held2 = held /\ held \in Int /\ 0 < held
        BY <4>2, <4>4 DEF held, held2
      <4>6. held <= n /\ ~(held > n2)
        BY <4>1, <4>5, <1>1, <1>2
      <4>7. v = Plus(held, part("object", held)) /\ v2 = Plus(held, part2("object", held))
        BY <2>5, <2>6, <2>8, <2>16, <3>1, <3>2, <3>3, <3>5, <4>1, <4>2, <4>3, <4>5, <4>6
      <4>8. QED
        BY <2>1, <2>9, <4>5, <4>6, <4>7
    <3>6. QED
      BY <3>4, <3>5
  <2>17. CASE p \notin Prologs
    <3>1. v = Within(Word, n) /\ v2 = Within(Word, n2)
      BY <2>5, <2>6, <2>8, <2>17
    <3>2. QED
      BY <2>1, <2>10, <3>1, <1>0
  <2>18. QED
    BY <2>11, <2>12, <2>13, <2>14, <2>15, <2>16, <2>17 DEF Prologs
<1>8. QED
  BY <1>1, <1>6, <1>7

(* Cells of one RAM that are those of another.                             *)
SameCells(ram, a, ram2, a2, n) == \A i \in 0 .. n - 1 : ram2[a2 + i] = ram[a + i]

(* The size of an object is a matter of its cells: elsewhere, or with more *)
(* behind it, object_size finds the same.                                  *)
THEOREM SizeTravels ==
  ASSUME NEW ram \in [Addr -> Cell], NEW a \in RamBase .. RamEnd, NEW n \in Int,
         NEW ram2 \in [Addr -> Cell], NEW a2 \in RamBase .. RamEnd, NEW n2 \in Int,
         n <= n2, a2 + n2 <= RamEnd, SameCells(ram, a, ram2, a2, n),
         ObjectSize(ram, a, n) # BAD_SIZE
  PROVE  ObjectSize(ram2, a2, n2) = ObjectSize(ram, a, n)
<1>1. PICK f : Answers(ram, f)
  BY SizesAre
<1>2. PICK g : Answers(ram2, g)
  BY SizesAre
<1>3. \A s \in Spans : f[s] = MeasureOf(ram, f, s) /\ Fit(s[2], s[3], f[s])
  BY <1>1, Zenon DEF Answers
<1>4. \A s \in Spans : g[s] = MeasureOf(ram2, g, s)
  BY <1>2, Zenon DEF Answers
<1> DEFINE S == {k \in Nat : \A s, s2 \in Spans :
                   Effort(s) = k /\ Carried(ram, s, ram2, s2) /\ f[s] # BAD_SIZE => g[s2] = f[s]}
<1>5. ASSUME NEW k \in Nat, \A i \in 0 .. k - 1 : i \in S
      PROVE  k \in S
  <2>1. SUFFICES ASSUME NEW s \in Spans, NEW s2 \in Spans, Effort(s) = k,
                        Carried(ram, s, ram2, s2), f[s] # BAD_SIZE
                 PROVE  g[s2] = f[s]
    OBVIOUS
  <2>2. \A u \in Spans : Effort(u) < Effort(s) => Fit(u[2], u[3], f[u])
    BY <1>3
  <2>3. ASSUME NEW u \in Spans, NEW w \in Spans, Effort(u) < Effort(s),
               Carried(ram, u, ram2, w), f[u] # BAD_SIZE
        PROVE  g[w] = f[u]
    <3>1. Effort(u) \in 0 .. k - 1
      BY <2>1, <2>3, EffortIs
    <3>2. Effort(u) \in S
      BY <1>5, <3>1
    <3>3. QED
      BY <2>3, <3>2
  <2>4. MeasureOf(ram, f, s) # BAD_SIZE
    BY <1>3, <2>1
  <2>5. MeasureOf(ram2, g, s2) = MeasureOf(ram, f, s)
    BY <2>1, <2>2, <2>3, <2>4, StepCarries
  <2>6. QED
    BY <1>3, <1>4, <2>5
<1> HIDE DEF S
<1>6. \A k \in Nat : k \in S
  BY <1>5, StrongInduction
<1> DEFINE s == <<"object", a, n, 0>>
           s2 == <<"object", a2, n2, 0>>
<1>7. /\ a \in Int /\ RamBase <= a /\ a <= RamEnd
      /\ a2 \in Int /\ RamBase <= a2 /\ a2 <= RamEnd
  BY Sizes
<1>8. /\ s \in Spans /\ s[1] = "object" /\ s[2] = a /\ s[3] = n /\ s[4] = 0
      /\ s2 \in Spans /\ s2[1] = "object" /\ s2[2] = a2 /\ s2[3] = n2 /\ s2[4] = 0
  BY <1>7, SpanIs
<1>9. ObjectSize(ram, a, n) = f[s] /\ ObjectSize(ram2, a2, n2) = g[s2]
  BY <1>1, <1>2, Zenon DEF Answers
<1> HIDE DEF s, s2
<1>10. Carried(ram, s, ram2, s2)
  BY <1>8 DEF Carried, SameCells
<1>11. Effort(s) \in Nat /\ Effort(s) \in S
  BY <1>6, <1>8, EffortIs
<1>12. QED
  BY <1>8, <1>9, <1>10, <1>11 DEF S

(* Cells as they lie in a RAM that holds nothing else.                     *)
AloneRam(cells) == [x \in Addr |-> IF x < RamBase + Len(cells) THEN cells[x - RamBase + 1] ELSE 0]

LEMMA AloneIs ==
  ASSUME NEW cells \in Seq(Cell), Len(cells) <= RamEnd - RamBase
  PROVE  /\ AloneRam(cells) \in [Addr -> Cell]
         /\ \A i \in 0 .. Len(cells) - 1 : AloneRam(cells)[RamBase + i] = cells[i + 1]
         /\ SizeAlone(cells) = ObjectSize(AloneRam(cells), RamBase, Len(cells))
<1> DEFINE n == Len(cells)
           ram == AloneRam(cells)
           at(x) == IF x < RamBase + n THEN cells[x - RamBase + 1] ELSE 0
<1>0. n \in Nat /\ RamBase \in Int /\ RamEnd \in Int /\ n <= RamEnd - RamBase
  BY Sizes
<1>1. ram = [x \in Addr |-> at(x)]
  BY DEF AloneRam
<1>2. cells \in [1 .. n -> Cell]
  OBVIOUS
<1> HIDE DEF n, ram
<1>3. ASSUME NEW x \in Addr PROVE at(x) \in Cell
  <2>1. x \in Int /\ RamBase <= x
    BY <1>0, RplAssumption DEF Addr
  <2>2. CASE x < RamBase + n
    <3>1. x - RamBase + 1 \in 1 .. n
      BY <1>0, <2>1, <2>2
    <3>2. QED
      BY <1>2, <2>2, <3>1
  <2>3. CASE ~(x < RamBase + n)
    BY <2>3 DEF Cell
  <2>4. QED
    BY <2>2, <2>3
<1>4. ASSUME NEW i \in 0 .. n - 1 PROVE ram[RamBase + i] = cells[i + 1]
  <2>1. /\ i \in Int /\ 0 <= i /\ i < n
        /\ RamBase + i < RamBase + n /\ (RamBase + i) - RamBase + 1 = i + 1
    BY <1>0
  <2>2. RamBase + i \in Addr
    BY <1>0, <2>1 DEF Addr
  <2>3. ram[RamBase + i] = at(RamBase + i)
    BY <1>1, <2>2
  <2>4. QED
    BY <2>1, <2>3
<1>5. ram \in [Addr -> Cell]
  <2> HIDE DEF at
  <2>1. QED
    BY <1>1, <1>3
<1>6. QED
  BY <1>4, <1>5, Zenon DEF n, ram, AloneRam, SizeAlone

(* What object_size says of cells is what it says of them by themselves,   *)
(* and what follows them in the RAM does not change that.                  *)
LEMMA AloneTravels ==
  ASSUME NEW cells \in Seq(Cell), NEW ram \in [Addr -> Cell], NEW a \in RamBase .. RamEnd,
         a + Len(cells) <= RamEnd,
         \A i \in 1 .. Len(cells) : ram[a + i - 1] = cells[i]
  PROVE  /\ Len(cells) <= RamEnd - RamBase
         /\ ObjectSize(ram, a, Len(cells)) = SizeAlone(cells)
         /\ SizeAlone(cells) # BAD_SIZE => \A n \in Int :
              Len(cells) <= n /\ a + n <= RamEnd => ObjectSize(ram, a, n) = SizeAlone(cells)
         /\ SizeAlone(cells) # BAD_SIZE =>
              SizeAlone(cells) \in Int /\ 0 <= SizeAlone(cells) /\ SizeAlone(cells) <= Len(cells)
<1> DEFINE l == Len(cells)
           alone == AloneRam(cells)
<1>0. /\ l \in Int /\ 0 <= l /\ RamBase \in Int /\ RamEnd \in Int /\ RamBase < RamEnd
      /\ a \in Int /\ RamBase <= a /\ a + l <= RamEnd /\ l <= RamEnd - RamBase
      /\ RamBase \in RamBase .. RamEnd
  BY Sizes
<1>1. /\ alone \in [Addr -> Cell]
      /\ \A i \in 0 .. l - 1 : alone[RamBase + i] = cells[i + 1]
      /\ SizeAlone(cells) = ObjectSize(alone, RamBase, l)
  BY <1>0, AloneIs
<1> HIDE DEF l, alone
<1>2. ASSUME NEW i \in 0 .. l - 1 PROVE ram[a + i] = alone[RamBase + i]
  <2>1. i + 1 \in 1 .. l /\ a + (i + 1) - 1 = a + i
    BY <1>0
  <2>2. ram[a + i] = cells[i + 1]
    BY <2>1 DEF l
  <2>3. QED
    BY <1>1, <2>2
<1>3. ASSUME NEW n \in Int, l <= n, a + n <= RamEnd, SizeAlone(cells) # BAD_SIZE
      PROVE  ObjectSize(ram, a, n) = SizeAlone(cells)
  <2>1. SameCells(alone, RamBase, ram, a, l)
    BY <1>2 DEF SameCells
  <2>2. QED
    BY <1>0, <1>1, <1>3, <2>1, SizeTravels
<1>4. ASSUME ObjectSize(ram, a, l) # BAD_SIZE
      PROVE  ObjectSize(ram, a, l) = SizeAlone(cells)
  <2>1. SameCells(ram, a, alone, RamBase, l)
    BY <1>2 DEF SameCells
  <2>2. RamBase + l <= RamEnd /\ l <= l
    BY <1>0
  <2>3. QED
    BY <1>0, <1>1, <1>4, <2>1, <2>2, SizeTravels
<1>5. ObjectSize(ram, a, l) = SizeAlone(cells)
  <2>1. l <= l
    BY <1>0
  <2>2. QED
    BY <1>0, <1>3, <1>4, <2>1
<1>6. SizeAlone(cells) # BAD_SIZE =>
        SizeAlone(cells) \in Int /\ 0 <= SizeAlone(cells) /\ SizeAlone(cells) <= l
  <2>1. Fit(RamBase, l, ObjectSize(alone, RamBase, l))
    BY <1>0, <1>1, SizeIs
  <2>2. QED
    BY <1>1, <2>1 DEF Fit
<1>7. QED
  BY <1>0, <1>3, <1>5, <1>6 DEF l

-----------------------------------------------------------------------------
(* The export.                                                             *)

ExportRecord == [object : Int, cells : Int, slot : Slots, offset : Int]

(* The numbers of an export; what it reads lies in the RAM.                *)
Exporting(x) ==
  /\ x \in ExportRecord
  /\ RamBase <= x.object /\ 0 < x.cells /\ x.object + x.cells <= RamEnd
  /\ 0 <= x.offset /\ x.offset <= PackedBytes(x)

(* The .NEW file of an export holds what was read so far, under a number   *)
(* that no other file has; when it is synced it holds all.                 *)
ExportInv ==
  /\ final = [s \in Slots |-> final[s]] /\ temp = [s \in Slots |-> temp[s]]
  /\ job \in {"write", "sync", "rename", "unlink"} =>
       /\ export.slot \in Slots /\ final[export.slot] = NoFile
       /\ temp[export.slot] # UserFile
  /\ job \in {"write", "sync", "rename"} =>
       /\ Exporting(export)
       /\ rpl_pointers(hp) /\ hp48_rpl_stack_depth(hp) > 0
       /\ temp[export.slot] = ExportRead(hp, export, 0, export.offset)
       /\ job # "write" => export.offset = PackedBytes(export)
  /\ job \in {"idle", "read", "close", "write", "sync", "rename", "unlink"}

(* The bytes an export reads are cells, and two reads in turn are one.     *)
LEMMA ReadIs ==
  ASSUME NEW h \in Hp, NEW x, Exporting(x), NEW o \in Nat, NEW n \in Nat,
         o + n <= PackedBytes(x)
  PROVE  /\ ExportRead(h, x, o, n) \in Seq(Cell) /\ Len(ExportRead(h, x, o, n)) = 2 * n
         /\ \A i \in 1 .. 2 * n : ExportRead(h, x, o, n)[i] =
              IF 2 * o + i <= x.cells THEN h.ram[x.object + 2 * o + i - 1] ELSE 0
<1> DEFINE ob == x.object
           xc == x.cells
           ram == h.ram
           e(i) == IF 2 * o + i <= xc THEN ram[ob + 2 * o + i - 1] ELSE 0
           r == ExportRead(h, x, o, n)
<1>0. RamBase \in Int /\ RamEnd \in Int
  BY Sizes
<1>1. ob \in Int /\ xc \in Int /\ RamBase <= ob /\ ob + xc <= RamEnd
  BY DEF Exporting, ExportRecord
<1>2. ram \in [Addr -> Cell]
  BY DEF Hp
<1>3. r = [i \in 1 .. 2 * n |-> e(i)]
  BY DEF ExportRead
<1> HIDE DEF ob, xc, ram, r
<1>4. ASSUME NEW i \in 1 .. 2 * n PROVE e(i) \in Cell
  <2>1. CASE 2 * o + i <= xc
    <3>1. ob + 2 * o + i - 1 \in Addr
      BY <1>0, <1>1, <2>1 DEF Addr
    <3>2. QED
      BY <1>2, <2>1, <3>1
  <2>2. CASE ~(2 * o + i <= xc)
    BY <2>2 DEF Cell
  <2>3. QED
    BY <2>1, <2>2
<1>5. \A i \in 1 .. 2 * n : r[i] = e(i)
  BY <1>3
<1>6. r \in [1 .. 2 * n -> Cell]
  <2> HIDE DEF e
  <2>1. QED
    BY <1>3, <1>4
<1>7. 2 * n \in Nat
  OBVIOUS
<1>8. r \in Seq(Cell) /\ Len(r) = 2 * n
  BY <1>6, <1>7, FunctionIsSeq
<1>9. QED
  BY <1>5, <1>8 DEF ob, xc, ram, r

LEMMA ReadsAreOne ==
  ASSUME NEW h \in Hp, NEW x, Exporting(x), NEW o \in Nat, NEW n \in Nat,
         o + n <= PackedBytes(x)
  PROVE  ExportRead(h, x, 0, o) \o ExportRead(h, x, o, n) = ExportRead(h, x, 0, o + n)
<1> DEFINE a == ExportRead(h, x, 0, o)
           b == ExportRead(h, x, o, n)
           c == ExportRead(h, x, 0, o + n)
           xc == x.cells
           ob == x.object
           ram == h.ram
           p == PackedBytes(x)
<1>0. xc \in Int /\ ob \in Int /\ p \in Int
  BY DEF Exporting, ExportRecord, PackedBytes
<1>1. /\ a \in Seq(Cell) /\ Len(a) = 2 * o
      /\ \A i \in 1 .. 2 * o : a[i] = IF 2 * 0 + i <= xc THEN ram[ob + 2 * 0 + i - 1] ELSE 0
  <2>1. 0 \in Nat /\ 0 + o <= p
    BY <1>0
  <2>2. QED
    BY <2>1, ReadIs
<1>2. /\ b \in Seq(Cell) /\ Len(b) = 2 * n
      /\ \A i \in 1 .. 2 * n : b[i] = IF 2 * o + i <= xc THEN ram[ob + 2 * o + i - 1] ELSE 0
  BY ReadIs
<1>3. /\ c \in Seq(Cell) /\ Len(c) = 2 * (o + n)
      /\ \A i \in 1 .. 2 * (o + n) :
           c[i] = IF 2 * 0 + i <= xc THEN ram[ob + 2 * 0 + i - 1] ELSE 0
  <2>1. 0 \in Nat /\ o + n \in Nat /\ 0 + (o + n) <= p
    BY <1>0
  <2>2. QED
    BY <2>1, ReadIs
<1> HIDE DEF a, b, c, xc, ob, ram, p
<1> DEFINE u == a \o b
<1>4. /\ u \in Seq(Cell) /\ Len(u) = 2 * o + 2 * n
      /\ \A i \in 1 .. 2 * o + 2 * n : u[i] = IF i <= 2 * o THEN a[i] ELSE b[i - 2 * o]
  BY <1>1, <1>2, ConcatProperties
<1> HIDE DEF u
<1>5. ASSUME NEW i \in 1 .. 2 * o + 2 * n PROVE u[i] = c[i]
  <2>1. i \in Int /\ 1 <= i /\ i <= 2 * o + 2 * n /\ i \in 1 .. 2 * (o + n)
    OBVIOUS
  <2>2. CASE i <= 2 * o
    <3>1. i \in 1 .. 2 * o
      BY <2>1, <2>2
    <3>2. a[i] = c[i]
      BY <1>1, <1>3, <2>1, <3>1
    <3>3. QED
      BY <1>4, <2>1, <2>2, <3>2
  <2>3. CASE ~(i <= 2 * o)
    <3> DEFINE k == i - 2 * o
    <3>1. k \in 1 .. 2 * n /\ 2 * o + k = i /\ ob + 2 * o + k - 1 = ob + 2 * 0 + i - 1
          /\ 2 * 0 + i = i
      BY <1>0, <2>1, <2>3
    <3>2. u[i] = b[k]
      BY <1>4, <2>1, <2>3
    <3> HIDE DEF k
    <3>3. b[k] = IF 2 * o + k <= xc THEN ram[ob + 2 * o + k - 1] ELSE 0
      BY <1>2, <3>1
    <3>4. c[i] = IF 2 * 0 + i <= xc THEN ram[ob + 2 * 0 + i - 1] ELSE 0
      BY <1>3, <2>1
    <3>5. b[k] = c[i]
      BY <3>1, <3>3, <3>4, Zenon
    <3>6. QED
      BY <3>2, <3>5
  <2>4. QED
    BY <2>2, <2>3
<1>6. 2 * (o + n) = 2 * o + 2 * n
  OBVIOUS
<1>7. u = c
  BY <1>3, <1>4, <1>5, <1>6, SeqEqual
<1>8. QED
  BY <1>7 DEF u, a, b, c

(* What an export that begins has found on level 1.                        *)
LEMMA ExportBeginIs ==
  ASSUME NEW h, NEW B, rpl_pointers(h) => Ordered(h, B)
  PROVE  LET begun == ExportBegin(h)
         IN /\ begun.status \in {"OK", "NOT_READY", "EMPTY_STACK", "BAD_OBJECT"}
            /\ begun.status = "OK" =>
                 /\ rpl_pointers(h) /\ hp48_rpl_stack_depth(h) > 0
                 /\ begun.transfer = [object |-> begun.transfer.object,
                                      cells |-> begun.transfer.cells]
                 /\ begun.transfer.object \in Int /\ RamBase <= begun.transfer.object
                 /\ begun.transfer.cells \in Int /\ 0 < begun.transfer.cells
                 /\ begun.transfer.object + begun.transfer.cells <= RamEnd
<1> DEFINE begun == ExportBegin(h)
           object == h.ram[h.dsktop]
           size == IF object \in Addr THEN ObjectSize(h.ram, object, RamEnd - object)
                   ELSE BAD_SIZE
           depth == hp48_rpl_stack_depth(h)
           unready == Outcome(h, NoExport, "NOT_READY")
           empty == Outcome(h, NoExport, "EMPTY_STACK")
           bad == Outcome(h, NoExport, "BAD_OBJECT")
           good == Outcome(h, [object |-> object, cells |-> size], "OK")
<1>1. /\ ~rpl_pointers(h) => begun = unready
      /\ rpl_pointers(h) /\ depth = 0 => begun = empty
      /\ rpl_pointers(h) /\ depth # 0 =>
           begun = IF size \in {BAD_SIZE, 0} THEN bad ELSE good
  BY DEF ExportBegin
<1>2. /\ unready.status = "NOT_READY" /\ empty.status = "EMPTY_STACK"
      /\ bad.status = "BAD_OBJECT" /\ good.status = "OK"
      /\ good.transfer = [object |-> object, cells |-> size]
  BY DEF Outcome
<1> HIDE DEF begun, unready, empty, bad, good
<1>3. CASE ~rpl_pointers(h) \/ depth = 0 \/ size \in {BAD_SIZE, 0}
  <2> HIDE DEF size, depth
  <2>1. begun = unready \/ begun = empty \/ begun = bad
    BY <1>1, <1>3, Zenon
  <2>2. QED
    BY <1>2, <2>1 DEF begun
<1>4. CASE rpl_pointers(h) /\ depth # 0 /\ size \notin {BAD_SIZE, 0}
  <2>1. begun = good
    <3> HIDE DEF size, depth
    <3>1. QED
      BY <1>1, <1>4, Zenon
  <2>2. Ordered(h, B) /\ depth \in Nat
    BY <1>4, DepthIs
  <2>3. h.ram \in [Addr -> Cell]
    BY <2>2 DEF Ordered, Hp
  <2>4. object \in Addr /\ size = ObjectSize(h.ram, object, RamEnd - object)
    BY <1>4
  <2> DEFINE ram == h.ram
  <2> HIDE DEF object, ram
  <2>5. object \in Int /\ RamBase <= object /\ object < RamEnd /\ object \in RamBase .. RamEnd
        /\ RamEnd - object \in Int
    BY <2>4, Sizes DEF Addr
  <2>6. Fit(object, RamEnd - object, ObjectSize(ram, object, RamEnd - object))
    BY <2>3, <2>5, SizeIs DEF ram
  <2>7. Fit(object, RamEnd - object, size)
    BY <2>4, <2>6 DEF ram
  <2> HIDE DEF size
  <2>8. size \in Int /\ 0 < size /\ object + size <= RamEnd
    BY <1>4, <2>5, <2>7, Sizes DEF Fit
  <2>9. /\ begun.status = "OK" /\ begun.transfer = [object |-> object, cells |-> size]
    BY <1>2, <2>1
  <2>10. begun.transfer.object = object /\ begun.transfer.cells = size
    BY <2>9
  <2>11. rpl_pointers(h) /\ depth > 0
    BY <1>4, <2>2
  <2>12. QED
    BY <2>5, <2>8, <2>9, <2>10, <2>11 DEF begun
<1>5. QED
  BY <1>3, <1>4

(* A transfer that ends with one of these has failed.                      *)
Failures == {"IO_ERROR", "NO_INPUT", "BAD_HEADER", "BAD_OBJECT", "NOT_READY", "NO_MEMORY",
             "OUT_OF_RANGE", "EMPTY_STACK", "OUTBOX_FULL"}

LEMMA DoneFails ==
  ASSUME NEW result \in Failures, Done(result)
  PROVE  job' = "idle" /\ status' \notin {"OK", "NONE"}
BY DEF Failures, Done

LEMMA SlotsAre == Slots \in SUBSET Nat
<1>1. IsFiniteSet(Slots) /\ Slots = 0 .. Cardinality(Slots) - 1
  BY ObjectFilesAssumption
<1>2. Cardinality(Slots) \in Nat
  BY <1>1, FS_CardinalityType
<1>3. QED
  BY <1>1, <1>2

(* What does not touch the files while no export runs.                     *)
LEMMA ExportRests ==
  ASSUME ExportInv, UNCHANGED <<final, temp>>, job' \in {"idle", "read", "close"}
  PROVE  ExportInv'
<1>1. (final = [s \in Slots |-> final[s]] /\ temp = [s \in Slots |-> temp[s]])'
  BY Zenon DEF ExportInv
<1>2. QED
  BY <1>1 DEF ExportInv

LEMMA OthersExport ==
  ASSUME ExportInv,
         \/ object_files_cycle \/ ImportUnreadable \/ object_files_import_selected
         \/ ImportRead \/ ImportClose \/ ExportFails \/ Drop \/ Pick \/ RomReady
  PROVE  ExportInv'
<1>1. UNCHANGED <<final, temp>>
  BY Zenon DEF object_files_cycle, ImportUnreadable, object_files_import_selected, ImportRead,
         ImportClose, ExportFails, Drop, Pick, RomReady, RomStep
<1>2. job' \in {"idle", "read", "close"}
  <2>1. CASE object_files_cycle \/ RomReady
    BY <2>1 DEF object_files_cycle, RomReady, Idle
  <2>2. CASE ImportUnreadable \/ ExportFails
    BY <2>2, DoneIs DEF ImportUnreadable, ExportFails
  <2>3. CASE object_files_import_selected
    <3>1. (\E result : Done(result)) \/ job' = "read"
      BY <2>3, Zenon DEF object_files_import_selected
    <3>2. QED
      BY <3>1, DoneIs
  <2>4. CASE ImportRead
    <3>1. (\E result : Done(result)) \/ job' = "read" \/ job' = "close"
      BY <2>4, Zenon DEF ImportRead, EndImport
    <3>2. QED
      BY <3>1, DoneIs
  <2>5. CASE ImportClose
    BY <2>5, DoneIs DEF ImportClose, EndImport
  <2>6. CASE Drop \/ Pick
    <3>1. job' = job /\ job = "idle"
      BY <2>6, Zenon DEF Drop, Pick, RomStep, Idle
    <3>2. QED
      BY <3>1
  <2>7. QED
    BY <2>1, <2>2, <2>3, <2>4, <2>5, <2>6
<1>3. QED
  BY <1>1, <1>2, ExportRests

LEMMA PowerCutExport ==
  ASSUME ExportInv, PowerCut
  PROVE  ExportInv'
<1>1. job' = "idle" /\ final' = final
      /\ temp' = IF job \in {"write", "sync"} THEN [temp EXCEPT ![export.slot] = Partial] ELSE temp
  BY DEF PowerCut
<1>2. (final = [s \in Slots |-> final[s]])'
  BY <1>1, Zenon DEF ExportInv
<1>3. (temp = [s \in Slots |-> temp[s]])'
  <2>1. temp = [s \in Slots |-> temp[s]]
    BY DEF ExportInv
  <2>2. DOMAIN temp = Slots
    BY <2>1, Zenon
  <2>3. temp' = [s \in Slots |-> temp'[s]]
    BY <1>1, <2>1, <2>2
  <2>4. QED
    BY <2>3
<1>4. QED
  BY <1>1, <1>2, <1>3 DEF ExportInv

(* The files of a step that changes one of them.                           *)
LEMMA FilesChange ==
  ASSUME NEW f, f = [s \in Slots |-> f[s]], NEW slot \in Slots, NEW v
  PROVE  LET g == [f EXCEPT ![slot] = v]
         IN g = [s \in Slots |-> g[s]] /\ g[slot] = v /\ \A s \in Slots : s # slot => g[s] = f[s]
<1> DEFINE g == [f EXCEPT ![slot] = v]
<1>1. DOMAIN f = Slots
  BY Zenon
<1>2. g = [s \in Slots |-> IF s = slot THEN v ELSE f[s]]
  BY <1>1
<1> HIDE DEF g
<1>3. QED
  BY <1>2 DEF g

LEMMA FreeIs ==
  ASSUME FreeSlots # {}
  PROVE  /\ Least(FreeSlots) \in Slots
         /\ final[Least(FreeSlots)] = NoFile /\ temp[Least(FreeSlots)] = NoFile
<1>1. FreeSlots \in SUBSET Nat
  BY SlotsAre DEF FreeSlots
<1>2. Least(FreeSlots) \in FreeSlots
  BY <1>1, LeastIs
<1>3. QED
  BY <1>2, Zenon DEF FreeSlots

LEMMA IdleOrdered ==
  ASSUME MemoryInv, ~torn, job \notin {"read", "close"}, rpl_pointers(hp)
  PROVE  \E B : Ordered(hp, B)
BY DEF MemoryInv, InHand

(* How an export begins.                                                   *)
LEMMA ExportBegins ==
  ASSUME MemoryInv, ExportInv, object_files_export_stack
  PROVE  \/ /\ \E result \in Failures : Done(result)
            /\ UNCHANGED temp
         \/ /\ job' = "write" /\ status' = status
            /\ \E slot \in FreeSlots :
                 /\ slot \in Slots /\ temp' = [temp EXCEPT ![slot] = <<>>]
                 /\ export'.slot = slot /\ export'.offset = 0 /\ Exporting(export')
                 /\ rpl_pointers(hp) /\ hp48_rpl_stack_depth(hp) > 0
<1> DEFINE begun == ExportBegin(hp)
           slot == Least(FreeSlots)
<1>1. IF begun.status # "OK" THEN Done(begun.status) /\ UNCHANGED <<temp, export>>
      ELSE IF FreeSlots = {} THEN Done("OUTBOX_FULL") /\ UNCHANGED <<temp, export>>
      ELSE IF temp[slot] # NoFile THEN Done("IO_ERROR") /\ UNCHANGED <<temp, export>>
      ELSE /\ temp' = [temp EXCEPT ![slot] = <<>>]
           /\ export' = [object |-> begun.transfer.object, cells |-> begun.transfer.cells,
                         slot |-> slot, offset |-> 0]
           /\ job' = "write" /\ UNCHANGED status
  BY Zenon DEF object_files_export_stack
<1>2. job = "idle" /\ ~torn
  BY DEF object_files_export_stack, Idle
<1>3. PICK B : rpl_pointers(hp) => Ordered(hp, B)
  BY <1>2, IdleOrdered
<1>4. /\ begun.status \in {"OK", "NOT_READY", "EMPTY_STACK", "BAD_OBJECT"}
      /\ begun.status = "OK" =>
           /\ rpl_pointers(hp) /\ hp48_rpl_stack_depth(hp) > 0
           /\ begun.transfer.object \in Int /\ RamBase <= begun.transfer.object
           /\ begun.transfer.cells \in Int /\ 0 < begun.transfer.cells
           /\ begun.transfer.object + begun.transfer.cells <= RamEnd
  BY <1>3, ExportBeginIs
<1> DEFINE ob == begun.transfer.object
           n == begun.transfer.cells
<1>5. CASE begun.status # "OK"
  BY <1>1, <1>4, <1>5 DEF Failures
<1>6. CASE begun.status = "OK" /\ (FreeSlots = {} \/ temp[slot] # NoFile)
  BY <1>1, <1>6 DEF Failures
<1>7. CASE begun.status = "OK" /\ FreeSlots # {} /\ temp[slot] = NoFile
  <2>1. slot \in Slots /\ slot \in FreeSlots
    BY <1>7, FreeIs DEF FreeSlots
  <2>2. /\ temp' = [temp EXCEPT ![slot] = <<>>] /\ job' = "write" /\ status' = status
        /\ export' = [object |-> ob, cells |-> n, slot |-> slot, offset |-> 0]
    BY <1>1, <1>7, Zenon
  <2>3. rpl_pointers(hp) /\ hp48_rpl_stack_depth(hp) > 0
    BY <1>4, <1>7
  <2>4. /\ ob \in Int /\ RamBase <= ob /\ n \in Int /\ 0 < n /\ ob + n <= RamEnd
    BY <1>4, <1>7
  <2> HIDE DEF begun, ob, n, slot
  <2>5. /\ export'.slot = slot /\ export'.offset = 0 /\ export'.object = ob /\ export'.cells = n
        /\ export' \in ExportRecord
    BY <2>1, <2>2, <2>4 DEF ExportRecord
  <2>6. PackedBytes(export') \in Int /\ 0 <= PackedBytes(export')
    <3>1. PackedBytes(export') = (n + 1) \div 2
      BY <2>5 DEF PackedBytes
    <3>2. (n + 1) \div 2 \in Int /\ 0 <= (n + 1) \div 2
      BY <2>4
    <3>3. QED
      BY <3>1, <3>2
  <2>7. Exporting(export')
    BY <2>4, <2>5, <2>6, Sizes DEF Exporting
  <2>8. QED
    BY <2>1, <2>2, <2>3, <2>5, <2>7, Zenon
<1>8. QED
  BY <1>5, <1>6, <1>7

LEMMA ExportStackExport ==
  ASSUME MemoryInv, ExportInv, object_files_export_stack
  PROVE  ExportInv'
<1>1. UNCHANGED <<hp, final>> /\ job = "idle" /\ ~torn
  BY DEF object_files_export_stack, Idle
<1>2. CASE (\E result \in Failures : Done(result)) /\ UNCHANGED temp
  <2>1. job' = "idle"
    BY <1>2, DoneIs
  <2>2. QED
    BY <1>1, <1>2, <2>1, ExportRests
<1>3. ASSUME job' = "write", NEW slot \in FreeSlots, slot \in Slots,
             temp' = [temp EXCEPT ![slot] = <<>>],
             export'.slot = slot, export'.offset = 0, Exporting(export'),
             rpl_pointers(hp), hp48_rpl_stack_depth(hp) > 0
      PROVE  ExportInv'
  <2>1. final = [s \in Slots |-> final[s]] /\ temp = [s \in Slots |-> temp[s]]
    BY DEF ExportInv
  <2>2. temp' = [s \in Slots |-> temp'[s]] /\ temp'[slot] = <<>>
    BY <1>3, <2>1, FilesChange
  <2>3. final'[slot] = NoFile
    BY <1>1 DEF FreeSlots
  <2>4. <<>> # UserFile
    <3>1. <<>> \in Seq(Cell)
      OBVIOUS
    <3>2. UserFile \notin Seq(Cell)
      BY ObjectFilesAssumption
    <3>3. QED
      BY <3>1, <3>2
  <2>5. ExportRead(hp, export', 0, 0) = <<>>
    <3>1. PICK B : Ordered(hp, B)
      BY <1>1, <1>3, IdleOrdered
    <3>2. hp \in Hp
      BY <3>1 DEF Ordered
    <3>3. 0 \in Nat /\ 0 + 0 <= PackedBytes(export')
      BY <1>3 DEF Exporting
    <3> DEFINE r == ExportRead(hp, export', 0, 0)
    <3>4. r \in Seq(Cell) /\ Len(r) = 2 * 0
      BY <1>3, <3>2, <3>3, ReadIs
    <3> HIDE DEF r
    <3>5. r = <<>>
      BY <3>4
    <3>6. QED
      BY <3>5 DEF r
  <2>6. (final = [s \in Slots |-> final[s]] /\ temp = [s \in Slots |-> temp[s]])'
    BY <1>1, <2>1, <2>2, Zenon
  <2>7. (temp[export.slot] = ExportRead(hp, export, 0, export.offset))'
    BY <1>1, <1>3, <2>2, <2>5, Zenon
  <2>8. (rpl_pointers(hp) /\ hp48_rpl_stack_depth(hp) > 0)'
    BY <1>1, <1>3, Zenon
  <2>9. (export.slot \in Slots /\ final[export.slot] = NoFile /\ temp[export.slot] # UserFile)'
    BY <1>3, <2>2, <2>3, <2>4
  <2>10. (Exporting(export))'
    BY <1>3
  <2>11. QED
    BY <1>3, <2>6, <2>7, <2>8, <2>9, <2>10 DEF ExportInv
<1>4. QED
  BY <1>2, <1>3, ExportBegins, Zenon

(* A write of the next chunk, and the last steps of an export.             *)
LEMMA ExportWriteExport ==
  ASSUME MemoryInv, ExportInv, ExportWrite
  PROVE  ExportInv'
<1> DEFINE left == PackedBytes(export) - export.offset
           chunk == IF left > BUFFER_BYTES THEN BUFFER_BYTES ELSE left
           slot == export.slot
           o == export.offset
<1>1. /\ job = "write" /\ UNCHANGED <<hp, final>>
      /\ \/ /\ temp' = [temp EXCEPT ![slot] = temp[slot] \o ExportRead(hp, export, o, chunk)]
            /\ export' = [export EXCEPT !.offset = o + chunk]
            /\ job' = IF chunk = left THEN "sync" ELSE "write"
         \/ /\ temp' = [temp EXCEPT ![slot] = Partial]
            /\ UNCHANGED export
            /\ job' = "unlink"
  BY DEF ExportWrite
<1>2. /\ final = [s \in Slots |-> final[s]] /\ temp = [s \in Slots |-> temp[s]]
      /\ slot \in Slots /\ final[slot] = NoFile
      /\ Exporting(export) /\ rpl_pointers(hp) /\ hp48_rpl_stack_depth(hp) > 0
      /\ temp[slot] = ExportRead(hp, export, 0, o)
  BY <1>1 DEF ExportInv
<1>3. PICK B : Ordered(hp, B)
  BY <1>1, <1>2, IdleOrdered DEF MemoryInv
<1>4. hp \in Hp
  BY <1>3 DEF Ordered
<1>5. CASE /\ temp' = [temp EXCEPT ![slot] = Partial]
           /\ UNCHANGED export
           /\ job' = "unlink"
  <2>1. temp' = [s \in Slots |-> temp'[s]] /\ temp'[slot] = Partial
    BY <1>2, <1>5, FilesChange
  <2>2. (final = [s \in Slots |-> final[s]] /\ temp = [s \in Slots |-> temp[s]])'
    BY <1>1, <1>2, <2>1, Zenon
  <2>3. (export.slot \in Slots /\ final[export.slot] = NoFile /\ temp[export.slot] # UserFile)'
    <3>1. Partial # UserFile
      BY ObjectFilesAssumption
    <3>2. QED
      BY <1>1, <1>2, <1>5, <2>1, <3>1
  <2>4. QED
    BY <1>5, <2>2, <2>3 DEF ExportInv
<1>6. CASE /\ temp' = [temp EXCEPT ![slot] = temp[slot] \o ExportRead(hp, export, o, chunk)]
           /\ export' = [export EXCEPT !.offset = o + chunk]
           /\ job' = IF chunk = left THEN "sync" ELSE "write"
  <2> DEFINE p == PackedBytes(export)
             all == ExportRead(hp, export, 0, o + chunk)
  <2>1. o \in Nat /\ p \in Int /\ o <= p /\ export \in ExportRecord
    <3>1. export.offset \in Int /\ export.cells \in Int /\ 0 <= export.offset
          /\ export.offset <= PackedBytes(export) /\ export \in ExportRecord
      BY <1>2 DEF Exporting, ExportRecord
    <3>2. PackedBytes(export) \in Int
      BY <3>1 DEF PackedBytes
    <3>3. QED
      BY <3>1, <3>2
  <2>2. chunk \in Nat /\ o + chunk \in Nat /\ o + chunk <= p /\ (chunk = left => o + chunk = p)
    <3> HIDE DEF o, p
    <3>1. BUFFER_BYTES \in Nat /\ left = p - o
      BY ObjectFilesAssumption DEF o, p
    <3> HIDE DEF left
    <3>2. chunk \in Nat /\ chunk <= left
      BY <2>1, <3>1
    <3> HIDE DEF chunk
    <3>3. QED
      BY <2>1, <3>1, <3>2
  <2> HIDE DEF chunk, left
  <2>3. temp[slot] \o ExportRead(hp, export, o, chunk) = all
    <3>1. /\ chunk \in Nat /\ o \in Nat /\ o + chunk <= PackedBytes(export)
          /\ Exporting(export) /\ hp \in Hp
      BY <1>2, <1>4, <2>1, <2>2 DEF p
    <3> HIDE DEF o, p
    <3>2. ExportRead(hp, export, 0, o) \o ExportRead(hp, export, o, chunk) = all
      BY <3>1, ReadsAreOne
    <3>3. temp[slot] = ExportRead(hp, export, 0, o)
      BY <1>2, Zenon DEF o
    <3>4. QED
      BY <3>2, <3>3, Zenon
  <2>4. /\ export'.slot = slot /\ export'.object = export.object
        /\ export'.cells = export.cells /\ export'.offset = o + chunk
        /\ export' \in ExportRecord
    <3> HIDE DEF o
    <3>1. o + chunk \in Int
      BY <2>2
    <3> DEFINE next == o + chunk
    <3> HIDE DEF next
    <3>2. export' = [export EXCEPT !.offset = next]
      BY <1>6 DEF next
    <3>3. next \in Int
      BY <3>1 DEF next
    <3>4. QED
      BY <2>1, <3>2, <3>3 DEF ExportRecord, next, o
  <2>5. PackedBytes(export') = p
    BY <2>4 DEF PackedBytes
  <2>6. Exporting(export')
    BY <1>2, <2>2, <2>4, <2>5 DEF Exporting
  <2>7. ExportRead(hp, export', 0, export'.offset) = all
    BY <2>4, Zenon DEF ExportRead
  <2>8. temp' = [s \in Slots |-> temp'[s]] /\ temp'[slot] = all
    <3>1. temp' = [temp EXCEPT ![slot] = all]
      BY <1>6, <2>3, Zenon
    <3> HIDE DEF all
    <3>2. QED
      BY <1>2, <3>1, FilesChange
  <2>9. all # UserFile
    <3>1. 0 \in Nat /\ 0 + (o + chunk) <= p
      BY <2>1, <2>2
    <3>2. all \in Seq(Cell)
      BY <1>2, <1>4, <2>2, <3>1, ReadIs
    <3>3. UserFile \notin Seq(Cell)
      BY ObjectFilesAssumption
    <3> HIDE DEF all
    <3>4. QED
      BY <3>2, <3>3
  <2>10. job' \in {"write", "sync"} /\ (job' # "write" => o + chunk = p)
    BY <1>6, <2>2
  <2> HIDE DEF all, p
  <2>11. (final = [s \in Slots |-> final[s]] /\ temp = [s \in Slots |-> temp[s]])'
    BY <1>1, <1>2, <2>8, Zenon
  <2>12. (export.slot \in Slots /\ final[export.slot] = NoFile /\ temp[export.slot] # UserFile)'
    BY <1>1, <1>2, <2>4, <2>8, <2>9
  <2>13. (temp[export.slot] = ExportRead(hp, export, 0, export.offset))'
    BY <1>1, <2>4, <2>7, <2>8, Zenon
  <2>14. (rpl_pointers(hp) /\ hp48_rpl_stack_depth(hp) > 0)'
    BY <1>1, <1>2, Zenon
  <2>15. (job # "write" => export.offset = PackedBytes(export))'
    BY <2>4, <2>5, <2>10
  <2>16. QED
    BY <2>6, <2>10, <2>11, <2>12, <2>13, <2>14, <2>15 DEF ExportInv
<1>7. QED
  BY <1>1, <1>5, <1>6

LEMMA ExportEndsExport ==
  ASSUME ExportInv, ExportSync \/ ExportRename \/ ExportUnlink
  PROVE  ExportInv'
<1>1. CASE ExportSync
  <2>1. /\ job = "sync" /\ job' \in {"rename", "unlink"}
        /\ UNCHANGED <<hp, final, temp, export>>
    BY <1>1 DEF ExportSync
  <2>2. (final = [s \in Slots |-> final[s]] /\ temp = [s \in Slots |-> temp[s]])'
    BY <2>1, Zenon DEF ExportInv
  <2>3. (/\ export.slot \in Slots /\ final[export.slot] = NoFile /\ temp[export.slot] # UserFile
         /\ Exporting(export) /\ rpl_pointers(hp) /\ hp48_rpl_stack_depth(hp) > 0
         /\ temp[export.slot] = ExportRead(hp, export, 0, export.offset)
         /\ export.offset = PackedBytes(export))'
    BY <2>1 DEF ExportInv
  <2>4. QED
    BY <2>1, <2>2, <2>3 DEF ExportInv
<1>2. CASE ExportRename /\ job' = "unlink"
  <2>1. job = "rename" /\ UNCHANGED <<final, temp, export>>
    BY <1>2, DoneIs DEF ExportRename
  <2>2. (final = [s \in Slots |-> final[s]] /\ temp = [s \in Slots |-> temp[s]])'
    BY <2>1, Zenon DEF ExportInv
  <2>3. (export.slot \in Slots /\ final[export.slot] = NoFile /\ temp[export.slot] # UserFile)'
    BY <2>1 DEF ExportInv
  <2>4. QED
    BY <1>2, <2>2, <2>3 DEF ExportInv
<1>3. CASE ExportRename /\ job' # "unlink"
  <2>1. /\ job = "rename" /\ final' = [final EXCEPT ![export.slot] = temp[export.slot]]
        /\ temp' = [temp EXCEPT ![export.slot] = NoFile] /\ job' = "idle"
    BY <1>3, DoneIs DEF ExportRename
  <2>2. /\ final = [s \in Slots |-> final[s]] /\ temp = [s \in Slots |-> temp[s]]
        /\ export.slot \in Slots
    BY <2>1 DEF ExportInv
  <2>3. final' = [s \in Slots |-> final'[s]] /\ temp' = [s \in Slots |-> temp'[s]]
    BY <2>1, <2>2, FilesChange
  <2>4. (final = [s \in Slots |-> final[s]] /\ temp = [s \in Slots |-> temp[s]])'
    BY <2>3
  <2>5. QED
    BY <2>1, <2>4 DEF ExportInv
<1>4. CASE ExportUnlink
  <2>1. /\ job = "unlink" /\ final' = final /\ job' = "idle"
        /\ temp' = [temp EXCEPT ![export.slot] = NoFile] \/ temp' = temp
    BY <1>4, DoneIs DEF ExportUnlink
  <2>2. /\ final = [s \in Slots |-> final[s]] /\ temp = [s \in Slots |-> temp[s]]
        /\ export.slot \in Slots
    BY <2>1 DEF ExportInv
  <2>3. final' = [s \in Slots |-> final'[s]]
    BY <2>1, <2>2, Zenon
  <2>4. temp' = [s \in Slots |-> temp'[s]]
    <3>1. CASE temp' = [temp EXCEPT ![export.slot] = NoFile]
      BY <2>2, <3>1, FilesChange
    <3>2. CASE temp' = temp
      BY <2>2, <3>2, Zenon
    <3>3. QED
      BY <2>1, <3>1, <3>2
  <2>5. (final = [s \in Slots |-> final[s]] /\ temp = [s \in Slots |-> temp[s]])'
    BY <2>3, <2>4
  <2>6. QED
    BY <2>1, <2>5 DEF ExportInv
<1>5. QED
  BY <1>1, <1>2, <1>3, <1>4

(* Whatever fails and however long the object and the buffer are, the .NEW *)
(* file of an export holds what was read so far, all of it when it is      *)
(* synced, under a number no other file has; what is read of the HP lies   *)
(* in the RAM.                                                             *)
THEOREM ExportHolds == Spec => []ExportInv
<1>1. Init => ExportInv
  <2>1. SUFFICES ASSUME Init PROVE ExportInv
    OBVIOUS
  <2>2. job = "idle"
    BY <2>1 DEF Init
  <2>3. final = [s \in Slots |-> final[s]] /\ temp = [s \in Slots |-> temp[s]]
    <3>1. /\ final = [s \in Slots |-> IF s \in UserFinals THEN UserFile ELSE NoFile]
          /\ temp = [s \in Slots |-> IF s \in UserTemps THEN UserFile ELSE NoFile]
      BY <2>1 DEF Init
    <3>2. QED
      BY <3>1
  <2>4. QED
    BY <2>2, <2>3 DEF ExportInv
<1>2. MemoryInv /\ ExportInv /\ [Next]_vars => ExportInv'
  <2>1. SUFFICES ASSUME MemoryInv, ExportInv, [Next]_vars PROVE ExportInv'
    OBVIOUS
  <2>2. CASE \/ object_files_cycle \/ ImportUnreadable \/ object_files_import_selected
             \/ ImportRead \/ ImportClose \/ ExportFails \/ Drop \/ Pick \/ RomReady
    BY <2>1, <2>2, OthersExport
  <2>3. CASE object_files_export_stack
    BY <2>1, <2>3, ExportStackExport
  <2>4. CASE ExportWrite
    BY <2>1, <2>4, ExportWriteExport
  <2>5. CASE ExportSync \/ ExportRename \/ ExportUnlink
    BY <2>1, <2>5, ExportEndsExport
  <2>6. CASE PowerCut
    BY <2>1, <2>6, PowerCutExport
  <2>7. CASE UNCHANGED vars
    BY <2>1, <2>7, Zenon DEF vars, ExportInv
  <2>8. QED
    BY <2>1, <2>2, <2>3, <2>4, <2>5, <2>6, <2>7 DEF Next, Transfers
<1>3. QED
  BY <1>1, <1>2, MemoryHolds, PTL DEF Spec

-----------------------------------------------------------------------------
(* What object_size says of a file that is imported and of level 1 when it *)
(* is exported.                                                            *)

(* Where the object of a level lies.                                       *)
LEMMA LevelLies ==
  ASSUME NEW h, NEW B, Ordered(h, B), NEW level \in 1 .. hp48_rpl_stack_depth(h)
  PROVE  LET cells == ObjectsOf(h)[level]
             a == h.ram[LevelCell(h, level)]
         IN /\ h.ram \in [Addr -> Cell] /\ cells \in Seq(Cell)
            /\ a \in Addr /\ a + Len(cells) + Word <= RamEnd
            /\ \A i \in 1 .. Len(cells) : h.ram[a + i - 1] = cells[i]
            /\ \E b \in B : /\ a = b[1] + Marker /\ Len(cells) = b[2] - Marker - Word
                            /\ a \in Pointers(h)
<1> DEFINE cells == ObjectsOf(h)[level]
           a == h.ram[LevelCell(h, level)]
           ram == h.ram
<1>0. /\ Word \in Int /\ 1 < Word /\ Marker \in Int /\ 0 < Marker
      /\ RamBase \in Int /\ 0 < RamBase /\ RamEnd \in Int
  BY Sizes
<1>1. hp48_rpl_stack_depth(h) \in Int
  BY DepthIs
<1>2. LevelCell(h, level) \in StackCells(h)
  BY <1>1, LevelCells
<1>3. PICK b \in B : a = b[1] + Marker
  BY <1>2 DEF Ordered
<1>4. cells = ObjectIn(h, b)
  BY <1>3, ObjectsAre
<1>5. ram \in [Addr -> Cell] /\ h.temptop \in Int /\ Tiles(ram, B, h.temptop)
  BY DEF Ordered, Hp
<1>6. h.temptop <= RamEnd
  <2> DEFINE t == h.temptop
             r == h.rsktop
             d == h.dsktop
             e == h.editline
  <2>1. t \in Int /\ r \in Int /\ d \in Int /\ e \in Int
    BY DEF Ordered, Hp
  <2>2. t <= r /\ r <= d /\ d + Word <= e /\ e < RamEnd
    BY DEF Ordered
  <2> HIDE DEF t, r, d, e
  <2>3. t <= RamEnd
    BY <2>1, <2>2, <1>0
  <2>4. QED
    BY <2>3 DEF t
<1>7. b[1] \in Int /\ b[2] \in Int
  BY <1>5 DEF Tiles
<1>8. RamBase <= b[1] /\ Marker + Word <= b[2] /\ b[1] + b[2] <= h.temptop
  BY <1>5, Zenon DEF Tiles
<1> DEFINE n == b[2] - Marker - Word
           at(i) == ram[a + i - 1]
<1>9. cells = [i \in 1 .. n |-> at(i)]
  <2>1. ObjectIn(h, b) = [i \in 1 .. n |-> ram[b[1] + Marker + i - 1]]
    BY DEF ObjectIn, Cells
  <2>2. QED
    BY <1>3, <1>4, <2>1, Zenon
<1>10. /\ n \in Int /\ 0 <= n /\ a \in Int /\ RamBase <= a /\ a + n + Word <= RamEnd
       /\ a \in Addr
  <2> DEFINE t == h.temptop
  <2>1. t \in Int /\ t <= RamEnd /\ b[1] + b[2] <= t
    BY <1>5, <1>6, <1>8
  <2> HIDE DEF t, a
  <2>2. n \in Int /\ 0 <= n /\ a \in Int /\ RamBase <= a /\ a + n + Word <= RamEnd
    BY <1>0, <1>3, <1>7, <1>8, <2>1
  <2>3. a \in Addr
    BY <1>0, <2>2 DEF Addr
  <2>4. QED
    BY <2>2, <2>3 DEF a
<1> HIDE DEF n, ram, cells, a
<1>11. ASSUME NEW i \in 1 .. n PROVE at(i) \in Cell
  <2>1. a + i - 1 \in Addr
    BY <1>0, <1>10 DEF Addr
  <2>2. QED
    BY <1>5, <2>1
<1>12. cells \in Seq(Cell) /\ Len(cells) = n
  <2> HIDE DEF at
  <2>1. cells \in [1 .. n -> Cell] /\ n \in Nat
    BY <1>9, <1>10, <1>11
  <2>2. QED
    BY <2>1, FunctionIsSeq
<1>13. \A i \in 1 .. Len(cells) : ram[a + i - 1] = cells[i]
  BY <1>9, <1>12
<1>14. a \in Pointers(h)
  BY <1>2, Zenon DEF Pointers, a
<1>15. Len(cells) = b[2] - Marker - Word
  BY <1>12 DEF n
<1>16. a + Len(cells) + Word <= RamEnd
  BY <1>10, <1>12
<1>17. /\ ram \in [Addr -> Cell] /\ cells \in Seq(Cell) /\ a \in Addr
       /\ \E c \in B : a = c[1] + Marker /\ Len(cells) = c[2] - Marker - Word /\ a \in Pointers(h)
  BY <1>3, <1>5, <1>10, <1>12, <1>14, <1>15, Zenon DEF a
<1>18. QED
  BY <1>13, <1>16, <1>17, Zenon DEF ram, cells, a

(* The verdict of a commit of a whole file is that of object_size.         *)
LEMMA CommitJudges ==
  ASSUME NEW h, NEW t, t.written = t.bytes
  PROVE  LET o == ImportCommit(h, t)
             available == 2 * t.bytes
             actual == ObjectSize(h.ram, t.object, available)
             whole == actual \notin {BAD_SIZE, 0} /\ available \in {actual, actual + 1}
         IN /\ whole => o.status \in {"OK", "NO_MEMORY"}
            /\ ~whole => o.status = "BAD_OBJECT"
<1> DEFINE o == ImportCommit(h, t)
           available == 2 * t.bytes
           actual == ObjectSize(h.ram, t.object, available)
           good == Outcome([h EXCEPT !.ram = Write5(@, h.dsktop - Word, t.object),
                                     !.dsktop = h.dsktop - Word, !.avmem = @ - 1],
                           NoTransfer, "OK")
           full == h.avmem = 0 \/ h.dsktop < t.rsktop + t.allocation + Word
           bad == t.written # t.bytes \/ actual \in {BAD_SIZE, 0}
                  \/ available \notin {actual, actual + 1}
<1>1. o = IF bad THEN ImportAbort(h, t, "BAD_OBJECT")
          ELSE IF full THEN ImportAbort(h, t, "NO_MEMORY") ELSE good
  BY Zenon DEF ImportCommit
<1>2. /\ ImportAbort(h, t, "BAD_OBJECT").status = "BAD_OBJECT"
      /\ ImportAbort(h, t, "NO_MEMORY").status = "NO_MEMORY" /\ good.status = "OK"
  BY DEF ImportAbort, Outcome
<1>3. bad <=> ~(actual \notin {BAD_SIZE, 0} /\ available \in {actual, actual + 1})
  <2> HIDE DEF actual, available
  <2>1. QED
    BY Zenon
<1> HIDE DEF good, full, bad, o, actual, available
<1>4. (bad => o.status = "BAD_OBJECT") /\ (~bad => o.status \in {"OK", "NO_MEMORY"})
  BY <1>1, <1>2
<1>5. QED
  BY <1>3, <1>4, Zenon DEF o, actual, available

(* The cells that are read of a file: whole exactly when object_size takes *)
(* them for one object as they lie in the new block.                       *)
LEMMA FileJudged ==
  ASSUME NEW h, NEW t, NEW payload \in Seq(Cell), Importing(h, t, payload),
         t.written = t.bytes
  PROVE  LET available == 2 * t.bytes
             actual == ObjectSize(h.ram, t.object, available)
         IN /\ Len(payload) <= RamEnd - RamBase
            /\ Whole(payload) <=>
                 (actual \notin {BAD_SIZE, 0} /\ available \in {actual, actual + 1})
<1>1. PICK B : Underway(h, t, B)
  BY DEF Importing
<1> DEFINE ob == t.object
           tb == t.bytes
           ram == h.ram
           l == Len(payload)
           alone == SizeAlone(payload)
<1>2. ram \in [Addr -> Cell]
  BY <1>1 DEF Underway, Hp
<1>3. ob \in Int /\ RamBase <= ob /\ ob + 2 * tb <= RamEnd /\ tb \in Int /\ 0 < tb
  <2> DEFINE tt == t.temptop
             tr == t.rsktop
             al == t.allocation
             ht == h.temptop
             hr == h.rsktop
             hd == h.dsktop
             he == h.editline
  <2>1. /\ ht \in Int /\ hr \in Int /\ hd \in Int /\ he \in Int /\ tb \in Int /\ 0 < tb
        /\ tt \in Int /\ tr \in Int /\ ob \in Int /\ al \in Int
    BY <1>1, UnderwayTypes
  <2>2. /\ ob = tt + Marker /\ RamBase <= tt /\ tt <= tr /\ al = 2 * tb + Marker + Word
        /\ ht = tt + al /\ hr = tr + al /\ hr + Word <= hd /\ hd + Word <= he /\ he < RamEnd
    BY <1>1, UnderwayLies
  <2> HIDE DEF ob, tb, tt, tr, al, ht, hr, hd, he
  <2>3. QED
    BY <2>1, <2>2, Sizes
<1>4. 2 * tb = l /\ \A i \in 1 .. 2 * tb : ram[ob + i - 1] = payload[i]
  BY Zenon DEF Importing
<1> HIDE DEF ob, tb, ram
<1>5. l \in Nat /\ 0 < l /\ ob \in RamBase .. RamEnd /\ ob + l <= RamEnd
  BY <1>3, <1>4, Sizes
<1>6. /\ l <= RamEnd - RamBase /\ ObjectSize(ram, ob, l) = alone
      /\ alone # BAD_SIZE => alone \in Int /\ 0 <= alone /\ alone <= l
  BY <1>2, <1>4, <1>5, AloneTravels
<1> HIDE DEF alone, l
<1>7. Whole(payload) <=> alone > 0 /\ l \in {alone, alone + 1}
  BY <1>6, Zenon DEF Whole, alone, l
<1>8. Whole(payload) <=> (alone \notin {BAD_SIZE, 0} /\ l \in {alone, alone + 1})
  BY <1>5, <1>6, <1>7 DEF BAD_SIZE
<1>9. ObjectSize(ram, ob, 2 * tb) = alone
  BY <1>4, <1>6
<1> DEFINE actual == ObjectSize(ram, ob, 2 * tb)
<1>10. Whole(payload) <=> (actual \notin {BAD_SIZE, 0} /\ 2 * tb \in {actual, actual + 1})
  BY <1>4, <1>8, <1>9, Zenon
<1>11. QED
  BY <1>6, <1>10, Zenon DEF ram, ob, tb, l

(* An import that read its whole file is refused as bad exactly when       *)
(* object_size does not take that for whole.                               *)
LEMMA CloseJudges ==
  ASSUME MemoryInv, ImportClose
  PROVE  /\ Payload \in Seq(Cell) /\ Len(Payload) % 2 = 0
         /\ Len(Payload) <= RamEnd - RamBase
         /\ status' = "OK" => Whole(Payload)
         /\ status' = "BAD_OBJECT" => ~Whole(Payload)
<1>1. /\ job = "close" /\ selected \in Names /\ Importing(hp, transfer, Payload)
      /\ transfer.written = transfer.bytes
  BY DEF ImportClose, MemoryInv
<1>2. Payload \in Seq(Cell) /\ Len(Payload) % 2 = 0
  BY <1>1, PayloadIs DEF Payload
<1> DEFINE o == ImportCommit(hp, transfer)
           bad == ImportAbort(hp, transfer, "IO_ERROR")
<1>3. /\ Whole(Payload) => o.status \in {"OK", "NO_MEMORY"}
      /\ ~Whole(Payload) => o.status = "BAD_OBJECT"
      /\ Len(Payload) <= RamEnd - RamBase
  BY <1>1, <1>2, CommitJudges, FileJudged, Zenon
<1>4. bad.status = "IO_ERROR"
  BY DEF ImportAbort, Outcome
<1>5. Done(bad.status) \/ Done(o.status)
  BY Zenon DEF ImportClose, EndImport
<1> HIDE DEF o, bad
<1>6. status' = "OK" \/ status' = "BAD_OBJECT" => Done(o.status)
  BY <1>4, <1>5 DEF Done
<1>7. (status' = "OK" => o.status = "OK") /\ (status' = "BAD_OBJECT" => o.status = "BAD_OBJECT")
  <2>1. o.status \in {"OK", "NO_MEMORY", "BAD_OBJECT"}
    BY <1>3
  <2>2. QED
    BY <1>6, <2>1 DEF Done
<1>8. QED
  BY <1>2, <1>3, <1>7

LEMMA PackedIs ==
  ASSUME NEW cells \in Seq(Cell)
  PROVE  /\ Exchange!Packed(cells) \in Seq(Cell) /\ Len(Exchange!Packed(cells)) % 2 = 0
         /\ Len(Exchange!Packed(cells)) = 2 * ((Len(cells) + 1) \div 2)
         /\ \A i \in 1 .. Len(cells) : Exchange!Packed(cells)[i] = cells[i]
         /\ Len(cells) % 2 = 0 => Exchange!Packed(cells) = cells
         /\ Len(cells) % 2 # 0 => Exchange!Packed(cells)[Len(cells) + 1] = 0
<1>1. 0 \in Cell /\ Len(cells) \in Nat
  BY DEF Cell
<1>2. CASE Len(cells) % 2 = 0
  BY <1>1, <1>2 DEF Exchange!Packed
<1>3. CASE Len(cells) % 2 # 0
  <2>1. Exchange!Packed(cells) = Append(cells, 0)
    BY <1>3 DEF Exchange!Packed
  <2>2. /\ Append(cells, 0) \in Seq(Cell) /\ Len(Append(cells, 0)) = Len(cells) + 1
        /\ \A i \in 1 .. Len(cells) : Append(cells, 0)[i] = cells[i]
        /\ Append(cells, 0)[Len(cells) + 1] = 0
    BY <1>1, AppendProperties
  <2>3. (Len(cells) + 1) % 2 = 0 /\ Len(cells) + 1 = 2 * ((Len(cells) + 1) \div 2)
    BY <1>1, <1>3
  <2>4. QED
    BY <1>3, <2>1, <2>2, <2>3
<1>4. QED
  BY <1>2, <1>3

(* An export finds level 1, as long as it is.                              *)
LEMMA ExportFinds ==
  ASSUME NEW h, NEW B, Ordered(h, B), hp48_rpl_stack_depth(h) > 0,
         Whole(ObjectsOf(h)[1])
  PROVE  LET begun == ExportBegin(h)
             level1 == ObjectsOf(h)[1]
         IN /\ begun.status = "OK"
            /\ begun.transfer = [object |-> h.ram[h.dsktop], cells |-> SizeAlone(level1)]
            /\ SizeAlone(level1) \in Int /\ 0 < SizeAlone(level1)
            /\ Len(level1) \in {SizeAlone(level1), SizeAlone(level1) + 1}
            /\ level1 \in Seq(Cell)
            /\ \A i \in 1 .. Len(level1) : h.ram[h.ram[h.dsktop] + i - 1] = level1[i]
<1> DEFINE depth == hp48_rpl_stack_depth(h)
           level1 == ObjectsOf(h)[1]
           a == h.ram[h.dsktop]
           ram == h.ram
           l == Len(level1)
           alone == SizeAlone(level1)
<1>0. depth \in Nat /\ depth > 0 /\ 1 \in 1 .. depth
  BY DepthIs
<1>1. LevelCell(h, 1) = h.dsktop
  <2>1. h.dsktop \in Int
    BY DEF Ordered, Hp
  <2>2. QED
    BY <2>1, Sizes DEF LevelCell
<1>2. /\ ram \in [Addr -> Cell] /\ level1 \in Seq(Cell) /\ a \in Addr
      /\ a + l + Word <= RamEnd /\ \A i \in 1 .. l : ram[a + i - 1] = level1[i]
  <2>1. LET x == h.ram[LevelCell(h, 1)]
        IN /\ ram \in [Addr -> Cell] /\ level1 \in Seq(Cell) /\ x \in Addr
           /\ x + l + Word <= RamEnd /\ \A i \in 1 .. l : ram[x + i - 1] = level1[i]
    BY <1>0, LevelLies
  <2>2. QED
    BY <1>1, <2>1, Zenon
<1>3. Whole(level1)
  OBVIOUS
<1>4. rpl_pointers(h)
  BY OrderedIsReady
<1>5. ExportBegin(h) = IF (IF a \in Addr THEN ObjectSize(ram, a, RamEnd - a) ELSE BAD_SIZE)
                            \in {BAD_SIZE, 0}
                       THEN Outcome(h, NoExport, "BAD_OBJECT")
                       ELSE Outcome(h, [object |-> a, cells |->
                              IF a \in Addr THEN ObjectSize(ram, a, RamEnd - a) ELSE BAD_SIZE], "OK")
  BY <1>0, <1>4 DEF ExportBegin
<1> HIDE DEF depth, level1, a, ram
<1>6. l \in Nat
  BY <1>2
<1> HIDE DEF l
<1>7. /\ a \in RamBase .. RamEnd /\ a + l <= RamEnd /\ RamEnd - a \in Int
      /\ l <= RamEnd - a /\ a + (RamEnd - a) <= RamEnd
  BY <1>2, <1>6, Sizes DEF Addr
<1>8. alone > 0 /\ l \in {alone, alone + 1}
  BY <1>3 DEF Whole, l
<1>9. /\ alone # BAD_SIZE => ObjectSize(ram, a, RamEnd - a) = alone
      /\ alone # BAD_SIZE => alone \in Int
  BY <1>2, <1>7, AloneTravels DEF l
<1> HIDE DEF alone
<1>10. alone # BAD_SIZE
  BY <1>8 DEF BAD_SIZE
<1>11. alone \notin {BAD_SIZE, 0} /\ alone \in Int /\ ObjectSize(ram, a, RamEnd - a) = alone
  BY <1>8, <1>9, <1>10
<1>12. ExportBegin(h) = Outcome(h, [object |-> a, cells |-> alone], "OK")
  BY <1>2, <1>5, <1>11, Zenon
<1>13. /\ Outcome(h, [object |-> a, cells |-> alone], "OK").status = "OK"
       /\ Outcome(h, [object |-> a, cells |-> alone], "OK").transfer = [object |-> a, cells |-> alone]
  BY DEF Outcome
<1>14. \A i \in 1 .. l : ram[a + i - 1] = level1[i]
  BY <1>2
<1>15. QED
  BY <1>2, <1>8, <1>11, <1>12, <1>13, <1>14, Zenon DEF depth, level1, a, ram, l, alone

(* What an export reads of an object: its cells, and a last nibble of zero *)
(* where they are odd.                                                     *)
LEMMA ExportReads ==
  ASSUME NEW h \in Hp, NEW x, Exporting(x), NEW cells \in Seq(Cell), Len(cells) = x.cells,
         \A i \in 1 .. Len(cells) : h.ram[x.object + i - 1] = cells[i]
  PROVE  ExportRead(h, x, 0, PackedBytes(x)) = Exchange!Packed(cells)
<1> DEFINE file == ExportRead(h, x, 0, PackedBytes(x))
           packed == Exchange!Packed(cells)
           c == x.cells
           ob == x.object
           ram == h.ram
           p == PackedBytes(x)
<1>1. c \in Int /\ 0 < c /\ ob \in Int /\ p = (c + 1) \div 2
  BY DEF Exporting, ExportRecord, PackedBytes
<1>2. p \in Nat /\ c <= 2 * p /\ 2 * p <= c + 1 /\ 0 + p <= p
  BY <1>1
<1>3. /\ file \in Seq(Cell) /\ Len(file) = 2 * p
      /\ \A i \in 1 .. 2 * p : file[i] = IF 2 * 0 + i <= c THEN ram[ob + 2 * 0 + i - 1] ELSE 0
  <2>1. 0 \in Nat /\ p \in Nat /\ 0 + p <= p
    BY <1>2
  <2> HIDE DEF p
  <2>2. /\ ExportRead(h, x, 0, p) \in Seq(Cell) /\ Len(ExportRead(h, x, 0, p)) = 2 * p
        /\ \A i \in 1 .. 2 * p : ExportRead(h, x, 0, p)[i] =
             IF 2 * 0 + i <= x.cells THEN h.ram[x.object + 2 * 0 + i - 1] ELSE 0
    BY <2>1, ReadIs, SMTT(30) DEF p
  <2>3. QED
    BY <2>2 DEF p
<1>4. /\ packed \in Seq(Cell) /\ Len(packed) = 2 * ((c + 1) \div 2)
      /\ \A i \in 1 .. c : packed[i] = cells[i]
      /\ c % 2 # 0 => packed[c + 1] = 0
  BY PackedIs
<1>5. \A i \in 1 .. c : ram[ob + i - 1] = cells[i]
  OBVIOUS
<1> HIDE DEF file, packed, c, ob, ram, p
<1>6. ASSUME NEW i \in 1 .. 2 * p PROVE file[i] = packed[i]
  <2>1. CASE i <= c
    <3>1. i \in 1 .. c /\ 2 * 0 + i = i /\ ob + 2 * 0 + i - 1 = ob + i - 1
      BY <1>1, <2>1
    <3>2. file[i] = ram[ob + i - 1]
      BY <1>3, <2>1, <3>1
    <3>3. QED
      BY <1>4, <1>5, <3>1, <3>2
  <2>2. CASE ~(i <= c)
    <3>1. i = c + 1 /\ c % 2 # 0
      BY <1>1, <1>2, <2>2
    <3>2. file[i] = 0
      BY <1>1, <1>3, <2>2
    <3>3. QED
      BY <1>4, <3>1, <3>2
  <2>3. QED
    BY <2>1, <2>2
<1>7. Len(packed) = 2 * p
  BY <1>1, <1>4
<1>8. file = packed
  BY <1>3, <1>4, <1>6, <1>7, SeqEqual
<1>9. QED
  BY <1>8 DEF file, packed

(* What an export makes of an object whose end object_size finds.          *)
LEMMA ExportedIs ==
  ASSUME NEW cells \in Measured
  PROVE  Whole(cells) /\ Exported[cells] = SubSeq(cells, 1, SizeAlone(cells))
BY Zenon DEF Measured, Exported

(* What an export of level 1 writes once it began.                         *)
LevelOne(h, x) ==
  LET level1 == ObjectsOf(h)[1]
  IN level1 \in Measured =>
       ExportRead(h, x, 0, PackedBytes(x)) = Exchange!Packed(Exported[level1])

(* An export that begins: of a level 1 whose end object_size finds in it   *)
(* it is not refused as bad, and writes what it should.                    *)
LEMMA ExportStackTells ==
  ASSUME MemoryInv, ExportInv', object_files_export_stack, rpl_pointers(hp)
  PROVE  /\ hp48_rpl_stack_depth(hp) > 0 /\ ObjectsOf(hp)[1] \in Measured /\ job' = "idle"
              => status' # "BAD_OBJECT"
         /\ job' = "write" => hp48_rpl_stack_depth(hp) > 0 /\ LevelOne(hp, export')
<1> DEFINE begun == ExportBegin(hp)
           level1 == ObjectsOf(hp)[1]
           depth == hp48_rpl_stack_depth(hp)
           a == hp.ram[hp.dsktop]
           size == SizeAlone(level1)
<1>1. /\ ~torn /\ InHand(hp)
      /\ \/ begun.status # "OK" /\ Done(begun.status)
         \/ Done("OUTBOX_FULL") \/ Done("IO_ERROR")
         \/ /\ begun.status = "OK" /\ job' = "write"
            /\ \E slot : export' = [object |-> begun.transfer.object,
                                    cells |-> begun.transfer.cells, slot |-> slot, offset |-> 0]
  <2>1. ~torn /\ InHand(hp)
    BY IdleIs DEF object_files_export_stack, Idle
  <2>2. \/ begun.status # "OK" /\ Done(begun.status)
        \/ Done("OUTBOX_FULL") \/ Done("IO_ERROR")
        \/ /\ begun.status = "OK" /\ job' = "write"
           /\ \E slot : export' = [object |-> begun.transfer.object,
                                   cells |-> begun.transfer.cells, slot |-> slot, offset |-> 0]
    BY Zenon DEF object_files_export_stack
  <2>3. QED
    BY <2>1, <2>2, Zenon
<1>2. PICK B : Ordered(hp, B)
  BY <1>1 DEF InHand
<1>3. depth \in Nat
  BY <1>2, DepthIs
<1>4. depth = 0 => begun.status = "EMPTY_STACK"
  BY DEF ExportBegin, Outcome
<1>5. ASSUME depth > 0, level1 \in Measured
      PROVE  /\ begun.status = "OK" /\ begun.transfer = [object |-> a, cells |-> size]
             /\ size \in Int /\ 0 < size /\ level1 \in Seq(Cell)
             /\ Len(level1) \in {size, size + 1}
             /\ \A i \in 1 .. Len(level1) : hp.ram[a + i - 1] = level1[i]
  <2>1. Whole(level1)
    BY <1>5, ExportedIs
  <2>2. QED
    BY <1>2, <1>5, <2>1, ExportFinds
<1> HIDE DEF begun, level1, depth, a, size
<1>6. ASSUME depth > 0, level1 \in Measured, job' = "idle" PROVE status' # "BAD_OBJECT"
  <2>1. Done("OUTBOX_FULL") \/ Done("IO_ERROR")
    BY <1>1, <1>5, <1>6
  <2>2. QED
    BY <2>1 DEF Done
<1>7. ASSUME job' = "write" PROVE depth > 0 /\ LevelOne(hp, export')
  <2>1. /\ begun.status = "OK"
        /\ \E slot : export' = [object |-> begun.transfer.object,
                                cells |-> begun.transfer.cells, slot |-> slot, offset |-> 0]
    <3>1. job' # "idle"
      BY <1>7
    <3>2. \A result : ~Done(result)
      BY <3>1, DoneIs
    <3>3. QED
      BY <1>1, <3>2, Zenon
  <2>2. depth > 0
    BY <1>3, <1>4, <2>1
  <2>3. ASSUME level1 \in Measured
        PROVE  ExportRead(hp, export', 0, PackedBytes(export')) = Exchange!Packed(Exported[level1])
    <3> DEFINE x == export'
               cells == SubSeq(level1, 1, size)
    <3>1. x.object = a /\ x.cells = size
      <4>1. begun.transfer.object = a /\ begun.transfer.cells = size
        BY <1>5, <2>2, <2>3
      <4>2. \E slot : x = [object |-> a, cells |-> size, slot |-> slot, offset |-> 0]
        BY <2>1, <4>1, Zenon
      <4>3. QED
        BY <4>2
    <3>2. Exporting(x) /\ hp \in Hp
      BY <1>2, <1>7, Zenon DEF ExportInv, Exporting, PackedBytes, Ordered
    <3> HIDE DEF x
    <3>3. /\ size \in Int /\ 0 < size /\ level1 \in Seq(Cell) /\ size <= Len(level1)
          /\ \A i \in 1 .. Len(level1) : hp.ram[a + i - 1] = level1[i]
      BY <1>5, <2>2, <2>3
    <3>4. /\ cells \in Seq(Cell) /\ Len(cells) = size
          /\ \A i \in 1 .. size : cells[i] = level1[i]
      BY <3>3
    <3> HIDE DEF cells
    <3>5. /\ Len(cells) = x.cells
          /\ \A i \in 1 .. Len(cells) : hp.ram[x.object + i - 1] = cells[i]
      <4>1. ASSUME NEW i \in 1 .. size PROVE hp.ram[a + i - 1] = cells[i]
        <5>1. i \in 1 .. Len(level1)
          BY <3>3
        <5>2. QED
          BY <3>3, <3>4, <5>1, Zenon
      <4>2. QED
        BY <3>1, <3>4, <4>1, Zenon
    <3>6. ExportRead(hp, x, 0, PackedBytes(x)) = Exchange!Packed(cells)
      BY <3>2, <3>4, <3>5, ExportReads
    <3>7. Exported[level1] = cells
      BY <2>3, ExportedIs, Zenon DEF cells, size
    <3>8. QED
      BY <3>6, <3>7, Zenon DEF x
  <2>4. QED
    BY <2>2, <2>3, Zenon DEF LevelOne, level1
<1>8. QED
  BY <1>6, <1>7, Zenon DEF level1, depth

-----------------------------------------------------------------------------
(* The refinement of ObjectExchange.                                       *)

(* What ObjectExchange sees of this model.                                 *)
Stack == ObjectsOf(Seen)
Returns == ReturnsOf(Seen)
Outbox == [s \in Slots |-> IF temp[s] = UserFile THEN UserFile ELSE final[s]]
Busy == job \in {"read", "close"}

(* What an export writes is level 1, as it lay there when it began.        *)
WholeInv == job \in {"write", "sync", "rename"} => LevelOne(hp, export)

(* The two stacks are as before when the HP is, or shows the same.         *)
Alike(h, g) == g = h \/ (rpl_pointers(h) /\ rpl_pointers(g) /\ Shows(h, g))

LEMMA SeenStays ==
  ASSUME torn' = torn, Alike(hp, hp')
  PROVE  Stack' = Stack /\ Returns' = Returns
<1>1. CASE hp' = hp
  <2>1. Seen' = Seen
    BY <1>1, Zenon DEF Seen
  <2>2. QED
    BY <2>1, Zenon DEF Stack, Returns
<1>2. CASE torn
  <2>1. Seen' = BootHp /\ Seen = BootHp
    BY <1>2, Zenon DEF Seen
  <2>2. QED
    BY <2>1, Zenon DEF Stack, Returns
<1>3. CASE ~torn /\ rpl_pointers(hp) /\ rpl_pointers(hp') /\ Shows(hp, hp')
  <2>1. Seen' = hp' /\ Seen = hp
    BY <1>3, Zenon DEF Seen
  <2>2. QED
    BY <2>1, <1>3, Zenon DEF Stack, Returns, Shows
<1>4. QED
  BY <1>1, <1>2, <1>3, Zenon DEF Alike

LEMMA OutboxStays ==
  ASSUME UNCHANGED <<final, temp>>
  PROVE  Outbox' = Outbox
BY Zenon DEF Outbox

(* A .NEW file that changes is not seen.                                   *)
LEMMA TempUnseen ==
  ASSUME ExportInv, NEW slot \in Slots, temp[slot] # UserFile, NEW v, v # UserFile,
         temp' = [temp EXCEPT ![slot] = v], final' = final
  PROVE  Outbox' = Outbox
<1>1. temp = [s \in Slots |-> temp[s]]
  BY DEF ExportInv
<1>2. temp'[slot] = v /\ \A s \in Slots : s # slot => temp'[s] = temp[s]
  BY <1>1, FilesChange
<1>3. \A s \in Slots : (IF temp'[s] = UserFile THEN UserFile ELSE final'[s])
                       = IF temp[s] = UserFile THEN UserFile ELSE final[s]
  BY <1>2
<1>4. QED
  BY <1>3, Zenon DEF Outbox

(* Steps that change nothing that is seen, or fail.                        *)
LEMMA Stutters ==
  ASSUME Stack' = Stack, Returns' = Returns, Outbox' = Outbox, torn' = torn,
         status' = status, Busy' <=> Busy
  PROVE  [Exchange!Next]_(Exchange!vars)
<1>1. (job \in {"read", "close"})' = (job \in {"read", "close"})
  BY DEF Busy
<1>2. QED
  BY <1>1, Zenon DEF Exchange!vars, Stack, Returns, Outbox

LEMMA Fails ==
  ASSUME Stack' = Stack, Returns' = Returns, Outbox' = Outbox, torn' = torn,
         job' = "idle", status' \notin {"OK", "NONE"}
  PROVE  [Exchange!Next]_(Exchange!vars)
<1>1. (job \in {"read", "close"})' = FALSE
  BY DEF Busy
<1>2. Exchange!Fail
  BY <1>1, Zenon DEF Exchange!Fail, Stack, Returns, Outbox
<1>3. QED
  BY <1>2, Zenon DEF Exchange!Next

LEMMA CycleRefines ==
  ASSUME object_files_cycle
  PROVE  [Exchange!Next]_(Exchange!vars)
<1>1. /\ UNCHANGED <<hp, final, temp, job, torn>> /\ status' = "NONE" /\ job = "idle"
  BY DEF object_files_cycle, Idle
<1>2. Stack' = Stack /\ Returns' = Returns /\ Outbox' = Outbox
  BY <1>1, SeenStays, OutboxStays DEF Alike
<1>3. ~(job \in {"read", "close"})
      /\ (job \in {"read", "close"})' = (job \in {"read", "close"})
  BY <1>1
<1>4. Exchange!Forget
  BY <1>1, <1>2, <1>3, Zenon DEF Exchange!Forget, Stack, Returns, Outbox
<1>5. QED
  BY <1>4, Zenon DEF Exchange!Next

LEMMA UnreadableRefines ==
  ASSUME ImportUnreadable \/ ExportFails
  PROVE  [Exchange!Next]_(Exchange!vars)
<1>1. UNCHANGED <<hp, final, temp, torn>> /\ Done("IO_ERROR")
  BY DEF ImportUnreadable, ExportFails
<1>2. job' = "idle" /\ status' \notin {"OK", "NONE"}
  BY <1>1, DoneFails DEF Failures
<1>3. QED
  BY <1>1, <1>2, SeenStays, OutboxStays, Fails DEF Alike

(* An import begins: its collection stops, it is accepted, or it fails.    *)
LEMMA ImportBegins ==
  ASSUME MemoryInv, torn \in BOOLEAN, object_files_import_selected
  PROVE  /\ UNCHANGED <<final, temp>> /\ job = "idle" /\ ~torn
         /\ \/ torn' = TRUE /\ job' = "idle" /\ status' = "HP_GC_FAILED"
            \/ /\ torn' = torn /\ Alike(hp, hp')
               /\ \/ job' = "read" /\ status' = status
                  \/ job' = "idle" /\ status' \notin {"OK", "NONE"}
<1> DEFINE s == selected'
           n == Len(Entry(s).payload) \div 2
<1>0. /\ InHand(hp) /\ ~torn /\ torn = FALSE /\ selected \in Names \cup {NoName}
      /\ UNCHANGED <<final, temp>> /\ job = "idle"
  BY IdleIs DEF object_files_import_selected, Idle
<1>1. s \in Names \cup {NoName}
  BY <1>0, NextNameIs DEF object_files_import_selected
<1>2. CASE (\E result \in Failures : Done(result)) /\ UNCHANGED <<hp, torn>>
  <2>1. job' = "idle" /\ status' \notin {"OK", "NONE"}
    BY <1>2, DoneFails
  <2>2. QED
    BY <1>0, <1>2, <2>1 DEF Alike
<1>3. CASE s # NoName /\ Entry(s).payload # <<>>
           /\ \E begun \in ImportBegin(hp, n) :
                /\ hp' = begun.hp /\ torn' = (begun.status = "GC_FAILED")
                /\ IF begun.status = "OK" THEN job' = "read" /\ UNCHANGED status
                   ELSE Done(begun.status)
  <2>1. PICK begun \in ImportBegin(hp, n) :
                /\ hp' = begun.hp /\ torn' = (begun.status = "GC_FAILED")
                /\ IF begun.status = "OK" THEN job' = "read" /\ UNCHANGED status
                   ELSE Done(begun.status)
    BY <1>3
  <2>2. s \in Names
    BY <1>1, <1>3
  <2>3. n \in Nat \ {0}
    <3> DEFINE payload == Entry(s).payload
    <3>1. payload \in Seq(Cell) /\ Len(payload) % 2 = 0 /\ payload # <<>>
      BY <1>3, <2>2, PayloadIs
    <3> HIDE DEF payload
    <3>2. Len(payload) \in Nat \ {0}
      BY <3>1
    <3>3. Len(payload) \div 2 \in Nat \ {0}
      BY <3>1, <3>2
    <3>4. QED
      BY <3>3 DEF payload
  <2> HIDE DEF n, s
  <2>4. begun.status \in {"OK", "OUT_OF_RANGE", "NOT_READY", "GC_FAILED", "NO_MEMORY"}
    BY <1>0, <2>3, BeginKeeps
  <2>5. CASE begun.status = "GC_FAILED"
    <3>1. torn' = TRUE /\ job' = "idle" /\ status' = "HP_GC_FAILED"
      BY <2>1, <2>5 DEF Done
    <3>2. QED
      BY <1>0, <3>1
  <2>6. CASE begun.status # "GC_FAILED"
    <3>1. Alike(hp, hp')
      BY <1>0, <2>1, <2>3, <2>6, BeginShows DEF Alike
    <3>2. torn' = torn
      BY <1>0, <2>1, <2>6
    <3>3. (job' = "read" /\ status' = status) \/ (job' = "idle" /\ status' \notin {"OK", "NONE"})
      BY <2>1, <2>4, <2>6, DoneFails DEF Failures
    <3>4. QED
      BY <1>0, <3>1, <3>2, <3>3
  <2>7. QED
    BY <2>5, <2>6
<1>4. QED
  <2>1. \/ /\ Done("NO_INPUT") \/ Done("BAD_HEADER") \/ Done("BAD_OBJECT")
           /\ UNCHANGED <<hp, torn>>
        \/ s # NoName /\ Entry(s).payload # <<>>
           /\ \E begun \in ImportBegin(hp, n) :
                /\ hp' = begun.hp /\ torn' = (begun.status = "GC_FAILED")
                /\ IF begun.status = "OK" THEN job' = "read" /\ UNCHANGED status
                   ELSE Done(begun.status)
    BY Zenon DEF object_files_import_selected
  <2>2. {"NO_INPUT", "BAD_HEADER", "BAD_OBJECT"} \subseteq Failures
    BY DEF Failures
  <2> HIDE DEF s, n
  <2>3. QED
    BY <2>1, <2>2, <1>2, <1>3

LEMMA ImportRefines ==
  ASSUME MemoryInv, torn \in BOOLEAN, object_files_import_selected
  PROVE  [Exchange!Next]_(Exchange!vars)
<1>1. /\ UNCHANGED <<final, temp>> /\ job = "idle" /\ ~torn
      /\ \/ torn' = TRUE /\ job' = "idle" /\ status' = "HP_GC_FAILED"
         \/ /\ torn' = torn /\ Alike(hp, hp')
            /\ \/ job' = "read" /\ status' = status
               \/ job' = "idle" /\ status' \notin {"OK", "NONE"}
  BY ImportBegins
<1>2. Outbox' = Outbox
  BY <1>1, OutboxStays
<1>3. CASE torn' = TRUE /\ job' = "idle" /\ status' = "HP_GC_FAILED"
  <2>1. /\ ~(job \in {"read", "close"})
        /\ (job \in {"read", "close"})' = (job \in {"read", "close"})
    BY <1>1, <1>3
  <2>2. Exchange!Tear
    BY <1>2, <1>3, <2>1, Zenon DEF Exchange!Tear, Outbox
  <2>3. QED
    BY <2>2, Zenon DEF Exchange!Next
<1>4. CASE torn' = torn /\ Alike(hp, hp') /\ job' = "read" /\ status' = status
  <2>1. Stack' = Stack /\ Returns' = Returns
    BY <1>4, SeenStays
  <2>2. ~(job \in {"read", "close"}) /\ (job \in {"read", "close"})' = TRUE
    BY <1>1, <1>4
  <2>3. Exchange!Accept
    BY <1>1, <1>2, <1>4, <2>1, <2>2, Zenon DEF Exchange!Accept, Stack, Returns, Outbox
  <2>4. QED
    BY <2>3, Zenon DEF Exchange!Next
<1>5. CASE torn' = torn /\ Alike(hp, hp') /\ job' = "idle" /\ status' \notin {"OK", "NONE"}
  BY <1>2, <1>5, SeenStays, Fails
<1>6. QED
  BY <1>1, <1>3, <1>4, <1>5

LEMMA PieceIs ==
  ASSUME NEW S, NEW s \in Seq(S), NEW from \in Nat, NEW n \in Nat, from + n <= Len(s)
  PROVE  SubSeq(s, from + 1, from + n) \in Seq(S) /\ Len(SubSeq(s, from + 1, from + n)) = n
OBVIOUS

(* A read of the file changes nothing that is seen, whether it fails or    *)
(* not.                                                                    *)
LEMMA ReadsUnseen ==
  ASSUME MemoryInv, ImportRead
  PROVE  /\ UNCHANGED <<final, temp, torn>> /\ job = "read" /\ Alike(hp, hp')
         /\ \/ job' \in {"read", "close"} /\ status' = status
            \/ job' = "idle" /\ status' \notin {"OK", "NONE"}
<1>1. /\ job = "read" /\ selected \in Names /\ Importing(hp, transfer, Payload)
      /\ UNCHANGED <<final, temp, torn>>
  BY DEF ImportRead, MemoryInv
<1> DEFINE left == transfer.bytes - transfer.written
           wanted == IF left > BUFFER_BYTES THEN BUFFER_BYTES ELSE left
           from == 2 * transfer.written
           cells == SubSeq(Payload, from + 1, from + 2 * wanted)
           wrote == ImportWrite(hp, transfer, cells)
<1>2. PICK B : Underway(hp, transfer, B)
  BY <1>1 DEF Importing
<1>3. CASE EndImport(ImportAbort(hp, transfer, "IO_ERROR"))
  <2> DEFINE o == ImportAbort(hp, transfer, "IO_ERROR")
  <2>1. /\ rpl_pointers(hp) /\ rpl_pointers(o.hp) /\ Shows(hp, o.hp) /\ o.status = "IO_ERROR"
    BY <1>2, AbortShows
  <2>2. hp' = o.hp /\ Done("IO_ERROR")
    BY <1>3, <2>1 DEF EndImport
  <2> HIDE DEF o
  <2>3. job' = "idle" /\ status' \notin {"OK", "NONE"}
    BY <2>2, DoneFails DEF Failures
  <2>4. QED
    BY <1>1, <2>1, <2>2, <2>3 DEF Alike
<1>4. CASE hp' = wrote.hp /\ job' \in {"close", "read"} /\ status' = status
  <2>1. wanted \in Nat /\ transfer.written + wanted <= transfer.bytes
    <3> DEFINE tb == transfer.bytes
               tw == transfer.written
    <3>1. tb \in Int /\ tw \in Int /\ tw <= tb /\ left = tb - tw
      BY <1>2, UnderwayTypes DEF Underway
    <3> HIDE DEF tb, tw
    <3>2. left \in Nat /\ BUFFER_BYTES \in Nat
      BY <3>1, ObjectFilesAssumption
    <3>3. wanted \in Nat /\ wanted <= left
      BY <3>2
    <3> HIDE DEF wanted, left
    <3>4. tw + wanted <= tb
      BY <3>1, <3>2, <3>3
    <3>5. QED
      BY <3>3, <3>4 DEF tb, tw
  <2>2. cells \in Seq(Cell) /\ Len(cells) = 2 * wanted
    <3> DEFINE tw == transfer.written
               tb == transfer.bytes
    <3>1. tw \in Int /\ 0 <= tw /\ tb \in Int
      BY <1>2, UnderwayTypes DEF Underway
    <3>2. 2 * tb = Len(Payload) /\ Payload \in Seq(Cell) /\ from = 2 * tw
      <4>1. 2 * transfer.bytes = Len(Payload)
        BY <1>1, Zenon DEF Importing
      <4>2. Payload \in Seq(Cell)
        BY <1>1, PayloadIs DEF Payload
      <4>3. QED
        BY <4>1, <4>2, Zenon
    <3>3. tw + wanted <= tb /\ wanted \in Nat
      BY <2>1
    <3> HIDE DEF wanted, tw, tb, from
    <3>4. /\ from + 1 \in 1 .. Len(Payload) + 1 /\ from + 2 * wanted <= Len(Payload)
          /\ from \in Nat /\ 2 * wanted \in Nat
      BY <3>1, <3>2, <3>3
    <3> DEFINE n == 2 * wanted
    <3> HIDE DEF n
    <3>5. SubSeq(Payload, from + 1, from + n) \in Seq(Cell) /\ Len(SubSeq(Payload, from + 1, from + n)) = n
      BY <3>2, <3>4, PieceIs DEF n
    <3>6. QED
      BY <3>5 DEF n
  <2> HIDE DEF cells, wanted
  <2>3. rpl_pointers(hp) /\ rpl_pointers(wrote.hp) /\ Shows(hp, wrote.hp)
    BY <1>2, <2>1, <2>2, WriteShows
  <2> HIDE DEF wrote
  <2>4. QED
    BY <1>1, <1>4, <2>3 DEF Alike
<1>5. (hp' = wrote.hp /\ job' \in {"close", "read"} /\ status' = status)
      \/ EndImport(ImportAbort(hp, transfer, "IO_ERROR"))
  <2> DEFINE next == IF wanted = left THEN "close" ELSE "read"
  <2>1. next \in {"close", "read"}
    OBVIOUS
  <2>2. (hp' = wrote.hp /\ job' = next /\ status' = status)
        \/ EndImport(ImportAbort(hp, transfer, "IO_ERROR"))
    BY Zenon DEF ImportRead
  <2> HIDE DEF next
  <2>3. QED
    BY <2>1, <2>2, Zenon
<1>6. QED
  BY <1>3, <1>4, <1>5, Zenon

LEMMA ReadRefines ==
  ASSUME MemoryInv, ImportRead
  PROVE  [Exchange!Next]_(Exchange!vars)
<1>1. /\ UNCHANGED <<final, temp, torn>> /\ job = "read" /\ Alike(hp, hp')
      /\ \/ job' \in {"read", "close"} /\ status' = status
         \/ job' = "idle" /\ status' \notin {"OK", "NONE"}
  BY ReadsUnseen
<1>2. Stack' = Stack /\ Returns' = Returns /\ Outbox' = Outbox
  BY <1>1, SeenStays, OutboxStays
<1>3. job' \in {"read", "close"} => (Busy' <=> Busy)
  BY <1>1 DEF Busy
<1>4. QED
  BY <1>1, <1>2, <1>3, Stutters, Fails

(* An import ends: with its object on level 1, or as if it had not been.   *)
LEMMA CloseShows ==
  ASSUME MemoryInv, ImportClose
  PROVE  /\ UNCHANGED <<final, temp, torn>> /\ job = "close" /\ job' = "idle"
         /\ selected \in Names /\ Returns' = Returns
         /\ \/ status' = "OK" /\ Stack' = <<Payload>> \o Stack
            \/ status' \notin {"OK", "NONE"} /\ Stack' = Stack
<1>1. /\ job = "close" /\ selected \in Names /\ Importing(hp, transfer, Payload) /\ ~torn
      /\ UNCHANGED <<final, temp, torn>>
  BY DEF ImportClose, MemoryInv
<1>2. PICK B : Underway(hp, transfer, B)
  BY <1>1 DEF Importing
<1> DEFINE bad == ImportAbort(hp, transfer, "IO_ERROR")
           o == ImportCommit(hp, transfer)
<1>3. /\ rpl_pointers(hp) /\ rpl_pointers(bad.hp) /\ Shows(hp, bad.hp)
      /\ bad.status = "IO_ERROR"
  BY <1>2, AbortShows
<1>4. Payload \in Seq(Cell)
  BY <1>1, PayloadIs DEF Payload
<1>5. /\ rpl_pointers(o.hp)
      /\ \/ o.status \in {"BAD_OBJECT", "NO_MEMORY"} /\ Shows(hp, o.hp)
         \/ /\ o.status = "OK" /\ ReturnsOf(o.hp) = ReturnsOf(hp)
            /\ ObjectsOf(o.hp) = <<Payload>> \o ObjectsOf(hp)
  BY <1>1, <1>4, CommitShows
<1>6. (hp' = bad.hp /\ Done(bad.status)) \/ (hp' = o.hp /\ Done(o.status))
  BY Zenon DEF ImportClose, EndImport
<1> HIDE DEF bad, o
<1>7. CASE \E result \in Failures : Done(result) /\ rpl_pointers(hp') /\ Shows(hp, hp')
  <2>1. job' = "idle" /\ status' \notin {"OK", "NONE"}
    BY <1>7, DoneFails
  <2>2. Stack' = Stack /\ Returns' = Returns
    BY <1>1, <1>3, <1>7, SeenStays DEF Alike
  <2>3. QED
    BY <1>1, <2>1, <2>2
<1>8. CASE /\ Done("OK") /\ rpl_pointers(hp') /\ ReturnsOf(hp') = ReturnsOf(hp)
           /\ ObjectsOf(hp') = <<Payload>> \o ObjectsOf(hp)
  <2>1. job' = "idle" /\ status' = "OK"
    BY <1>8 DEF Done
  <2>2. Seen' = hp' /\ Seen = hp
    BY <1>1, <1>3, <1>8, Zenon DEF Seen
  <2>3. Stack' = <<Payload>> \o Stack /\ Returns' = Returns
    BY <1>8, <2>2, Zenon DEF Stack, Returns
  <2>4. QED
    BY <1>1, <2>1, <2>3
<1>9. {"IO_ERROR", "BAD_OBJECT", "NO_MEMORY"} \subseteq Failures
  BY DEF Failures
<1>10. QED
  BY <1>3, <1>5, <1>6, <1>7, <1>8, <1>9, Zenon

LEMMA EntryIs ==
  ASSUME selected \in Names
  PROVE  \E entry \in Inbox : Payload = entry.payload
<1>1. \E entry \in Inbox : entry.name = selected
  BY Zenon DEF Names
<1>2. Entry(selected) \in Inbox
  BY <1>1, Zenon DEF Entry
<1>3. QED
  BY <1>2, Zenon DEF Payload

LEMMA CloseRefines ==
  ASSUME MemoryInv, ImportClose
  PROVE  [Exchange!Next]_(Exchange!vars)
<1>1. /\ UNCHANGED <<final, temp, torn>> /\ job = "close" /\ job' = "idle"
      /\ selected \in Names /\ Returns' = Returns
      /\ \/ status' = "OK" /\ Stack' = <<Payload>> \o Stack
         \/ status' \notin {"OK", "NONE"} /\ Stack' = Stack
  BY CloseShows
<1>2. Outbox' = Outbox
  BY <1>1, OutboxStays
<1>3. CASE status' = "OK" /\ Stack' = <<Payload>> \o Stack
  <2>1. Whole(Payload)
    BY <1>3, CloseJudges
  <2>2. Payload \in Payloads
    BY <1>1, EntryIs, Zenon DEF Payloads
  <2>3. Payload \in Payloads \cap Measured
    BY <2>1, <2>2, Zenon DEF Measured
  <2>4. (job \in {"read", "close"}) /\ (job \in {"read", "close"})' = FALSE
    BY <1>1
  <2>5. Exchange!Import
    BY <1>1, <1>2, <1>3, <2>3, <2>4, Zenon DEF Exchange!Import, Stack, Returns, Outbox
  <2>6. QED
    BY <2>5, Zenon DEF Exchange!Next
<1>4. CASE status' \notin {"OK", "NONE"} /\ Stack' = Stack
  BY <1>1, <1>2, <1>4, Fails
<1>5. QED
  BY <1>1, <1>3, <1>4

(* The steps of the ROM.                                                   *)
LEMMA DropRefines ==
  ASSUME MemoryInv, Drop
  PROVE  [Exchange!Next]_(Exchange!vars)
<1>1. /\ rpl_pointers(hp) /\ ~torn /\ job = "idle" /\ status' = "NONE"
      /\ hp48_rpl_stack_depth(hp) > 0 /\ UNCHANGED <<final, temp, job, torn>>
  BY DEF Drop, RomStep, Idle
<1>2. PICK B : Ordered(hp, B)
  BY <1>1, IdleOrdered
<1>3. hp' = Dropped(hp)
  BY <1>2, DropsOne
<1>4. /\ Ordered(hp', B) /\ ObjectsOf(hp) # <<>> /\ ObjectsOf(hp') = Tail(ObjectsOf(hp))
      /\ ReturnsOf(hp') = ReturnsOf(hp)
  BY <1>1, <1>2, <1>3, DropShows
<1>5. rpl_pointers(hp')
  BY <1>4, OrderedIsReady
<1>6. Seen = hp /\ Seen' = hp'
  BY <1>1, <1>5, Zenon DEF Seen
<1>7. Stack # <<>> /\ Stack' = Tail(Stack) /\ Returns' = Returns
  BY <1>4, <1>6, Zenon DEF Stack, Returns
<1>8. /\ ~(job \in {"read", "close"})
      /\ (job \in {"read", "close"})' = (job \in {"read", "close"})
  BY <1>1
<1>9. Outbox' = Outbox
  BY <1>1, OutboxStays
<1>10. Exchange!Compute
  BY <1>1, <1>7, <1>8, <1>9, Zenon DEF Exchange!Compute, Stack, Returns, Outbox
<1>11. QED
  BY <1>10, Zenon DEF Exchange!Next

(* The level that a cell of the stack is.                                  *)
LEMMA CellLevel ==
  ASSUME NEW h, NEW x \in StackCells(h), hp48_rpl_stack_depth(h) \in Nat
  PROVE  \E level \in 1 .. hp48_rpl_stack_depth(h) : x = LevelCell(h, level)
<1> DEFINE depth == hp48_rpl_stack_depth(h)
<1> HIDE DEF depth
<1>1. PICK i \in 0 .. depth - 1 : x = h.dsktop + Word * i
  BY Zenon DEF StackCells, depth
<1>2. i + 1 \in 1 .. depth /\ (i + 1) - 1 = i
  BY DEF depth
<1>3. x = LevelCell(h, i + 1)
  BY <1>1, <1>2, Zenon DEF LevelCell
<1>4. QED
  BY <1>2, <1>3 DEF depth

LEMMA PickRefines ==
  ASSUME MemoryInv, Pick
  PROVE  [Exchange!Next]_(Exchange!vars)
<1>1. /\ rpl_pointers(hp) /\ ~torn /\ job = "idle" /\ status' = "NONE"
      /\ Free(hp) >= Word /\ UNCHANGED <<final, temp, job, torn>>
  BY Zenon DEF Pick, RomStep, Idle
<1>2. PICK B : Ordered(hp, B)
  BY <1>1, IdleOrdered
<1>3. PICK b \in B : /\ hp' = Pushed(hp, b[1] + Marker)
                     /\ \E x \in StackCells(hp) : hp.ram[x] = b[1] + Marker
  BY <1>2, PicksOne
<1>4. hp.rsktop + Word <= hp.dsktop
  <2>1. hp.dsktop \in Int /\ hp.rsktop \in Int
    BY <1>2 DEF Ordered, Hp
  <2>2. QED
    BY <1>1, <2>1, Sizes DEF Free
<1>5. /\ Ordered(hp', B) /\ ObjectsOf(hp') = <<ObjectIn(hp, b)>> \o ObjectsOf(hp)
      /\ ReturnsOf(hp') = ReturnsOf(hp)
  BY <1>2, <1>3, <1>4, PushShows
<1>6. rpl_pointers(hp')
  BY <1>5, OrderedIsReady
<1>7. \E i \in DOMAIN ObjectsOf(hp) : ObjectsOf(hp)[i] = ObjectIn(hp, b)
  <2>1. PICK x \in StackCells(hp) : hp.ram[x] = b[1] + Marker
    BY <1>3
  <2>2. hp48_rpl_stack_depth(hp) \in Nat
    BY <1>2, DepthIs
  <2>3. PICK level \in 1 .. hp48_rpl_stack_depth(hp) : x = LevelCell(hp, level)
    BY <2>2, CellLevel
  <2>4. hp.ram[LevelCell(hp, level)] = b[1] + Marker
    BY <2>1, <2>3, Zenon
  <2>5. ObjectsOf(hp)[level] = ObjectIn(hp, b)
    BY <1>2, <2>4, ObjectsAre
  <2>6. DOMAIN ObjectsOf(hp) = 1 .. hp48_rpl_stack_depth(hp)
    BY Zenon DEF ObjectsOf
  <2>7. QED
    BY <2>3, <2>5, <2>6, Zenon
<1>8. Seen = hp /\ Seen' = hp'
  BY <1>1, <1>6, Zenon DEF Seen
<1>9. (\E i \in DOMAIN Stack : Stack' = <<Stack[i]>> \o Stack) /\ Returns' = Returns
  BY <1>5, <1>7, <1>8, Zenon DEF Stack, Returns
<1>10. /\ ~(job \in {"read", "close"})
       /\ (job \in {"read", "close"})' = (job \in {"read", "close"})
  BY <1>1
<1>11. Outbox' = Outbox
  BY <1>1, OutboxStays
<1>12. Exchange!Compute
  BY <1>1, <1>9, <1>10, <1>11, Zenon DEF Exchange!Compute, Stack, Returns, Outbox
<1>13. QED
  BY <1>12, Zenon DEF Exchange!Next

(* After a restart, and while the ROM is not ready, the stacks are those   *)
(* of the restart.                                                         *)
LEMMA PowerCutRefines ==
  ASSUME ExportInv, PowerCut
  PROVE  [Exchange!Next]_(Exchange!vars)
<1>1. /\ job' = "idle" /\ torn' = FALSE /\ status' = "NONE" /\ final' = final
      /\ hp' \in {BootHp, [BootHp EXCEPT !.temptop = 0, !.rsktop = 0, !.dsktop = 0,
                                         !.editline = 0, !.avmem = 0]}
      /\ temp' = IF job \in {"write", "sync"} THEN [temp EXCEPT ![export.slot] = Partial] ELSE temp
  BY DEF PowerCut
<1>2. Seen' = BootHp
  <2>1. hp' = BootHp \/ ~rpl_pointers(hp')
    BY <1>1, UnreadyIs
  <2>2. QED
    BY <2>1, Zenon DEF Seen
<1>3. Outbox' = Outbox
  <2>1. CASE job \in {"write", "sync"}
    <3>1. temp[export.slot] # UserFile /\ export.slot \in Slots
      BY <2>1 DEF ExportInv
    <3>2. Partial # UserFile
      BY ObjectFilesAssumption
    <3>3. QED
      BY <1>1, <2>1, <3>1, <3>2, TempUnseen
  <2>2. CASE job \notin {"write", "sync"}
    BY <1>1, <2>2, OutboxStays
  <2>3. QED
    BY <2>1, <2>2
<1>4. Stack' = BootObjects /\ Returns' = ReturnsOf(BootHp)
  BY <1>2, Zenon DEF Stack, Returns, BootObjects
<1>5. (job \in {"read", "close"})' = FALSE
  BY <1>1
<1>6. Exchange!Restart
  BY <1>1, <1>3, <1>4, <1>5, Zenon DEF Exchange!Restart, Stack, Returns, Outbox
<1>7. QED
  BY <1>6, Zenon DEF Exchange!Next

LEMMA RomReadyRefines ==
  ASSUME RomReady
  PROVE  [Exchange!Next]_(Exchange!vars)
<1>1. /\ ~rpl_pointers(hp) /\ hp' = BootHp /\ UNCHANGED <<final, temp, job, torn, status>>
      /\ ~torn
  BY DEF RomReady, Idle
<1>2. Seen' = BootHp /\ Seen = BootHp
  BY <1>1, Zenon DEF Seen
<1>3. Stack' = Stack /\ Returns' = Returns
  BY <1>2, Zenon DEF Stack, Returns
<1>4. Outbox' = Outbox /\ (Busy' <=> Busy)
  BY <1>1, OutboxStays DEF Busy
<1>5. QED
  BY <1>1, <1>3, <1>4, Stutters

(* The steps of an export.                                                 *)
LEMMA ExportStackRefines ==
  ASSUME MemoryInv, ExportInv, object_files_export_stack
  PROVE  [Exchange!Next]_(Exchange!vars)
<1>1. UNCHANGED <<hp, final, torn>> /\ job = "idle"
  BY DEF object_files_export_stack, Idle
<1>2. Stack' = Stack /\ Returns' = Returns
  BY <1>1, SeenStays DEF Alike
<1>3. CASE (\E result \in Failures : Done(result)) /\ UNCHANGED temp
  <2>1. job' = "idle" /\ status' \notin {"OK", "NONE"}
    BY <1>3, DoneFails
  <2>2. QED
    BY <1>1, <1>2, <1>3, <2>1, OutboxStays, Fails
<1>4. CASE /\ job' = "write" /\ status' = status
           /\ \E slot \in FreeSlots : slot \in Slots /\ temp' = [temp EXCEPT ![slot] = <<>>]
  <2>1. PICK slot \in FreeSlots : slot \in Slots /\ temp' = [temp EXCEPT ![slot] = <<>>]
    BY <1>4
  <2>2. temp[slot] # UserFile
    BY ObjectFilesAssumption DEF FreeSlots
  <2>3. <<>> # UserFile
    <3>1. <<>> \in Seq(Cell)
      OBVIOUS
    <3>2. UserFile \notin Seq(Cell)
      BY ObjectFilesAssumption
    <3>3. QED
      BY <3>1, <3>2
  <2>4. Outbox' = Outbox
    BY <1>1, <2>1, <2>2, <2>3, TempUnseen
  <2>5. ~Busy /\ ~Busy'
    BY <1>1, <1>4 DEF Busy
  <2>6. QED
    BY <1>1, <1>2, <1>4, <2>4, <2>5, Stutters
<1>5. QED
  BY <1>3, <1>4, ExportBegins, Zenon

LEMMA ExportWriteRefines ==
  ASSUME ExportInv, ExportInv', ExportWrite
  PROVE  [Exchange!Next]_(Exchange!vars)
<1>1. /\ job = "write" /\ job' \in {"write", "sync", "unlink"}
      /\ UNCHANGED <<hp, final, torn, status>>
  BY DEF ExportWrite
<1>2. /\ export.slot \in Slots /\ temp[export.slot] # UserFile /\ export \in ExportRecord
      /\ temp'[export'.slot] # UserFile
  BY <1>1 DEF ExportInv, Exporting
<1>3. /\ export'.slot = export.slot
      /\ \E v : temp' = [temp EXCEPT ![export.slot] = v]
  <2> DEFINE left == PackedBytes(export) - export.offset
             chunk == IF left > BUFFER_BYTES THEN BUFFER_BYTES ELSE left
             slot == export.slot
             v == temp[slot] \o ExportRead(hp, export, export.offset, chunk)
             next == export.offset + chunk
  <2>1. \/ temp' = [temp EXCEPT ![slot] = v] /\ export' = [export EXCEPT !.offset = next]
        \/ temp' = [temp EXCEPT ![slot] = Partial] /\ export' = export
    BY DEF ExportWrite
  <2> HIDE DEF v, next
  <2>2. [export EXCEPT !.offset = next].slot = export.slot
    BY <1>2 DEF ExportRecord
  <2>3. QED
    BY <2>1, <2>2, Zenon
<1>4. PICK v : temp' = [temp EXCEPT ![export.slot] = v]
  BY <1>3
<1>5. v # UserFile
  <2>1. temp = [s \in Slots |-> temp[s]]
    BY DEF ExportInv
  <2>2. temp'[export.slot] = v
    BY <1>2, <1>4, <2>1, FilesChange
  <2>3. QED
    BY <1>2, <1>3, <2>2
<1>6. Outbox' = Outbox
  BY <1>1, <1>2, <1>4, <1>5, TempUnseen
<1>7. ~Busy /\ ~Busy'
  BY <1>1 DEF Busy
<1>8. QED
  BY <1>1, <1>6, <1>7, SeenStays, Stutters DEF Alike

LEMMA ExportRenameRefines ==
  ASSUME MemoryInv, ExportInv, WholeInv, ExportRename
  PROVE  [Exchange!Next]_(Exchange!vars)
<1>1. job = "rename" /\ UNCHANGED <<hp, torn>>
  BY DEF ExportRename
<1>2. Stack' = Stack /\ Returns' = Returns
  BY <1>1, SeenStays DEF Alike
<1>3. CASE job' = "unlink" /\ UNCHANGED <<final, temp, export, status>>
  <2>1. ~Busy /\ ~Busy'
    BY <1>1, <1>3 DEF Busy
  <2>2. QED
    BY <1>1, <1>2, <1>3, <2>1, OutboxStays, Stutters
<1> DEFINE slot == export.slot
<1>4. CASE /\ final' = [final EXCEPT ![slot] = temp[slot]]
           /\ temp' = [temp EXCEPT ![slot] = NoFile]
           /\ Done("OK")
  <2>1. job' = "idle" /\ status' = "OK"
    BY <1>4 DEF Done
  <2>2. /\ slot \in Slots /\ final[slot] = NoFile /\ temp[slot] # UserFile
        /\ final = [s \in Slots |-> final[s]] /\ temp = [s \in Slots |-> temp[s]]
        /\ rpl_pointers(hp) /\ hp48_rpl_stack_depth(hp) > 0
        /\ temp[slot] = ExportRead(hp, export, 0, export.offset)
        /\ export.offset = PackedBytes(export)
    BY <1>1 DEF ExportInv
  <2>3. ~torn
    BY <1>1 DEF MemoryInv
  <2>4. Seen = hp
    BY <2>2, <2>3, Zenon DEF Seen
  <2>5. Stack[1] \in DOMAIN Exported => temp[slot] = Exchange!Packed(Exported[Stack[1]])
    <3>1. LevelOne(hp, export)
      BY <1>1 DEF WholeInv
    <3>2. DOMAIN Exported = Measured
      BY Zenon DEF Exported
    <3>3. QED
      BY <2>2, <2>4, <3>1, <3>2, Zenon DEF LevelOne, Stack
  <2>6. Stack # <<>>
    <3>1. PICK B : Ordered(hp, B)
      BY <1>1, <2>2, <2>3, IdleOrdered
    <3>2. Len(ObjectsOf(hp)) = hp48_rpl_stack_depth(hp)
      BY <3>1, ObjectsAre
    <3>3. ObjectsOf(hp) # <<>>
      BY <2>2, <3>2
    <3>4. QED
      BY <2>4, <3>3, Zenon DEF Stack
  <2>7. NoFile # UserFile
    BY ObjectFilesAssumption
  <2>8. Outbox[slot] = NoFile
    BY <2>2 DEF Outbox
  <2>9. Outbox' = [Outbox EXCEPT ![slot] = temp[slot]] /\ Outbox'[slot] = temp[slot]
    <3> DEFINE v == temp[slot]
               out(s) == IF temp[s] = UserFile THEN UserFile ELSE final[s]
               after(s) == IF temp'[s] = UserFile THEN UserFile ELSE final'[s]
    <3>1. final' = [final EXCEPT ![slot] = v]
      BY <1>4
    <3> HIDE DEF v, slot
    <3>2. /\ final'[slot] = v /\ \A s \in Slots : s # slot => final'[s] = final[s]
      BY <2>2, <3>1, FilesChange
    <3>3. /\ temp'[slot] = NoFile /\ \A s \in Slots : s # slot => temp'[s] = temp[s]
      BY <1>4, <2>2, FilesChange
    <3>4. \A s \in Slots : after(s) = IF s = slot THEN v ELSE out(s)
      BY <2>7, <3>2, <3>3
    <3>5. Outbox' = [s \in Slots |-> after(s)] /\ Outbox = [s \in Slots |-> out(s)]
      BY Zenon DEF Outbox
    <3> HIDE DEF out, after
    <3>6. [Outbox EXCEPT ![slot] = v] = [s \in Slots |-> IF s = slot THEN v ELSE out(s)]
      BY <3>5
    <3>7. Outbox' = [s \in Slots |-> IF s = slot THEN v ELSE out(s)]
      BY <3>4, <3>5
    <3>8. Outbox'[slot] = v
      BY <2>2, <3>7
    <3>9. QED
      BY <3>6, <3>7, <3>8, Zenon DEF v
  <2>10. /\ ~(job \in {"read", "close"})
         /\ (job \in {"read", "close"})' = (job \in {"read", "close"})
    BY <1>1, <2>1
  <2>11. Exchange!Export
    <3>1. /\ Outbox[slot] = NoFile
          /\ Outbox' = [Outbox EXCEPT ![slot] = Outbox'[slot]]
          /\ Stack[1] \in DOMAIN Exported => Outbox'[slot] = Exchange!Packed(Exported[Stack[1]])
      BY <2>5, <2>8, <2>9, Zenon
    <3>2. QED
      BY <1>1, <1>2, <2>1, <2>2, <2>3, <2>6, <2>10, <3>1, Zenon
      DEF Exchange!Export, Stack, Returns, Outbox
  <2>12. QED
    BY <2>11, Zenon DEF Exchange!Next
<1>5. QED
  BY <1>3, <1>4, Zenon DEF ExportRename

LEMMA ExportEndRefines ==
  ASSUME ExportInv, ExportSync \/ ExportUnlink
  PROVE  [Exchange!Next]_(Exchange!vars)
<1>1. UNCHANGED <<hp, final, torn>>
  BY DEF ExportSync, ExportUnlink
<1>2. Stack' = Stack /\ Returns' = Returns
  BY <1>1, SeenStays DEF Alike
<1>3. CASE ExportSync
  <2>1. job = "sync" /\ job' \in {"rename", "unlink"} /\ UNCHANGED <<temp, status>>
    BY <1>3 DEF ExportSync
  <2>2. ~Busy /\ ~Busy'
    BY <2>1 DEF Busy
  <2>3. QED
    BY <1>1, <1>2, <2>1, <2>2, OutboxStays, Stutters
<1>4. CASE ExportUnlink
  <2>1. /\ job = "unlink" /\ Done("IO_ERROR")
        /\ temp' = [temp EXCEPT ![export.slot] = NoFile] \/ temp' = temp
    BY <1>4 DEF ExportUnlink
  <2>2. export.slot \in Slots /\ temp[export.slot] # UserFile /\ NoFile # UserFile
    BY <2>1, ObjectFilesAssumption DEF ExportInv
  <2>3. Outbox' = Outbox
    BY <1>1, <2>1, <2>2, TempUnseen, OutboxStays
  <2>4. job' = "idle" /\ status' \notin {"OK", "NONE"}
    BY <2>1, DoneFails DEF Failures
  <2>5. QED
    BY <1>1, <1>2, <2>3, <2>4, Fails
<1>5. QED
  BY <1>3, <1>4

(* What an export writes stays level 1: nothing else runs meanwhile.       *)
LEMMA WholeStays ==
  ASSUME MemoryInv, ExportInv, ExportInv', WholeInv, [Next]_vars
  PROVE  WholeInv'
<1>1. ASSUME job' \notin {"write", "sync", "rename"} PROVE WholeInv'
  BY <1>1 DEF WholeInv
<1>2. CASE object_files_cycle \/ ImportUnreadable \/ ExportFails \/ Drop \/ Pick \/ RomReady
           \/ ImportRead \/ ImportClose \/ object_files_import_selected \/ PowerCut
           \/ ExportRename \/ ExportUnlink
  <2>1. CASE ImportUnreadable \/ ExportFails \/ ImportClose \/ PowerCut
    BY <1>1, <2>1, DoneIs DEF ImportUnreadable, ExportFails, ImportClose, EndImport, PowerCut
  <2>2. CASE object_files_cycle \/ Drop \/ Pick \/ RomReady
    <3>1. job' = job /\ job = "idle"
      BY <2>2, Zenon DEF object_files_cycle, Drop, Pick, RomReady, RomStep, Idle
    <3>2. QED
      BY <1>1, <3>1
  <2>3. CASE ImportRead \/ object_files_import_selected
    <3>1. (\E result : Done(result)) \/ job' = "read" \/ job' = "close"
      BY <2>3, Zenon DEF ImportRead, EndImport, object_files_import_selected
    <3>2. QED
      BY <1>1, <3>1, DoneIs
  <2>4. CASE ExportRename \/ ExportUnlink
    <3>1. (\E result : Done(result)) \/ job' = "unlink"
      BY <2>4, Zenon DEF ExportRename, ExportUnlink
    <3>2. QED
      BY <1>1, <3>1, DoneIs
  <2>5. QED
    BY <1>2, <2>1, <2>2, <2>3, <2>4
<1>3. CASE object_files_export_stack
  <2>1. UNCHANGED hp /\ job = "idle"
    BY <1>3 DEF object_files_export_stack, Idle
  <2>2. (\E result : Done(result)) \/ job' = "write"
    BY <1>3, Zenon DEF object_files_export_stack
  <2>3. CASE job' = "write"
    <3>1. rpl_pointers(hp)
      BY <2>1, <2>3 DEF ExportInv
    <3>2. LevelOne(hp, export')
      BY <1>3, <2>3, <3>1, ExportStackTells
    <3>3. (LevelOne(hp, export))'
      BY <2>1, <3>2, Zenon
    <3>4. QED
      BY <3>3 DEF WholeInv
  <2>4. CASE \E result : Done(result)
    BY <1>1, <2>4, DoneIs
  <2>5. QED
    BY <2>2, <2>3, <2>4
<1>4. CASE ExportWrite
  <2>1. job = "write" /\ UNCHANGED hp
    BY <1>4 DEF ExportWrite
  <2>2. LevelOne(hp, export) /\ export \in ExportRecord
    BY <2>1 DEF WholeInv, ExportInv, Exporting
  <2> DEFINE left == PackedBytes(export) - export.offset
             chunk == IF left > BUFFER_BYTES THEN BUFFER_BYTES ELSE left
             next == export.offset + chunk
  <2>3. export' = [export EXCEPT !.offset = next] \/ export' = export
    BY <1>4 DEF ExportWrite
  <2> HIDE DEF next
  <2>4. export'.object = export.object /\ export'.cells = export.cells
    BY <2>2, <2>3 DEF ExportRecord
  <2>5. PackedBytes(export') = PackedBytes(export)
    BY <2>4, Zenon DEF PackedBytes
  <2>6. LevelOne(hp, export')
    BY <2>2, <2>4, <2>5, Zenon DEF LevelOne, ExportRead
  <2>7. (LevelOne(hp, export))'
    BY <2>1, <2>6, Zenon
  <2>8. QED
    BY <2>7 DEF WholeInv
<1>5. CASE ExportSync
  <2>1. job = "sync" /\ UNCHANGED <<hp, export>>
    BY <1>5 DEF ExportSync
  <2>2. (LevelOne(hp, export))'
    BY <2>1, Zenon DEF WholeInv
  <2>3. QED
    BY <2>2 DEF WholeInv
<1>6. CASE UNCHANGED vars
  BY <1>6, Zenon DEF vars, WholeInv
<1>7. QED
  BY <1>2, <1>3, <1>4, <1>5, <1>6 DEF Next, Transfers

LEMMA TornIs == Spec => [](torn \in BOOLEAN)
<1>1. Init => torn \in BOOLEAN
  BY DEF Init
<1>2. torn \in BOOLEAN /\ [Next]_vars => (torn \in BOOLEAN)'
  <2>1. SUFFICES ASSUME torn \in BOOLEAN, [Next]_vars PROVE torn' \in BOOLEAN
    OBVIOUS
  <2>2. torn' = torn \/ torn' = FALSE \/ \E begun : torn' = (begun.status = "GC_FAILED")
    BY <2>1, Zenon
    DEF vars, Next, Transfers, object_files_cycle, ImportUnreadable,
        object_files_import_selected, ImportRead, ImportClose, ExportFails,
        object_files_export_stack, ExportWrite, ExportSync, ExportRename, ExportUnlink, Drop,
        Pick, RomStep, RomReady, PowerCut
  <2>3. QED
    BY <2>1, <2>2
<1>3. QED
  BY <1>1, <1>2, PTL DEF Spec

(* A step of a transfer changes the two stacks only by the end of an       *)
(* import that reports success, which puts all that its file holds on      *)
(* level 1: whatever the files hold and whatever object_size says of it.   *)
(* The exception is a collection that was stopped.                         *)
WholeOrNothing ==
  Transfers /\ ~torn' =>
    /\ Returns' = Returns
    /\ Stack' = IF job = "close" /\ status' = "OK" THEN <<Payload>> \o Stack ELSE Stack

THEOREM ImportsAreWhole == Spec => [][WholeOrNothing]_vars
<1>1. ASSUME MemoryInv, torn \in BOOLEAN, Transfers, ~torn' PROVE WholeOrNothing
  <2>1. CASE \/ object_files_cycle \/ ImportUnreadable \/ ExportFails \/ ExportWrite
             \/ object_files_export_stack \/ ExportSync \/ ExportRename \/ ExportUnlink
    <3>1. UNCHANGED <<hp, torn>> /\ job # "close"
      BY <2>1 DEF object_files_cycle, ImportUnreadable, ExportFails, ExportWrite,
                  object_files_export_stack, ExportSync, ExportRename, ExportUnlink, Idle
    <3>2. Stack' = Stack /\ Returns' = Returns
      BY <3>1, SeenStays DEF Alike
    <3>3. QED
      BY <3>1, <3>2, Zenon DEF WholeOrNothing
  <2>2. CASE object_files_import_selected
    <3>1. torn' = torn /\ Alike(hp, hp') /\ job # "close"
      BY <1>1, <2>2, ImportBegins
    <3>2. QED
      BY <3>1, SeenStays, Zenon DEF WholeOrNothing
  <2>3. CASE ImportRead
    <3>1. torn' = torn /\ Alike(hp, hp') /\ job # "close"
      BY <1>1, <2>3, ReadsUnseen
    <3>2. QED
      BY <3>1, SeenStays, Zenon DEF WholeOrNothing
  <2>4. CASE ImportClose
    BY <1>1, <2>4, CloseShows, Zenon DEF WholeOrNothing
  <2>5. QED
    BY <1>1, <2>1, <2>2, <2>3, <2>4 DEF Transfers
<1>2. MemoryInv /\ torn \in BOOLEAN /\ [Next]_vars => [WholeOrNothing]_vars
  BY <1>1 DEF WholeOrNothing
<1>3. QED
  BY <1>2, MemoryHolds, TornIs, PTL DEF Spec

-----------------------------------------------------------------------------
(* What the stack holds: what object_size takes for one object, or what    *)
(* the ROM had put there.                                                  *)
Unmeasured == {BootObjects[level] : level \in DOMAIN BootObjects} \ Measured

(* The memory behind what is seen is in order.                             *)
LEMMA SeenOrdered ==
  ASSUME MemoryInv
  PROVE  \E B : Ordered(Seen, B)
<1>1. CASE torn \/ ~rpl_pointers(hp)
  <2>1. Seen = BootHp
    BY <1>1, Zenon DEF Seen
  <2>2. QED
    BY <2>1, BootIs
<1>2. CASE ~torn /\ rpl_pointers(hp)
  <2>1. Seen = hp
    BY <1>2, Zenon DEF Seen
  <2>2. \E B : Ordered(hp, B)
    <3>1. CASE job \in {"read", "close"}
      <4>1. PICK B : Underway(hp, transfer, B)
        BY <3>1, Zenon DEF MemoryInv, Importing
      <4>2. QED
        BY <4>1, UnderwayIsInOrder
    <3>2. CASE job \notin {"read", "close"}
      BY <1>2, <3>2, Zenon DEF MemoryInv, InHand
    <3>3. QED
      BY <3>1, <3>2
  <2>3. QED
    BY <2>1, <2>2, Zenon
<1>3. QED
  BY <1>1, <1>2

(* What a step makes of the stack that is seen.                            *)
LEMMA StackChanges ==
  ASSUME MemoryInv, ExportInv, torn \in BOOLEAN, [Next]_vars
  PROVE  \/ Stack' = Stack
         \/ Stack # <<>> /\ Stack' = Tail(Stack)
         \/ \E i \in DOMAIN Stack : Stack' = <<Stack[i]>> \o Stack
         \/ Stack' = ObjectsOf(BootHp)
         \/ ImportClose /\ status' = "OK" /\ selected \in Names /\ Stack' = <<Payload>> \o Stack
<1>1. CASE hp' = hp /\ torn' = torn
  BY <1>1, SeenStays DEF Alike
<1>2. CASE object_files_import_selected
  <2>1. torn' = TRUE \/ (torn' = torn /\ Alike(hp, hp'))
    BY <1>2, ImportBegins
  <2>2. CASE torn' = TRUE
    <3>1. Seen' = BootHp
      BY <2>2, Zenon DEF Seen
    <3>2. QED
      BY <3>1, Zenon DEF Stack
  <2>3. QED
    BY <2>1, <2>2, SeenStays
<1>3. CASE ImportRead
  <2>1. torn' = torn /\ Alike(hp, hp')
    BY <1>3, ReadsUnseen
  <2>2. QED
    BY <2>1, SeenStays
<1>4. CASE ImportClose
  <2>1. /\ selected \in Names
        /\ \/ status' = "OK" /\ Stack' = <<Payload>> \o Stack
           \/ Stack' = Stack
    BY <1>4, CloseShows
  <2>2. QED
    BY <1>4, <2>1, Zenon
<1>5. CASE Drop \/ Pick
  <2>1. [Exchange!Next]_(Exchange!vars)
    BY <1>5, DropRefines, PickRefines
  <2>2. job = "idle" /\ status' = "NONE"
    BY <1>5, Zenon DEF Drop, Pick, RomStep, Idle
  <2>3. ~Exchange!Import /\ ~Exchange!Tear
    BY <2>2, Zenon DEF Exchange!Import, Exchange!Tear
  <2>4. \/ Exchange!Compute \/ Exchange!Accept \/ Exchange!Fail \/ Exchange!Export
        \/ Exchange!Restart \/ Exchange!Forget \/ UNCHANGED Exchange!vars
    BY <2>1, <2>3, Zenon DEF Exchange!Next
  <2>5. QED
    BY <2>4, Zenon
    DEF Exchange!Compute, Exchange!Accept, Exchange!Fail, Exchange!Export,
        Exchange!Restart, Exchange!Forget, Exchange!vars, Stack, BootObjects
<1>6. CASE PowerCut
  <2>1. hp' = BootHp \/ ~rpl_pointers(hp')
    BY <1>6, UnreadyIs DEF PowerCut
  <2>2. Seen' = BootHp
    BY <2>1, Zenon DEF Seen
  <2>3. QED
    BY <2>2, Zenon DEF Stack
<1>7. CASE RomReady
  <2>1. hp' = BootHp
    BY <1>7 DEF RomReady
  <2>2. Seen' = BootHp
    BY <2>1, Zenon DEF Seen
  <2>3. QED
    BY <2>2, Zenon DEF Stack
<1>8. CASE \/ object_files_cycle \/ ImportUnreadable \/ ExportFails
           \/ object_files_export_stack \/ ExportWrite \/ ExportSync
           \/ ExportRename \/ ExportUnlink \/ UNCHANGED vars
  <2>1. hp' = hp /\ torn' = torn
    BY <1>8
    DEF object_files_cycle, ImportUnreadable, ExportFails, object_files_export_stack,
        ExportWrite, ExportSync, ExportRename, ExportUnlink, vars
  <2>2. QED
    BY <1>1, <2>1
<1>9. QED
  BY <1>2, <1>3, <1>4, <1>5, <1>6, <1>7, <1>8 DEF Next, Transfers

(* What every object of a restart is, and every object of a file that is   *)
(* imported, every object on the stack is.                                 *)
LEMMA StackHolds ==
  ASSUME NEW S, Stack \in Seq(S), ObjectsOf(BootHp) \in Seq(S),
         MemoryInv, ExportInv, torn \in BOOLEAN, [Next]_vars,
         ImportClose /\ status' = "OK" /\ selected \in Names => Payload \in S
  PROVE  (Stack \in Seq(S))'
<1> DEFINE s == Stack
           t == Stack'
           p == Payload
<1>1. \/ t = s
      \/ s # <<>> /\ t = Tail(s)
      \/ \E i \in DOMAIN s : t = <<s[i]>> \o s
      \/ t = ObjectsOf(BootHp)
      \/ p \in S /\ t = <<p>> \o s
  BY StackChanges, Zenon
<1>2. s \in Seq(S)
  OBVIOUS
<1> SUFFICES t \in Seq(S)
  OBVIOUS
<1> HIDE DEF s, t, p
<1>3. CASE t = s \/ t = ObjectsOf(BootHp)
  BY <1>2, <1>3
<1>4. CASE s # <<>> /\ t = Tail(s)
  BY <1>2, <1>4
<1>5. CASE \E i \in DOMAIN s : t = <<s[i]>> \o s
  <2>1. PICK i \in DOMAIN s : t = <<s[i]>> \o s
    BY <1>5
  <2>2. s[i] \in S
    BY <1>2
  <2>3. QED
    BY <1>2, <2>1, <2>2
<1>6. CASE p \in S /\ t = <<p>> \o s
  BY <1>2, <1>6
<1>7. QED
  BY <1>1, <1>3, <1>4, <1>5, <1>6

(* What the stack holds stays so.                                          *)
LEMMA BootIsSeen ==
  ASSUME Init
  PROVE  Stack = ObjectsOf(BootHp)
<1>1. Seen = BootHp
  BY Zenon DEF Init, Seen
<1>2. QED
  BY <1>1, Zenon DEF Stack

LEMMA StackIsKnown == Spec => [](Stack \in Seq(Measured \cup Unmeasured))
<1> DEFINE S == Measured \cup Unmeasured
<1>1. ObjectsOf(BootHp) \in Seq(S)
  <2> DEFINE o == ObjectsOf(BootHp)
  <2>1. o \in Seq(Seq(Cell)) /\ Len(o) \in Nat /\ o \in [1 .. Len(o) -> Seq(Cell)]
    BY BootIs, ObjectsAre
  <2> HIDE DEF o
  <2>2. ASSUME NEW i \in 1 .. Len(o) PROVE o[i] \in S
    <3>1. i \in DOMAIN o
      BY <2>1
    <3>2. o = BootObjects
      BY Zenon DEF o, BootObjects
    <3>3. QED
      BY <3>1, <3>2, Zenon DEF Unmeasured
  <2> HIDE DEF S
  <2>3. o \in [1 .. Len(o) -> S]
    BY <2>1, <2>2
  <2>4. o \in Seq(S)
    BY <2>1, <2>3, FunctionIsSeq
  <2>5. QED
    BY <2>4 DEF o
<1>2. ASSUME MemoryInv, ImportClose, status' = "OK", selected \in Names PROVE Payload \in S
  <2>1. Whole(Payload)
    BY <1>2, CloseJudges
  <2>2. Payload \in Payloads
    BY <1>2, EntryIs, Zenon DEF Payloads
  <2>3. QED
    BY <2>1, <2>2, Zenon DEF Measured
<1> HIDE DEF S
<1>3. Init => Stack \in Seq(S)
  BY <1>1, BootIsSeen
<1>4. MemoryInv /\ ExportInv /\ torn \in BOOLEAN /\ Stack \in Seq(S) /\ [Next]_vars
        => (Stack \in Seq(S))'
  <2>1. SUFFICES ASSUME MemoryInv, ExportInv, torn \in BOOLEAN, Stack \in Seq(S), [Next]_vars
                 PROVE  (Stack \in Seq(S))'
    OBVIOUS
  <2>2. ImportClose /\ status' = "OK" /\ selected \in Names => Payload \in S
    BY <1>2, <2>1
  <2>3. QED
    BY <1>1, <2>1, <2>2, StackHolds
<1>5. Spec => [](Stack \in Seq(S))
  BY <1>3, <1>4, MemoryHolds, ExportHolds, TornIs, PTL DEF Spec
<1>6. QED
  BY <1>5 DEF S

(* Whatever the INBOX holds and wherever collections have moved it: an     *)
(* object that was imported, and each that the ROM made whose end          *)
(* object_size finds, is not refused as bad when it is exported, and the   *)
(* file that is begun is that object.                                      *)
ExportIsWhole ==
  object_files_export_stack /\ Stack # <<>> /\ Stack[1] \notin Unmeasured =>
    /\ job' = "idle" => status' # "BAD_OBJECT"
    /\ job' = "write" => ExportRead(hp, export', 0, PackedBytes(export'))
                           = Exchange!Packed(Exported[Stack[1]])

THEOREM ExportsAreWhole == Spec => [][ExportIsWhole]_vars
<1>1. MemoryInv /\ ExportInv' /\ Stack \in Seq(Measured \cup Unmeasured) /\ [Next]_vars
        => [ExportIsWhole]_vars
  <2>1. SUFFICES ASSUME MemoryInv, ExportInv', Stack \in Seq(Measured \cup Unmeasured),
                        object_files_export_stack, Stack # <<>>, Stack[1] \notin Unmeasured
                 PROVE  /\ job' = "idle" => status' # "BAD_OBJECT"
                        /\ job' = "write" =>
                             ExportRead(hp, export', 0, PackedBytes(export'))
                               = Exchange!Packed(Exported[Stack[1]])
    BY Zenon DEF ExportIsWhole
  <2>2. Stack[1] \in Measured
    <3> DEFINE s == Stack
               S == Measured \cup Unmeasured
    <3>1. s \in Seq(S) /\ s # <<>>
      BY <2>1
    <3> HIDE DEF s, S
    <3>2. s[1] \in S
      BY <3>1
    <3>3. QED
      BY <2>1, <3>2, Zenon DEF s, S
  <2>3. ~torn /\ InHand(hp)
    BY <2>1, IdleIs DEF object_files_export_stack, Idle
  <2>4. CASE ~rpl_pointers(hp)
    <3> DEFINE begun == ExportBegin(hp)
    <3>1. begun.status = "NOT_READY"
      BY <2>4 DEF ExportBegin, Outcome
    <3>2. begun.status # "OK" => Done(begun.status)
      BY <2>1, Zenon DEF object_files_export_stack
    <3> HIDE DEF begun
    <3>3. Done("NOT_READY")
      BY <3>1, <3>2
    <3>4. job' = "idle" /\ status' # "BAD_OBJECT"
      BY <3>3 DEF Done
    <3>5. QED
      BY <3>4
  <2>5. CASE rpl_pointers(hp)
    <3>1. Seen = hp
      BY <2>3, <2>5, Zenon DEF Seen
    <3>2. ObjectsOf(hp) = Stack
      BY <3>1, Zenon DEF Stack
    <3>3. hp48_rpl_stack_depth(hp) > 0
      <4>1. PICK B : Ordered(hp, B)
        BY <2>3, <2>5 DEF InHand
      <4>2. /\ ObjectsOf(hp) \in Seq(Seq(Cell)) /\ Len(ObjectsOf(hp)) = hp48_rpl_stack_depth(hp)
            /\ ObjectsOf(hp) # <<>>
        BY <2>1, <3>2, <4>1, ObjectsAre
      <4> DEFINE o == ObjectsOf(hp)
      <4> HIDE DEF o
      <4>3. o \in Seq(Seq(Cell)) /\ o # <<>> => Len(o) > 0
        OBVIOUS
      <4>4. QED
        BY <4>2, <4>3 DEF o
    <3>4. ObjectsOf(hp)[1] \in Measured
      BY <2>2, <3>2, Zenon
    <3>5. /\ job' = "idle" => status' # "BAD_OBJECT"
          /\ job' = "write" => LevelOne(hp, export')
      BY <2>1, <2>5, <3>3, <3>4, ExportStackTells
    <3>6. QED
      BY <3>2, <3>4, <3>5, Zenon DEF LevelOne
  <2>6. QED
    BY <2>4, <2>5
<1>2. QED
  BY <1>1, MemoryHolds, ExportHolds, StackIsKnown, PTL DEF Spec

(* The step that ends an import.                                           *)
LEMMA CloseEnds ==
  ASSUME [Next]_vars, job = "close", job' = "idle", status' \in {"OK", "BAD_OBJECT"}
  PROVE  ImportClose
<1>1. vars' # vars
  <2>1. job' # job
    OBVIOUS
  <2>2. QED
    BY <2>1, Zenon DEF vars
<1>2. ~PowerCut
  <2>1. status' # "NONE"
    OBVIOUS
  <2>2. QED
    BY <2>1, Zenon DEF PowerCut
<1>3. job # "idle" /\ job \notin {"read", "write", "sync", "rename", "unlink"}
  OBVIOUS
<1>4. /\ ~object_files_cycle /\ ~ImportUnreadable /\ ~object_files_import_selected
      /\ ~ExportFails /\ ~object_files_export_stack /\ ~Drop /\ ~Pick /\ ~RomReady
  BY <1>3, Zenon
  DEF Idle, object_files_cycle, ImportUnreadable, object_files_import_selected,
      ExportFails, object_files_export_stack, Drop, Pick, RomStep, RomReady
<1>5. ~ImportRead /\ ~ExportWrite /\ ~ExportSync /\ ~ExportRename /\ ~ExportUnlink
  BY <1>3 DEF ImportRead, ExportWrite, ExportSync, ExportRename, ExportUnlink
<1>6. Next
  BY <1>1
<1>7. QED
  BY <1>2, <1>4, <1>5, <1>6, Zenon DEF Next, Transfers

(* The verdict on a file that was read to its end is that of object_size   *)
(* on the file by itself: the place of the block, what lies behind it, and *)
(* the reads that brought the file there in pieces make no difference.     *)
ClosesAsMeasured ==
  job = "close" /\ job' = "idle" /\ status' \in {"OK", "BAD_OBJECT"} =>
    (status' = "OK" <=> Whole(Payload))

THEOREM ImportsAreMeasured == Spec => [][ClosesAsMeasured]_vars
<1>1. MemoryInv /\ [Next]_vars => [ClosesAsMeasured]_vars
  <2>1. SUFFICES ASSUME MemoryInv, [Next]_vars, job = "close", job' = "idle",
                        status' \in {"OK", "BAD_OBJECT"}
                 PROVE  status' = "OK" <=> Whole(Payload)
    BY Zenon DEF ClosesAsMeasured
  <2>2. ImportClose
    BY <2>1, CloseEnds
  <2>3. (status' = "OK" => Whole(Payload)) /\ (status' = "BAD_OBJECT" => ~Whole(Payload))
    BY <2>1, <2>2, CloseJudges
  <2>4. QED
    BY <2>1, <2>3
<1>2. QED
  BY <1>1, MemoryHolds, PTL DEF Spec

-----------------------------------------------------------------------------
(* Every step is one of ObjectExchange.                                    *)
LEMMA StepRefines ==
  ASSUME MemoryInv, ExportInv, ExportInv', WholeInv, torn \in BOOLEAN,
         [Next]_vars
  PROVE  [Exchange!Next]_(Exchange!vars)
<1>1. CASE object_files_cycle
  BY <1>1, CycleRefines
<1>2. CASE ImportUnreadable \/ ExportFails
  BY <1>2, UnreadableRefines
<1>3. CASE object_files_import_selected
  BY <1>3, ImportRefines
<1>4. CASE ImportRead
  BY <1>4, ReadRefines
<1>5. CASE ImportClose
  BY <1>5, CloseRefines
<1>6. CASE object_files_export_stack
  BY <1>6, ExportStackRefines
<1>7. CASE ExportWrite
  BY <1>7, ExportWriteRefines
<1>8. CASE ExportRename
  BY <1>8, ExportRenameRefines
<1>9. CASE ExportSync \/ ExportUnlink
  BY <1>9, ExportEndRefines
<1>10. CASE Drop
  BY <1>10, DropRefines
<1>11. CASE Pick
  BY <1>11, PickRefines
<1>12. CASE PowerCut
  BY <1>12, PowerCutRefines
<1>13. CASE RomReady
  BY <1>13, RomReadyRefines
<1>14. CASE UNCHANGED vars
  <2>1. Stack' = Stack /\ Returns' = Returns /\ Outbox' = Outbox /\ (Busy' <=> Busy)
    BY <1>14, SeenStays, OutboxStays DEF vars, Busy, Alike
  <2>2. QED
    BY <1>14, <2>1, Stutters DEF vars
<1>15. QED
  BY <1>1, <1>2, <1>3, <1>4, <1>5, <1>6, <1>7, <1>8, <1>9, <1>10, <1>11, <1>12, <1>13, <1>14
  DEF Next, Transfers

LEMMA InitRefines == Init => Exchange!Init
<1>1. SUFFICES ASSUME Init PROVE Exchange!Init
  OBVIOUS
<1>2. /\ hp = BootHp /\ job = "idle" /\ torn = FALSE /\ status = "NONE"
      /\ final = [s \in Slots |-> IF s \in UserFinals THEN UserFile ELSE NoFile]
      /\ temp = [s \in Slots |-> IF s \in UserTemps THEN UserFile ELSE NoFile]
  BY <1>1, Zenon DEF Init
<1>3. Seen = BootHp
  BY <1>2, Zenon DEF Seen
<1>4. Stack = BootObjects /\ Returns = ReturnsOf(BootHp)
  BY <1>3, Zenon DEF Stack, Returns, BootObjects
<1>5. Outbox = [s \in Slots |-> IF s \in UserFinals \cup UserTemps THEN UserFile ELSE NoFile]
  <2>1. NoFile # UserFile
    BY ObjectFilesAssumption
  <2>2. \A s \in Slots : (IF temp[s] = UserFile THEN UserFile ELSE final[s])
                         = IF s \in UserFinals \cup UserTemps THEN UserFile ELSE NoFile
    BY <1>2, <2>1
  <2>3. QED
    BY <2>2, Zenon DEF Outbox
<1>6. (job \in {"read", "close"}) = FALSE
  BY <1>2
<1>7. QED
  BY <1>2, <1>4, <1>5, <1>6, Zenon DEF Exchange!Init, Stack, Returns, Outbox

(* Whatever fails and whenever the power goes, every step of a transfer is *)
(* one of ObjectExchange or changes nothing that anybody can see.          *)
THEOREM TransfersAreAtomic == Spec => ExchangeIsAtomic
<1>1. Init => WholeInv
  BY DEF Init, WholeInv
<1>2. MemoryInv /\ ExportInv /\ ExportInv' /\ WholeInv /\ [Next]_vars => WholeInv'
  BY WholeStays
<1>3. MemoryInv /\ ExportInv /\ ExportInv' /\ WholeInv /\ torn \in BOOLEAN /\ [Next]_vars
        => [Exchange!Next]_(Exchange!vars)
  BY StepRefines
<1>4. QED
  BY <1>1, <1>2, <1>3, InitRefines, MemoryHolds, ExportHolds, TornIs, PTL
  DEF Spec, ExchangeIsAtomic, Exchange!Spec
=============================================================================
