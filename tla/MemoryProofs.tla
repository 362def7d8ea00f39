---------------------------- MODULE MemoryProofs ----------------------------
(***************************************************************************)
(* What a word stored in memory reads back as, and what else it leaves     *)
(* alone: for every number of cells in a word and of values in a cell.     *)
(*                                                                         *)
(* Words are read and written by recursion over their cells.  Induction    *)
(* is over sets of numbers (UpTo), and a recursive function exists because *)
(* each of its finite parts does (Recursion).                              *)
(***************************************************************************)
EXTENDS Memory, WellFoundedInduction, TLAPS

\* A set of numbers with an element has a least one.
LEMMA Least ==
  ASSUME NEW T \in SUBSET Nat, T # {}
  PROVE  \E x \in T : \A y \in T : x <= y
<1> DEFINE R == OpToRel(<, Nat)
<1>1. IsWellFoundedOn(R, Nat) BY NatLessThanWellFounded
<1>2. PICK x \in T : \A y \in T : ~(<<y, x>> \in R) BY <1>1, WFMin
<1>3. \A y \in T : ~(y < x)
  <2> TAKE y \in T
  <2>1. x \in Nat /\ y \in Nat OBVIOUS
  <2> QED BY <1>2, <2>1 DEF OpToRel
<1>4. \A y \in T : x <= y
  <2> TAKE y \in T
  <2>1. x \in Nat /\ y \in Nat OBVIOUS
  <2> QED BY <1>3, <2>1
<1> QED BY <1>4

\* A set that has 0, and with each number below n the next one, has all up to n.
LEMMA UpTo ==
  ASSUME NEW n \in Nat, NEW S, 0 \in S, \A k \in 0..n - 1 : k \in S => k + 1 \in S
  PROVE  \A k \in 0..n : k \in S
<1> DEFINE T == {k \in 0..n : k \notin S}
<1>1. SUFFICES ASSUME T # {} PROVE FALSE OBVIOUS
<1>2. PICK x \in T : \A y \in T : x <= y
  <2>1. T \in SUBSET Nat OBVIOUS
  <2> HIDE DEF T
  <2> QED BY <1>1, <2>1, Least
<1>3. x \in 1..n OBVIOUS
<1>4. x - 1 \in 0..n - 1 /\ x - 1 \in 0..n /\ ~(x <= x - 1) BY <1>3
<1>5. x - 1 \in S BY <1>2, <1>4
<1>6. x - 1 + 1 \in S BY <1>4, <1>5
<1>7. x - 1 + 1 = x BY <1>3
<1> QED BY <1>6, <1>7

\* A function of 0..n may be given by its first value and the step to the next.
Follows(f, n, base, step) == f[0] = base /\ \A k \in 1..n : f[k] = step[k][f[k - 1]]

LEMMA Recursion ==
  ASSUME NEW V, NEW n \in Nat, NEW base \in V, NEW step \in [1..n -> [V -> V]]
  PROVE  \E f \in [0..n -> V] : Follows(f, n, base, step)
<1> DEFINE S == {m \in 0..n : \E f \in [0..m -> V] :
                   f[0] = base /\ \A k \in 1..m : f[k] = step[k][f[k - 1]]}
<1>1. 0 \in S
  <2> DEFINE f == [k \in 0..0 |-> base]
  <2>1. f \in [0..0 -> V] /\ f[0] = base OBVIOUS
  <2>2. \A k \in 1..0 : f[k] = step[k][f[k - 1]] OBVIOUS
  <2>3. 0 \in 0..n OBVIOUS
  <2> HIDE DEF f
  <2> QED BY <2>1, <2>2, <2>3
<1>2. ASSUME NEW m \in 0..n - 1, m \in S PROVE m + 1 \in S
  <2>1. PICK f \in [0..m -> V] : f[0] = base /\ \A k \in 1..m : f[k] = step[k][f[k - 1]]
    BY <1>2
  <2> DEFINE g == [k \in 0..m + 1 |-> IF k = m + 1 THEN step[m + 1][f[m]] ELSE f[k]]
  <2>2. m \in Nat /\ m + 1 \in 0..n /\ m + 1 \in 1..n /\ m \in 0..m /\ 0 \in 0..m + 1 /\ 0 # m + 1
    BY <1>2
  <2>3. step[m + 1][f[m]] \in V BY <2>2
  <2>4. g \in [0..m + 1 -> V]
    <3> SUFFICES ASSUME NEW k \in 0..m + 1 PROVE g[k] \in V OBVIOUS
    <3>1. k = m + 1 \/ k \in 0..m BY <2>2
    <3> QED BY <2>3, <3>1
  <2>5. g[0] = base BY <2>1, <2>2
  <2>6. ASSUME NEW k \in 1..m + 1 PROVE g[k] = step[k][g[k - 1]]
    <3>1. k \in 0..m + 1 /\ k - 1 \in 0..m + 1 /\ k - 1 # m + 1 BY <2>2
    <3>2. g[k - 1] = f[k - 1] BY <3>1
    <3>3. CASE k = m + 1
      <4>1. k - 1 = m BY <2>2, <3>3
      <4> QED BY <3>1, <3>2, <3>3, <4>1
    <3>4. CASE k # m + 1
      <4>1. k \in 1..m BY <2>2, <3>4
      <4>2. g[k] = f[k] BY <3>1, <3>4
      <4> QED BY <2>1, <3>2, <4>1, <4>2
    <3> QED BY <3>3, <3>4
  <2> HIDE DEF g
  <2> QED BY <2>2, <2>4, <2>5, <2>6
<1> HIDE DEF S
<1>3. n \in S
  <2>1. \A k \in 0..n - 1 : k \in S => k + 1 \in S BY <1>2
  <2>2. \A k \in 0..n : k \in S BY <1>1, <2>1, UpTo
  <2> QED BY <2>2
<1> QED BY <1>3 DEF S, Follows

\* A function of 0..n that begins like another, and goes on like it as long as
\* it was like it so far, is that other.
IsFrom0To(f, n) == f = [k \in 0..n |-> f[k]]
InStep(f, g, n) == f[0] = g[0] /\ \A k \in 1..n : f[k - 1] = g[k - 1] => f[k] = g[k]

LEMMA SameFunction ==
  ASSUME NEW n \in Nat, NEW f, NEW g, IsFrom0To(f, n), IsFrom0To(g, n), InStep(f, g, n)
  PROVE  f = g
<1> USE DEF InStep, IsFrom0To
<1> DEFINE S == {k \in 0..n : g[k] = f[k]}
<1>1. 0 \in S OBVIOUS
<1>2. ASSUME NEW k \in 0..n - 1, k \in S PROVE k + 1 \in S
  <2> DEFINE j == k + 1
  <2>1. j \in 1..n /\ j - 1 = k /\ j \in 0..n BY <1>2
  <2>2. g[j - 1] = f[j - 1] BY <1>2, <2>1
  <2> HIDE DEF j
  <2>3. g[j] = f[j] BY <2>1, <2>2
  <2> QED BY <2>1, <2>3 DEF j
<1>3. \A k \in 0..n : k \in S
  <2>1. \A k \in 0..n - 1 : k \in S => k + 1 \in S BY <1>2
  <2> HIDE DEF S
  <2> QED BY <1>1, <2>1, UpTo
<1>4. \A k \in 0..n : g[k] = f[k] BY <1>3
<1>5. [k \in 0..n |-> f[k]] = [k \in 0..n |-> g[k]] BY <1>4
<1> QED BY <1>5

-----------------------------------------------------------------------------
\* Cells hold digits.
Cell == 0..Radix - 1

\* Division by the radix, as far as it is needed.
LEMMA Division ==
  ASSUME NEW v \in Nat
  PROVE  v \div Radix \in Nat /\ v % Radix \in Cell /\ v = (v % Radix) + Radix * (v \div Radix)
<1>1. Radix \in Nat \ {0} BY RadixAssumption
<1>2. v % Radix \in Int /\ v % Radix >= 0 /\ v % Radix < Radix BY <1>1
<1>3. v \div Radix \in Int /\ v = Radix * (v \div Radix) + (v % Radix) BY <1>1
<1>4. v \div Radix >= 0 BY <1>1
<1> QED BY <1>1, <1>2, <1>3, <1>4 DEF Cell

\* The recursive function of Shifted.
LEMMA ShiftedDef ==
  ASSUME NEW v \in Nat, NEW n \in Nat
  PROVE  /\ Shifted(v, n) \in [0..n -> Nat]
         /\ Shifted(v, n)[0] = v
         /\ \A k \in 1..n : Shifted(v, n)[k] = Shifted(v, n)[k - 1] \div Radix
<1> DEFINE step == [k \in 1..n |-> [x \in Nat |-> x \div Radix]]
           P(f) == f = [k \in 0..n |-> IF k = 0 THEN v ELSE f[k - 1] \div Radix]
<1>1. \A k \in 1..n : \A x \in Nat : step[k][x] = x \div Radix OBVIOUS
<1>2. step \in [1..n -> [Nat -> Nat]] BY Division
<1> HIDE DEF step
<1>3. PICK f \in [0..n -> Nat] : f[0] = v /\ \A k \in 1..n : f[k] = step[k][f[k - 1]]
  <2> DEFINE V == Nat
  <2>1. v \in V /\ step \in [1..n -> [V -> V]] BY <1>2
  <2> HIDE DEF V
  <2>2. \E f \in [0..n -> V] : Follows(f, n, v, step) BY <2>1, Recursion
  <2> QED BY <2>2 DEF V, Follows
<1>4. \A k \in 1..n : k - 1 \in 0..n /\ f[k - 1] \in Nat /\ f[k] = f[k - 1] \div Radix BY <1>1, <1>3
<1>5. P(f)
  <2>1. \A k \in 0..n : k = 0 \/ k \in 1..n OBVIOUS
  <2>2. \A k \in 0..n : f[k] = IF k = 0 THEN v ELSE f[k - 1] \div Radix
    BY <1>3, <1>4, <2>1
  <2> QED BY <2>2
<1>6. Shifted(v, n) = CHOOSE g : P(g) BY DEF Shifted
<1>7. P(CHOOSE g : P(g)) BY <1>5
<1> HIDE DEF P
<1>8. P(Shifted(v, n)) BY <1>6, <1>7
<1> DEFINE h == Shifted(v, n)
<1>9. h = [k \in 0..n |-> IF k = 0 THEN v ELSE h[k - 1] \div Radix] BY <1>8 DEF P
<1> HIDE DEF h
<1>10. h = f
  <2>1. h = [k \in 0..n |-> h[k]] BY <1>9
  <2>2. h[0] = f[0] BY <1>3, <1>9
  <2>3. \A k \in 1..n : h[k] = h[k - 1] \div Radix
    <3>1. \A k \in 1..n : k \in 0..n /\ k # 0 OBVIOUS
    <3> QED BY <1>9, <3>1
  <2>4. \A k \in 1..n : h[k - 1] = f[k - 1] => h[k] = f[k] BY <1>4, <2>3
  <2>5. IsFrom0To(f, n) /\ IsFrom0To(h, n) /\ InStep(h, f, n)
    BY <2>1, <2>2, <2>4 DEF IsFrom0To, InStep
  <2> QED BY <2>5, SameFunction
<1> QED BY <1>3, <1>4, <1>10 DEF h

\* The recursive function of Highest.
Readable(m, a, n) == \A i \in 0..n - 1 : m[a + i] \in Cell

LEMMA HighestDef ==
  ASSUME NEW m, NEW a \in Int, NEW n \in Nat, Readable(m, a, n)
  PROVE  /\ Highest(m, a, n) \in [0..n -> Nat]
         /\ Highest(m, a, n)[0] = 0
         /\ \A k \in 1..n : Highest(m, a, n)[k] = m[a + n - k] + Radix * Highest(m, a, n)[k - 1]
<1> DEFINE step == [k \in 1..n |-> [x \in Nat |-> m[a + n - k] + Radix * x]]
           P(f) == f = [k \in 0..n |-> IF k = 0 THEN 0 ELSE m[a + n - k] + Radix * f[k - 1]]
<1>1. \A k \in 1..n : \A x \in Nat : step[k][x] = m[a + n - k] + Radix * x OBVIOUS
<1>2. step \in [1..n -> [Nat -> Nat]]
  <2> SUFFICES ASSUME NEW k \in 1..n, NEW x \in Nat PROVE m[a + n - k] + Radix * x \in Nat OBVIOUS
  <2>1. n - k \in 0..n - 1 /\ a + (n - k) = a + n - k OBVIOUS
  <2>2. m[a + n - k] \in Cell BY <2>1 DEF Readable
  <2>3. Radix \in Nat BY RadixAssumption
  <2> QED BY <2>2, <2>3 DEF Cell
<1> HIDE DEF step
<1>3. PICK f \in [0..n -> Nat] : f[0] = 0 /\ \A k \in 1..n : f[k] = step[k][f[k - 1]]
  <2> DEFINE V == Nat
  <2>1. 0 \in V /\ step \in [1..n -> [V -> V]] BY <1>2
  <2> HIDE DEF V
  <2>2. \E f \in [0..n -> V] : Follows(f, n, 0, step) BY <2>1, Recursion
  <2> QED BY <2>2 DEF V, Follows
<1>4. \A k \in 1..n : k - 1 \in 0..n /\ f[k - 1] \in Nat /\ f[k] = m[a + n - k] + Radix * f[k - 1]
  <2> SUFFICES ASSUME NEW k \in 1..n
               PROVE  k - 1 \in 0..n /\ f[k - 1] \in Nat /\ f[k] = m[a + n - k] + Radix * f[k - 1]
    OBVIOUS
  <2>1. k - 1 \in 0..n OBVIOUS
  <2>2. f[k - 1] \in Nat BY <1>3, <2>1
  <2> QED BY <1>1, <1>3, <2>1, <2>2
<1>5. P(f)
  <2>1. \A k \in 0..n : k = 0 \/ k \in 1..n OBVIOUS
  <2>2. \A k \in 0..n : f[k] = IF k = 0 THEN 0 ELSE m[a + n - k] + Radix * f[k - 1]
    BY <1>3, <1>4, <2>1
  <2> QED BY <2>2
<1>6. Highest(m, a, n) = CHOOSE g : P(g) BY DEF Highest
<1>7. P(CHOOSE g : P(g)) BY <1>5
<1> HIDE DEF P
<1>8. P(Highest(m, a, n)) BY <1>6, <1>7
<1> DEFINE h == Highest(m, a, n)
<1>9. h = [k \in 0..n |-> IF k = 0 THEN 0 ELSE m[a + n - k] + Radix * h[k - 1]] BY <1>8 DEF P
<1> HIDE DEF h
<1>10. h = f
  <2>1. h = [k \in 0..n |-> h[k]] BY <1>9
  <2>2. h[0] = f[0] BY <1>3, <1>9
  <2>3. \A k \in 1..n : h[k] = m[a + n - k] + Radix * h[k - 1]
    <3>1. \A k \in 1..n : k \in 0..n /\ k # 0 OBVIOUS
    <3> QED BY <1>9, <3>1
  <2>4. \A k \in 1..n : h[k - 1] = f[k - 1] => h[k] = f[k] BY <1>4, <2>3
  <2>5. IsFrom0To(f, n) /\ IsFrom0To(h, n) /\ InStep(h, f, n)
    BY <2>1, <2>2, <2>4 DEF IsFrom0To, InStep
  <2> QED BY <2>5, SameFunction
<1> QED BY <1>3, <1>4, <1>10 DEF h

-----------------------------------------------------------------------------
\* A word is a number.
LEMMA GetUType ==
  ASSUME NEW m, NEW a \in Int, NEW n \in Nat, Readable(m, a, n)
  PROVE  GetU(m, a, n) \in Nat
BY HighestDef DEF GetU

\* A word depends on its own cells only.
LEMMA GetUSame ==
  ASSUME NEW m, NEW w, NEW a \in Int, NEW n \in Nat,
         Readable(m, a, n), \A i \in 0..n - 1 : w[a + i] = m[a + i]
  PROVE  GetU(w, a, n) = GetU(m, a, n)
<1> DEFINE f == Highest(m, a, n)
           g == Highest(w, a, n)
<1>1. /\ f \in [0..n -> Nat] /\ f[0] = 0
      /\ \A k \in 1..n : f[k] = m[a + n - k] + Radix * f[k - 1]
  BY HighestDef
<1>2. /\ g \in [0..n -> Nat] /\ g[0] = 0
      /\ \A k \in 1..n : g[k] = w[a + n - k] + Radix * g[k - 1]
  <2>1. Readable(w, a, n) BY DEF Readable
  <2> QED BY <2>1, HighestDef
<1>3. \A k \in 1..n : w[a + n - k] = m[a + n - k]
  <2> TAKE k \in 1..n
  <2>1. n - k \in 0..n - 1 /\ a + (n - k) = a + n - k OBVIOUS
  <2> QED BY <2>1
<1> HIDE DEF f, g
<1>4. g = f
  <2>1. g = [k \in 0..n |-> g[k]] BY <1>2
  <2>2. \A k \in 1..n : g[k - 1] = f[k - 1] => g[k] = f[k] BY <1>1, <1>2, <1>3
  <2>3. IsFrom0To(f, n) /\ IsFrom0To(g, n) /\ InStep(g, f, n)
    BY <1>1, <1>2, <2>1, <2>2 DEF IsFrom0To, InStep
  <2> QED BY <2>3, SameFunction
<1> QED BY <1>4 DEF GetU, f, g

\* A number fits in n cells if nothing is left of it behind n shifts.
Fits(v, n) == v \in Nat /\ Shifted(v, n)[n] = 0

\* Storing changes the cells of the word, and they hold digits.
LEMMA PutUType ==
  ASSUME NEW A \in SUBSET Int, NEW m \in [A -> Cell], NEW a \in Int, NEW n \in Nat, NEW v \in Nat
  PROVE  /\ PutU(m, a, n, v) \in [A -> Cell]
         /\ \A b \in A : b < a \/ b >= a + n => PutU(m, a, n, v)[b] = m[b]
         /\ \A b \in A : a <= b /\ b < a + n => PutU(m, a, n, v)[b] = Shifted(v, n)[b - a] % Radix
<1>1. Shifted(v, n) \in [0..n -> Nat] BY ShiftedDef
<1>2. ASSUME NEW b \in A, a <= b, b < a + n PROVE Shifted(v, n)[b - a] % Radix \in Cell
  <2>1. b - a \in 0..n BY <1>2
  <2> QED BY <1>1, <2>1, Division
<1>3. DOMAIN m = A OBVIOUS
<1>4. \A b \in A : b \in Int OBVIOUS
<1> QED BY <1>2, <1>3, <1>4 DEF PutU

\* What was stored is what is read.
LEMMA ReadBack ==
  ASSUME NEW A \in SUBSET Int, NEW m \in [A -> Cell], NEW a \in Int, NEW n \in Nat, NEW v,
         Fits(v, n), \A i \in 0..n - 1 : a + i \in A
  PROVE  GetU(PutU(m, a, n, v), a, n) = v
<1> DEFINE w == PutU(m, a, n, v)
           rest == Shifted(v, n)
           high == Highest(w, a, n)
           back == [k \in 0..n |-> rest[n - k]]
<1>1. /\ rest \in [0..n -> Nat] /\ rest[0] = v /\ rest[n] = 0
      /\ \A k \in 1..n : rest[k] = rest[k - 1] \div Radix
  BY ShiftedDef DEF Fits
<1>2. /\ w \in [A -> Cell]
      /\ \A b \in A : a <= b /\ b < a + n => w[b] = rest[b - a] % Radix
  BY PutUType DEF Fits
<1> HIDE DEF w, rest
<1>3. Readable(w, a, n) BY <1>2 DEF Readable
<1>4. /\ high \in [0..n -> Nat] /\ high[0] = 0
      /\ \A k \in 1..n : high[k] = w[a + n - k] + Radix * high[k - 1]
  BY <1>3, HighestDef
<1> HIDE DEF high
<1>5. \A k \in 1..n : high[k - 1] = back[k - 1] => high[k] = back[k]
  <2> SUFFICES ASSUME NEW k \in 1..n, high[k - 1] = back[k - 1] PROVE high[k] = back[k] OBVIOUS
  <2> DEFINE i == n - k
  <2>1. i \in 0..n - 1 /\ i \in 0..n /\ i + 1 \in 1..n /\ i + 1 - 1 = i /\ n - (k - 1) = i + 1 /\ k - 1 \in 0..n /\ k \in 0..n
    OBVIOUS
  <2>2. back[k - 1] = rest[i + 1] /\ back[k] = rest[i] BY <2>1
  <2>3. rest[i + 1] = rest[i] \div Radix
    <3>1. rest[i + 1] = rest[i + 1 - 1] \div Radix BY <1>1, <2>1
    <3> QED BY <2>1, <3>1
  <2>4. a + n - k = a + i /\ a + i \in A /\ a <= a + i /\ a + i < a + n /\ (a + i) - a = i BY <2>1
  <2>5. w[a + n - k] = rest[i] % Radix BY <1>2, <2>4
  <2>6. rest[i] \in Nat BY <1>1, <2>1
  <2>7. rest[i] = (rest[i] % Radix) + Radix * (rest[i] \div Radix) BY <2>6, Division
  <2>8. high[k] = w[a + n - k] + Radix * high[k - 1] BY <1>4
  <2> QED BY <2>2, <2>3, <2>5, <2>7, <2>8
<1>6. high = back
  <2>1. back \in [0..n -> Nat]
    <3>1. \A k \in 0..n : n - k \in 0..n OBVIOUS
    <3> QED BY <1>1, <3>1
  <2>2. high = [k \in 0..n |-> high[k]] BY <1>4
  <2>3. high[0] = back[0] BY <1>1, <1>4
  <2> HIDE DEF back
  <2>4. IsFrom0To(high, n) /\ IsFrom0To(back, n) /\ InStep(high, back, n)
    BY <1>5, <2>1, <2>2, <2>3 DEF IsFrom0To, InStep
  <2> QED BY <2>4, SameFunction
<1>7. high[n] = v BY <1>1, <1>6
<1> QED BY <1>7 DEF GetU, high, w
=============================================================================
