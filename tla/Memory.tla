------------------------------- MODULE Memory -------------------------------
(***************************************************************************)
(* The VM's flat memory (VM.memory in src/src/vm.c): a function from       *)
(* addresses to cells.  A cell is a byte; Radix is how many values it      *)
(* takes: 256 in the code, less in a scaled-down instance.                 *)
(* memcpy of a uint32_t in or out is a little-endian store or load.  The   *)
(* arithmetic is C's, in numbers of so many cells.                         *)
(***************************************************************************)
EXTENDS Integers

CONSTANT Radix

ASSUME RadixAssumption == Radix \in Nat \ {0, 1}

\* The value of the k highest of the n cells at a.
Highest(m, a, n) ==
  LET high[k \in 0..n] == IF k = 0 THEN 0 ELSE m[a + n - k] + Radix * high[k - 1]
  IN high

\* The n cells at a, as an unsigned number.
GetU(m, a, n) == Highest(m, a, n)[n]

\* What is left of v when its k lowest digits are shifted out.
Shifted(v, n) ==
  LET rest[k \in 0..n] == IF k = 0 THEN v ELSE rest[k - 1] \div Radix
  IN rest

\* Memory m after the n low digits of v are stored at a.
PutU(m, a, n, v) ==
  [b \in DOMAIN m |->
     IF a <= b /\ b < a + n THEN Shifted(v, n)[b - a] % Radix ELSE m[b]]

\* A number kept in n cells, read as an unsigned and as a two's complement number.
Unsigned(x, n) == x % (Radix ^ n)
Signed(x, n) == LET half == (Radix ^ n) \div 2
                IN ((x + half) % (Radix ^ n)) - half

\* C division truncates toward zero.
Abs(x) == IF x < 0 THEN -x ELSE x
Quot(x, y) == LET q == Abs(x) \div Abs(y) IN IF (x < 0) = (y < 0) THEN q ELSE -q
Rem(x, y) == x - y * Quot(x, y)
=============================================================================
