--------------------------- MODULE ScannerProofs ---------------------------
(***************************************************************************)
(* What the scanner does with any text, well formed or not: it moves on,   *)
(* stays in the text, and reports every error once and in the order of the *)
(* text.  This is all LexerProofs asks of a scanner (KeepsTo).             *)
(*                                                                         *)
(* The scanner is recursive over positions.  A recursive function is       *)
(* defined by an equation; that the equation has a solution is shown by    *)
(* building it position by position.                                       *)
(***************************************************************************)
EXTENDS Scanner, SequenceTheorems, WellFoundedInduction, TLAPS

\* A set of numbers with an element has a least one.
LEMMA Least ==
  ASSUME NEW T \in SUBSET Nat, T # {}
  PROVE  \E x \in T : \A y \in T : x <= y
<1> DEFINE R == OpToRel(<, Nat)
<1>1. IsWellFoundedOn(R, Nat) BY NatLessThanWellFounded
<1>2. PICK x \in T : \A y \in T : ~(<<y, x>> \in R) BY <1>1, WFMin
<1>3. \A y \in T : ~(y < x)
  <2> TAKE y \in T
  <2>1. x \in Nat /\ y \in Nat OBVIOUS
  <2> QED BY <1>2, <2>1 DEF OpToRel
<1>4. \A y \in T : x <= y
  <2> TAKE y \in T
  <2>1. x \in Nat /\ y \in Nat OBVIOUS
  <2> QED BY <1>3, <2>1
<1> QED BY <1>4

\* A set that has 0, and with each number below n the next one, has all up to n.
LEMMA UpTo ==
  ASSUME NEW n \in Nat, NEW S, 0 \in S, \A k \in 0..n - 1 : k \in S => k + 1 \in S
  PROVE  \A k \in 0..n : k \in S
<1> DEFINE T == {k \in 0..n : k \notin S}
<1>1. SUFFICES ASSUME T # {} PROVE FALSE OBVIOUS
<1>2. PICK x \in T : \A y \in T : x <= y
  <2>1. T \in SUBSET Nat OBVIOUS
  <2> HIDE DEF T
  <2> QED BY <1>1, <2>1, Least
<1>3. x \in 1..n OBVIOUS
<1>4. x - 1 \in 0..n - 1 /\ x - 1 \in 0..n /\ ~(x <= x - 1) BY <1>3
<1>5. x - 1 \in S BY <1>2, <1>4
<1>6. x - 1 + 1 \in S BY <1>4, <1>5
<1>7. x - 1 + 1 = x BY <1>3
<1> QED BY <1>6, <1>7

\* The same downwards: what holds at n, and below each number above k, holds from k on.
LEMMA DownTo ==
  ASSUME NEW n \in Nat, NEW k \in 1..n, NEW S, n \in S, \A j \in 1..n - 1 : j + 1 \in S => j \in S
  PROVE  k \in S
<1> DEFINE T == {j \in 0..n - 1 : n - j \in S}
<1>1. 0 \in T OBVIOUS
<1>2. ASSUME NEW j \in 0..n - 1 - 1, j \in T PROVE j + 1 \in T
  <2>1. n - j \in S /\ n - (j + 1) \in 1..n - 1 /\ n - (j + 1) + 1 = n - j BY <1>2
  <2>2. n - (j + 1) \in S BY <2>1
  <2> QED BY <2>2
<1>3. n - 1 \in Nat /\ n - k \in 0..n - 1 /\ n - (n - k) = k OBVIOUS
<1> HIDE DEF T
<1>4. \A j \in 0..n - 1 : j \in T BY <1>1, <1>2, <1>3, UpTo
<1>5. n - k \in T BY <1>3, <1>4
<1>6. n - (n - k) \in S BY <1>5 DEF T
<1> QED BY <1>3, <1>6

-----------------------------------------------------------------------------
\* The cursor.
IsCursor(c) == c \in Cursors

LEMMA AdvanceMoves ==
  ASSUME NEW t, NEW c, IsCursor(c)
  PROVE  /\ IsCursor(Advance(t, c)) /\ Advance(t, c).pos = c.pos + 1
         /\ Before(c, Advance(t, c))
BY DEF Advance, IsCursor, Cursors, Before

\* after of Advanced, up to n.
Run(g, t, c, n) == g = [k \in 0..n |-> IF k = 0 THEN c ELSE Advance(t, g[k - 1])]

LEMMA AdvancedRuns ==
  ASSUME NEW t, NEW c, NEW n \in Nat
  PROVE  \E g : Run(g, t, c, n) /\ Advanced(t, c, n) = g[n]
<1> DEFINE S == {m \in 0..n : \E g : Run(g, t, c, m)}
           P(g) == g = [k \in 0..n |-> IF k = 0 THEN c ELSE Advance(t, g[k - 1])]
<1>1. 0 \in S
  <2> DEFINE g == [k \in 0..0 |-> c]
  <2>1. Run(g, t, c, 0) BY DEF Run
  <2>2. 0 \in 0..n OBVIOUS
  <2> HIDE DEF g
  <2> QED BY <2>1, <2>2
<1>2. ASSUME NEW m \in 0..n - 1, m \in S PROVE m + 1 \in S
  <2>1. PICK g : Run(g, t, c, m) BY <1>2
  <2> DEFINE h == [k \in 0..m + 1 |-> IF k = m + 1 THEN Advance(t, g[m]) ELSE g[k]]
  <2>2. ASSUME NEW k \in 0..m + 1
        PROVE  h[k] = IF k = 0 THEN c ELSE Advance(t, h[k - 1])
    <3>1. CASE k = m + 1
      <4>1. k # 0 /\ k - 1 = m /\ m \in 0..m + 1 /\ m # m + 1 BY <3>1
      <4>2. h[k] = Advance(t, g[m]) /\ h[m] = g[m] BY <3>1, <4>1
      <4> QED BY <4>1, <4>2
    <3>2. CASE k = 0
      <4>1. h[0] = g[0] /\ 0 \in 0..m BY <3>2
      <4>2. g[0] = c BY <2>1, <4>1 DEF Run
      <4> QED BY <3>2, <4>1, <4>2
    <3>3. CASE k # m + 1 /\ k # 0
      <4>1. k \in 0..m /\ k - 1 \in 0..m + 1 /\ k - 1 # m + 1 BY <3>3
      <4>2. h[k] = g[k] /\ h[k - 1] = g[k - 1] BY <3>3, <4>1
      <4>3. g[k] = Advance(t, g[k - 1]) BY <2>1, <3>3, <4>1 DEF Run
      <4> QED BY <3>3, <4>2, <4>3
    <3> QED BY <3>1, <3>2, <3>3
  <2>3. h = [k \in 0..m + 1 |-> h[k]] OBVIOUS
  <2>4. m + 1 \in 0..n BY <1>2
  <2> HIDE DEF h
  <2>5. Run(h, t, c, m + 1) BY <2>2, <2>3 DEF Run
  <2> QED BY <2>4, <2>5
<1>3. n \in S
  <2>1. \A m \in 0..n - 1 : m \in S => m + 1 \in S BY <1>2
  <2>2. n \in 0..n OBVIOUS
  <2> HIDE DEF S
  <2>3. \A m \in 0..n : m \in S BY <1>1, <2>1, UpTo
  <2> QED BY <2>2, <2>3
<1>4. PICK g : P(g) BY <1>3 DEF Run
<1>5. P(CHOOSE q : P(q)) BY <1>4
<1> HIDE DEF P
<1> DEFINE f == CHOOSE q : P(q)
<1>6. Advanced(t, c, n) = f[n] BY DEF Advanced, P
<1>7. Run(f, t, c, n) BY <1>5 DEF P, Run
<1> QED BY <1>6, <1>7

LEMMA RunsAgree ==
  ASSUME NEW t, NEW c, NEW n \in Nat, NEW m \in Nat, n <= m, NEW g, NEW h,
         Run(g, t, c, n), Run(h, t, c, m)
  PROVE  g[n] = h[n]
<1> DEFINE S == {k \in 0..n : g[k] = h[k]}
<1>1. 0 \in S
  <2>1. 0 \in 0..n /\ 0 \in 0..m OBVIOUS
  <2> QED BY <2>1 DEF Run
<1>2. ASSUME NEW k \in 0..n - 1, k \in S PROVE k + 1 \in S
  <2>1. k + 1 \in 0..n /\ k + 1 \in 0..m /\ k + 1 # 0 /\ k + 1 - 1 = k BY <1>2
  <2>2. g[k + 1] = Advance(t, g[k]) BY <2>1 DEF Run
  <2>3. h[k + 1] = Advance(t, h[k]) BY <2>1 DEF Run
  <2> QED BY <1>2, <2>1, <2>2, <2>3
<1>3. n \in 0..n OBVIOUS
<1> HIDE DEF S
<1>4. \A k \in 0..n : k \in S BY <1>1, <1>2, UpTo
<1> QED BY <1>3, <1>4 DEF S

LEMMA AdvancedSteps ==
  ASSUME NEW t, NEW c
  PROVE  /\ Advanced(t, c, 0) = c
         /\ \A n \in Nat : Advanced(t, c, n + 1) = Advance(t, Advanced(t, c, n))
<1>1. Advanced(t, c, 0) = c
  <2>1. PICK g : Run(g, t, c, 0) /\ Advanced(t, c, 0) = g[0] BY AdvancedRuns
  <2> QED BY <2>1 DEF Run
<1>2. ASSUME NEW n \in Nat PROVE Advanced(t, c, n + 1) = Advance(t, Advanced(t, c, n))
  <2>1. PICK g : Run(g, t, c, n) /\ Advanced(t, c, n) = g[n] BY AdvancedRuns
  <2>2. n + 1 \in Nat /\ n <= n + 1 /\ n + 1 # 0 /\ n + 1 - 1 = n /\ n + 1 \in 0..n + 1
    OBVIOUS
  <2>3. PICK h : Run(h, t, c, n + 1) /\ Advanced(t, c, n + 1) = h[n + 1] BY <2>2, AdvancedRuns
  <2>4. h[n + 1] = Advance(t, h[n]) BY <2>2, <2>3 DEF Run
  <2>5. g[n] = h[n] BY <2>1, <2>2, <2>3, RunsAgree
  <2> QED BY <2>1, <2>3, <2>4, <2>5
<1> QED BY <1>1, <1>2

\* Places grow with positions.
LEMMA CursorAtMoves ==
  ASSUME NEW t, NEW p \in Nat \ {0}
  PROVE  /\ IsCursor(CursorAt(t, p)) /\ CursorAt(t, p).pos = p
         /\ CursorAt(t, 1) = Start
         /\ CursorAt(t, p + 1) = Advance(t, CursorAt(t, p))
<1> DEFINE C(k) == IsCursor(Advanced(t, Start, k)) /\ Advanced(t, Start, k).pos = k + 1
           n == p - 1
           S == {k \in 0..n : C(k)}
<1>1. n \in Nat /\ n \in 0..n /\ p + 1 - 1 = n + 1 /\ n + 1 = p /\ 1 - 1 = 0 OBVIOUS
<1>2. C(0) BY AdvancedSteps DEF IsCursor, Cursors, Start
<1>3. ASSUME NEW k \in Nat, C(k) PROVE C(k + 1)
  <2> DEFINE c == Advanced(t, Start, k)
  <2>1. Advanced(t, Start, k + 1) = Advance(t, c) BY AdvancedSteps
  <2>2. IsCursor(c) /\ c.pos = k + 1 BY <1>3
  <2> HIDE DEF c
  <2>3. IsCursor(Advance(t, c)) /\ Advance(t, c).pos = (k + 1) + 1 BY <2>2, AdvanceMoves
  <2> QED BY <2>1, <2>3
<1>4. 0 \in S BY <1>1, <1>2
<1>5. \A k \in 0..n - 1 : k \in S => k + 1 \in S BY <1>3
<1> HIDE DEF S, n
<1>6. \A k \in 0..n : k \in S BY <1>1, <1>4, <1>5, UpTo
<1>7. C(n) BY <1>1, <1>6 DEF S
<1>8. CursorAt(t, 1) = Start BY <1>1, AdvancedSteps DEF CursorAt
<1>9. CursorAt(t, p) = Advanced(t, Start, n) BY DEF CursorAt, n
<1>10. CursorAt(t, p + 1) = Advanced(t, Start, n + 1) BY <1>1 DEF CursorAt
<1>11. Advanced(t, Start, n + 1) = Advance(t, Advanced(t, Start, n)) BY <1>1, AdvancedSteps
<1> QED BY <1>1, <1>7, <1>8, <1>9, <1>10, <1>11

\* From the cursor at p one gets to the cursor at q, which is later.
LEMMA CursorMoves ==
  ASSUME NEW t, NEW p \in Nat \ {0}, NEW n \in Nat
  PROVE  /\ Advanced(t, CursorAt(t, p), n) = CursorAt(t, p + n)
         /\ ~Before(CursorAt(t, p + n), CursorAt(t, p))
         /\ n # 0 => Before(CursorAt(t, p), CursorAt(t, p + n))
<1> DEFINE C(k) == /\ Advanced(t, CursorAt(t, p), k) = CursorAt(t, p + k)
                   /\ k # 0 => Before(CursorAt(t, p), CursorAt(t, p + k))
           S == {k \in 0..n : C(k)}
<1>1. IsCursor(CursorAt(t, p)) BY CursorAtMoves
<1>2. C(0)
  <2>1. p + 0 = p OBVIOUS
  <2> QED BY <2>1, AdvancedSteps
<1>3. ASSUME NEW k \in Nat, C(k) PROVE C(k + 1)
  <2> DEFINE a == CursorAt(t, p)
             b == CursorAt(t, p + k)
             c == CursorAt(t, p + (k + 1))
  <2>1. p + k \in Nat \ {0} /\ p + (k + 1) = (p + k) + 1 OBVIOUS
  <2>2. Advanced(t, a, k + 1) = Advance(t, b) BY <1>3, AdvancedSteps
  <2>3. IsCursor(b) /\ c = Advance(t, b) BY <2>1, CursorAtMoves
  <2>4. Before(b, c) /\ IsCursor(c) BY <2>3, AdvanceMoves
  <2>5. a = b \/ Before(a, b)
    <3>1. CASE k = 0
      <4>1. p + k = p BY <3>1
      <4> QED BY <4>1
    <3>2. CASE k # 0 BY <1>3, <3>2
    <3> QED BY <3>1, <3>2
  <2> HIDE DEF a, b, c
  <2>6. Before(a, c) BY <1>1, <2>3, <2>4, <2>5 DEF Before, IsCursor, Cursors, a
  <2> QED BY <2>2, <2>3, <2>6 DEF a, c
<1>4. 0 \in S /\ n \in 0..n BY <1>2
<1>5. \A k \in 0..n - 1 : k \in S => k + 1 \in S BY <1>3
<1> HIDE DEF S
<1>6. \A k \in 0..n : k \in S BY <1>4, <1>5, UpTo
<1>7. C(n) BY <1>4, <1>6 DEF S
<1>8. ~Before(CursorAt(t, p + n), CursorAt(t, p))
  <2> DEFINE a == CursorAt(t, p)
             b == CursorAt(t, p + n)
  <2>1. IsCursor(a) /\ IsCursor(b)
    <3>1. p + n \in Nat \ {0} OBVIOUS
    <3> QED BY <1>1, <3>1, CursorAtMoves
  <2>2. a = b \/ Before(a, b)
    <3>1. CASE n = 0
      <4>1. p + n = p BY <3>1
      <4> QED BY <4>1
    <3>2. CASE n # 0 BY <1>7, <3>2
    <3> QED BY <3>1, <3>2
  <2> HIDE DEF a, b
  <2>3. ~Before(b, a) BY <2>1, <2>2 DEF Before, IsCursor, Cursors
  <2> QED BY <2>3 DEF a, b
<1> QED BY <1>7, <1>8

-----------------------------------------------------------------------------
\* A text that ends in a newline, with no letter that stands for its end.
Scannable == IsText(text) /\ NUL \notin Letters /\ MaxString \in Nat \ {0}
End == Len(text) + 1

LEMMA TextEnds ==
  ASSUME Scannable
  PROVE  /\ Len(text) \in Nat \ {0} /\ Positions(text) = 1..End /\ End \in Nat \ {0}
         /\ At(End) = NUL
         /\ \A p \in Positions(text) : At(p) # NUL => p < End /\ p + 1 \in Positions(text)
         /\ \A p \in Positions(text) : At(p) \notin {NUL, "\n"} => p + 2 \in Positions(text)
<1>1. text \in Seq(STRING) /\ text # <<>> /\ text[Len(text)] = "\n" BY DEF Scannable, IsText
<1>2. Len(text) \in Nat \ {0} /\ DOMAIN text = 1..Len(text) BY <1>1
<1>3. Positions(text) = 1..End /\ End \in Nat \ {0} /\ End = Len(text) + 1
  BY <1>2 DEF Positions, End
<1>4. End \notin DOMAIN text BY <1>2, <1>3
<1>5. At(End) = NUL BY <1>4 DEF At
<1>6. ASSUME NEW p \in Positions(text), At(p) # NUL PROVE p \in 1..Len(text)
  BY <1>2, <1>6 DEF At
<1>7. ASSUME NEW p \in Positions(text), At(p) # NUL PROVE p < End /\ p + 1 \in Positions(text)
  BY <1>2, <1>3, <1>6, <1>7
<1>8. ASSUME NEW p \in Positions(text), At(p) \notin {NUL, "\n"} PROVE p + 2 \in Positions(text)
  <2>1. p \in 1..Len(text) BY <1>6, <1>8
  <2>2. At(p) = text[p] BY <1>2, <2>1 DEF At
  <2>3. p # Len(text) BY <1>1, <1>8, <2>2
  <2> DEFINE n == Len(text)
  <2>4. n \in Nat /\ p \in 1..n /\ p # n BY <1>2, <2>1, <2>3
  <2> HIDE DEF n
  <2>5. p + 2 \in 1..n + 1 BY <2>4
  <2> QED BY <2>5 DEF Positions, n
<1> QED BY <1>2, <1>3, <1>5, <1>7, <1>8

\* From the end backwards: what holds of a position when it holds of all behind it.
LEMMA Backwards ==
  ASSUME Scannable, NEW S, \A q \in 1..End : (\A x \in q + 1..End : x \in S) => q \in S
  PROVE  \A q \in 1..End : q \in S
<1> DEFINE T == {j \in 1..End : \A q \in j..End : q \in S}
<1>1. End \in Nat \ {0} BY TextEnds
<1>2. End \in T
  <2>1. End \in 1..End /\ \A x \in End + 1..End : FALSE BY <1>1
  <2>2. End \in S BY <2>1
  <2>3. \A q \in End..End : q = End BY <1>1
  <2> QED BY <2>1, <2>2, <2>3
<1>3. ASSUME NEW j \in 1..End - 1, j + 1 \in T PROVE j \in T
  <2>1. j \in 1..End BY <1>1
  <2>2. j \in S BY <1>3, <2>1
  <2>3. \A q \in j..End : q = j \/ q \in j + 1..End BY <1>1
  <2> QED BY <1>3, <2>1, <2>2, <2>3
<1> HIDE DEF T
<1>4. 1 \in 1..End BY <1>1
<1>5. 1 \in T BY <1>1, <1>2, <1>3, <1>4, DownTo
<1> QED BY <1>5 DEF T

\* The first position with what is looked for, when there is one.
LEMMA MinIs ==
  ASSUME NEW T \in SUBSET Nat, T # {}
  PROVE  Min(T) \in T
<1>1. \E x \in T : \A y \in T : x =< y BY Least
<1> QED BY <1>1 DEF Min

LEMMA PastMoves ==
  ASSUME Scannable, NEW p \in Positions(text), NEW S, NUL \notin S
  PROVE  Past(p, S) \in p..End /\ (At(p) \in S => Past(p, S) \in p + 1..End)
<1> DEFINE T == {q \in p..Len(text) + 1 : At(q) \notin S}
<1>1. End \in T BY TextEnds DEF End
<1>2. T \in SUBSET Nat BY TextEnds
<1>3. Past(p, S) = Min(T) BY DEF Past
<1> HIDE DEF T
<1>4. Past(p, S) \in T BY <1>1, <1>2, <1>3, MinIs
<1>5. Past(p, S) \in p..End /\ At(Past(p, S)) \notin S BY <1>4 DEF T, End
<1>6. p \in Nat /\ End \in Nat BY TextEnds
<1> QED BY <1>5, <1>6

LEMMA UptoMoves ==
  ASSUME Scannable, NEW p \in Positions(text), NEW S
  PROVE  Upto(p, S) \in p..End /\ (At(p) \notin S \cup {NUL} => Upto(p, S) \in p + 1..End)
<1> DEFINE T == {q \in p..Len(text) + 1 : At(q) \in S \cup {NUL}}
<1>1. End \in T BY TextEnds DEF End
<1>2. T \in SUBSET Nat BY TextEnds
<1>3. Upto(p, S) = Min(T) BY DEF Upto
<1> HIDE DEF T
<1>4. Upto(p, S) \in T BY <1>1, <1>2, <1>3, MinIs
<1>5. Upto(p, S) \in p..End /\ At(Upto(p, S)) \in S \cup {NUL} BY <1>4 DEF T, End
<1>6. p \in Nat /\ End \in Nat BY TextEnds
<1> QED BY <1>5, <1>6

LEMMA CommentEndMoves ==
  ASSUME Scannable, NEW p \in Positions(text), p + 2 \in Positions(text)
  PROVE  CommentEnd(p) \in p + 2..End
<1> DEFINE T == {q \in p + 2..Len(text) + 1 :
                   At(q) = NUL \/ (q >= p + 4 /\ At(q - 2) = "*" /\ At(q - 1) = "/")}
<1>1. End \in T BY TextEnds DEF End
<1>2. T \in SUBSET Nat BY TextEnds
<1>3. CommentEnd(p) = Min(T) BY DEF CommentEnd
<1> HIDE DEF T
<1>4. CommentEnd(p) \in T BY <1>1, <1>2, <1>3, MinIs
<1> QED BY <1>4 DEF T, End

\* The end of the text is no character of a word, a number or a blank.
LEMMA NulEnds ==
  ASSUME Scannable
  PROVE  NUL \notin White /\ NUL \notin Digits /\ NUL \notin Alpha /\ NUL \notin Alpha \cup Digits
<1>1. \A k \in 1..10 : Lower[k] # NUL BY DEF Lower, NUL
<1>2. NUL \notin Digits BY <1>1 DEF Digits
<1>3. NUL \notin Alpha BY DEF Scannable, Alpha, NUL
<1>4. NUL \notin White BY DEF White, NUL
<1> QED BY <1>2, <1>3, <1>4

LEMMA NulNoHex == NUL \notin HexDigits
<1>1. \A k \in 1..16 : Lower[k] # NUL BY DEF Lower, NUL
<1>2. \A k \in 1..16 : Upper[k] # NUL
  <2> DEFINE S == {Lower[k] : k \in 1..16}
             T == {"A", "B", "C", "D", "E", "F"}
             low == SubSeq(Lower, 1, 10)
             high == <<"A", "B", "C", "D", "E", "F">>
  <2>1. \A k \in 1..10 : Lower[k] \in S OBVIOUS
  <2>2. low \in Seq(S) /\ Len(low) = 10
    <3> HIDE DEF S
    <3> QED BY <2>1, SubSeqProperties
  <2>3. high \in Seq(T) /\ Len(high) = 6 OBVIOUS
  <2>4. NUL \notin S BY <1>1
  <2>5. NUL \notin T BY DEF NUL
  <2> HIDE DEF S, T, low, high
  <2>6. low \in Seq(S \cup T) /\ high \in Seq(S \cup T) BY <2>2, <2>3
  <2>7. Upper \in Seq(S \cup T) /\ Len(Upper) = 16 BY <2>2, <2>3, <2>6 DEF Upper, low, high
  <2> DEFINE A == S \cup T
  <2>8. NUL \notin A BY <2>4, <2>5
  <2>9. Upper \in Seq(A) /\ Len(Upper) = 16 BY <2>7
  <2> HIDE DEF A
  <2>10. \A k \in 1..Len(Upper) : Upper[k] \in A
    <3> DEFINE u == Upper
    <3>1. u \in Seq(A) BY <2>9
    <3> HIDE DEF u
    <3>2. \A k \in 1..Len(u) : u[k] \in A BY <3>1, ElementOfSeq
    <3> QED BY <3>2 DEF u
  <2> QED BY <2>8, <2>9, <2>10
<1> QED BY <1>1, <1>2 DEF HexDigits

-----------------------------------------------------------------------------
LEMMA QuoteIsNoEnd == Quote \notin {NUL, "\n"}
BY Zenon DEF Quote, NUL

\* What is reported from lo on and before hi: in the order of the text, and
\* never the same twice.
Earlier(a, b) == a.at < b.at \/ (a.at = b.at /\ a.why # b.why)
Between(lo, hi) == [at : lo..hi - 1, why : Reasons]
Reports(errs, lo, hi) ==
  /\ errs \in Seq(Between(lo, hi))
  /\ \A j, k \in 1..Len(errs) : j < k => Earlier(errs[j], errs[k])

LEMMA OneElement ==
  ASSUME NEW S, NEW a \in S
  PROVE  <<a>> \in Seq(S) /\ Len(<<a>>) = 1 /\ <<a>>[1] = a
OBVIOUS

LEMMA TwoElements ==
  ASSUME NEW S, NEW e \in Seq(S), NEW f \in Seq(S), Len(e) = 1, Len(f) = 1
  PROVE  /\ e \o f \in Seq(S) /\ Len(e \o f) = 2
         /\ (e \o f)[1] = e[1] /\ (e \o f)[2] = f[1]
<1>1. e \o f \in Seq(S) /\ Len(e \o f) = Len(e) + Len(f) BY ConcatProperties
<1>2. \A k \in 1..Len(e) + Len(f) : (e \o f)[k] = IF k <= Len(e) THEN e[k] ELSE f[k - Len(e)]
  BY ConcatProperties
<1>3. 1 \in 1..Len(e) + Len(f) /\ 2 \in 1..Len(e) + Len(f) /\ 2 - Len(e) = 1 /\ ~(2 <= Len(e))
  OBVIOUS
<1>4. (e \o f)[1] = e[1] BY <1>2, <1>3
<1>5. (e \o f)[2] = f[1] BY <1>2, <1>3
<1> QED BY <1>1, <1>4, <1>5

\* No report or one, at p and for a reason of W.
AtMostOne(errs, p, W) == errs = <<>> \/ \E w \in W : errs = <<Err(p, w)>>

LEMMA FewReports ==
  ASSUME NEW lo \in Int, NEW hi \in Int, NEW p \in lo..hi - 1, NEW W \in SUBSET Reasons,
         NEW errs, AtMostOne(errs, p, W)
  PROVE  Reports(errs, lo, hi)
<1>1. CASE errs = <<>> BY <1>1 DEF Reports
<1>2. CASE \E w \in W : errs = <<Err(p, w)>>
  <2>1. PICK w \in W : errs = <<Err(p, w)>> BY <1>2
  <2>2. Err(p, w) \in Between(lo, hi) BY DEF Err, Between
  <2>3. errs \in Seq(Between(lo, hi)) /\ Len(errs) = 1 BY <2>1, <2>2, OneElement
  <2> QED BY <2>3 DEF Reports
<1> QED BY <1>1, <1>2 DEF AtMostOne

LEMMA ReportsJoin ==
  ASSUME NEW lo \in Int, NEW mid \in Int, NEW hi \in Int, lo <= mid, mid <= hi,
         NEW e, NEW f, Reports(e, lo, mid), Reports(f, mid, hi)
  PROVE  Reports(e \o f, lo, hi)
<1> DEFINE R == Between(lo, hi)
           g == e \o f
<1>1. e \in Seq(R)
  <2>1. e \in Seq(Between(lo, mid)) BY DEF Reports
  <2>2. \A k \in 1..Len(e) : e[k] \in R
    <3> TAKE k \in 1..Len(e)
    <3>1. e[k] \in Between(lo, mid) BY <2>1
    <3> QED BY <3>1 DEF Between
  <2> HIDE DEF R
  <2> QED BY <2>1, <2>2
<1>2. f \in Seq(R)
  <2>1. f \in Seq(Between(mid, hi)) BY DEF Reports
  <2>2. \A k \in 1..Len(f) : f[k] \in R
    <3> TAKE k \in 1..Len(f)
    <3>1. f[k] \in Between(mid, hi) BY <2>1
    <3> QED BY <3>1 DEF Between
  <2> HIDE DEF R
  <2> QED BY <2>1, <2>2
<1>3. \A k \in 1..Len(e) : e[k].at < mid
  <2> TAKE k \in 1..Len(e)
  <2>1. e \in Seq(Between(lo, mid)) BY DEF Reports
  <2>2. e[k] \in Between(lo, mid) BY <2>1
  <2> QED BY <2>2 DEF Between
<1>4. \A k \in 1..Len(f) : mid <= f[k].at
  <2> TAKE k \in 1..Len(f)
  <2>1. f \in Seq(Between(mid, hi)) BY DEF Reports
  <2>2. f[k] \in Between(mid, hi) BY <2>1
  <2> QED BY <2>2 DEF Between
<1>5. \A k \in 1..Len(e) : e[k] \in R BY <1>1
<1>6. \A k \in 1..Len(f) : f[k] \in R BY <1>2
<1> HIDE DEF R
<1>7. Len(e) \in Nat /\ Len(f) \in Nat BY <1>1, <1>2
<1>8. g \in Seq(R) /\ Len(g) = Len(e) + Len(f) BY <1>1, <1>2
<1>9. \A k \in 1..Len(g) :
        \/ k \in 1..Len(e) /\ g[k] = e[k]
        \/ k - Len(e) \in 1..Len(f) /\ ~(k <= Len(e)) /\ g[k] = f[k - Len(e)]
  BY <1>1, <1>2, <1>7, <1>8
<1>10. ASSUME NEW j \in 1..Len(g), NEW k \in 1..Len(g), j < k PROVE Earlier(g[j], g[k])
  <2>1. j \in Int /\ k \in Int /\ Len(e) \in Nat BY <1>7, <1>8
  <2>2. CASE k \in 1..Len(e)
    <3>1. j \in 1..Len(e) BY <1>10, <2>1, <2>2
    <3>2. g[j] = e[j] /\ g[k] = e[k] BY <1>9, <2>1, <2>2, <3>1
    <3> QED BY <1>10, <2>2, <3>1, <3>2 DEF Reports
  <2>3. CASE j \in 1..Len(e) /\ k \notin 1..Len(e)
    <3>1. g[j] = e[j] BY <1>9, <2>1, <2>3
    <3>2. k - Len(e) \in 1..Len(f) /\ g[k] = f[k - Len(e)] BY <1>9, <2>3
    <3>3. e[j].at < mid /\ mid <= f[k - Len(e)].at BY <1>3, <1>4, <2>3, <3>2
    <3>4. e[j].at \in Int /\ f[k - Len(e)].at \in Int
      <4>1. e[j] \in R /\ f[k - Len(e)] \in R BY <1>5, <1>6, <2>3, <3>2
      <4> QED BY <4>1 DEF R, Between
    <3>5. e[j].at < f[k - Len(e)].at BY <3>3, <3>4
    <3> QED BY <3>1, <3>2, <3>5 DEF Earlier
  <2>4. CASE j \notin 1..Len(e)
    <3>1. k \notin 1..Len(e) BY <1>10, <2>1, <2>4
    <3>2. j - Len(e) \in 1..Len(f) /\ g[j] = f[j - Len(e)] BY <1>9, <2>4
    <3>3. k - Len(e) \in 1..Len(f) /\ g[k] = f[k - Len(e)] BY <1>9, <3>1
    <3>4. j - Len(e) < k - Len(e) BY <1>10, <2>1
    <3> QED BY <3>2, <3>3, <3>4 DEF Reports
  <2> QED BY <2>2, <2>3, <2>4
<1> HIDE DEF g
<1>11. Reports(g, lo, hi) BY <1>8, <1>10 DEF Reports, R
<1> QED BY <1>11 DEF g

LEMMA ReportsWiden ==
  ASSUME NEW a \in Int, NEW lo \in Int, NEW hi \in Int, NEW b \in Int, a <= lo, hi <= b,
         NEW e, Reports(e, lo, hi)
  PROVE  Reports(e, a, b)
<1>1. e \in Seq(Between(lo, hi)) BY DEF Reports
<1>2. \A k \in 1..Len(e) : e[k] \in Between(a, b)
  <2> TAKE k \in 1..Len(e)
  <2>1. e[k] \in Between(lo, hi) BY <1>1
  <2> QED BY <2>1 DEF Between
<1>3. e \in Seq(Between(a, b)) BY <1>1, <1>2
<1> QED BY <1>3 DEF Reports

\* Two reports about the same place are for different reasons.
LEMMA TwoReports ==
  ASSUME NEW lo \in Int, NEW hi \in Int, NEW p \in lo..hi - 1,
         NEW V \in SUBSET Reasons, NEW W \in SUBSET Reasons, V \cap W = {},
         NEW e, NEW f, AtMostOne(e, p, V), AtMostOne(f, p, W)
  PROVE  Reports(e \o f, lo, hi)
<1>1. CASE e = <<>>
  <2>1. Reports(f, lo, hi) BY FewReports
  <2>2. e \o f = f BY <1>1, <2>1 DEF Reports
  <2> QED BY <2>1, <2>2
<1>2. CASE f = <<>>
  <2>1. Reports(e, lo, hi) BY FewReports
  <2>2. e \o f = e BY <1>2, <2>1 DEF Reports
  <2> QED BY <2>1, <2>2
<1>3. CASE e # <<>> /\ f # <<>>
  <2>1. PICK v \in V : e = <<Err(p, v)>> BY <1>3 DEF AtMostOne
  <2>2. PICK w \in W : f = <<Err(p, w)>> BY <1>3 DEF AtMostOne
  <2> DEFINE R == Between(lo, hi)
             g == e \o f
  <2>3. Err(p, v) \in R /\ Err(p, w) \in R /\ Earlier(Err(p, v), Err(p, w))
    BY DEF Err, Earlier, Between
  <2> HIDE DEF R
  <2>4. /\ e \in Seq(R) /\ Len(e) = 1 /\ e[1] = Err(p, v)
        /\ f \in Seq(R) /\ Len(f) = 1 /\ f[1] = Err(p, w)
    BY <2>1, <2>2, <2>3, OneElement
  <2>5. g \in Seq(R) /\ Len(g) = 2 /\ g[1] = e[1] /\ g[2] = f[1]
    <3>1. e \in Seq(R) /\ f \in Seq(R) /\ Len(e) = 1 /\ Len(f) = 1 BY <2>4
    <3> QED BY <3>1, TwoElements
  <2>6. Earlier(g[1], g[2]) BY <2>3, <2>4, <2>5
  <2> HIDE DEF g
  <2>7. \A j, k \in 1..Len(g) : j < k => Earlier(g[j], g[k])
    <3> TAKE j \in 1..Len(g), k \in 1..Len(g)
    <3> HAVE j < k
    <3>1. j = 1 /\ k = 2 BY <2>5
    <3> QED BY <2>6, <3>1
  <2>8. Reports(g, lo, hi) BY <2>5, <2>7 DEF Reports, R
  <2> QED BY <2>8 DEF g
<1> QED BY <1>1, <1>2, <1>3

-----------------------------------------------------------------------------
\* The lexemes: each is a token that begins at p, ends behind p and in the text,
\* and reports at places inside it.
Lexed(t, p) ==
  /\ t = [from |-> p, to |-> t.to, kind |-> t.kind, value |-> t.value, errs |-> t.errs]
  /\ t.to \in p + 1..End /\ t.kind \in Kinds
  /\ Reports(t.errs, p, t.to)

LEMMA TokIsLexed ==
  ASSUME Scannable, NEW p \in Positions(text), NEW q \in p + 1..End, NEW kind \in Kinds, NEW value,
         NEW errs, Reports(errs, p, q)
  PROVE  Lexed(Tok(p, q, kind, value, errs), p)
BY DEF Lexed, Tok

\* A token with at most one report, at its beginning.
LEMMA OneIsLexed ==
  ASSUME Scannable, NEW p \in Positions(text), NEW q \in p + 1..End, NEW kind \in Kinds, NEW value,
         NEW W \in SUBSET Reasons, NEW errs, AtMostOne(errs, p, W)
  PROVE  Lexed(Tok(p, q, kind, value, errs), p)
<1>1. p \in Int /\ q \in Int /\ p \in p..q - 1 BY TextEnds
<1>2. Reports(errs, p, q) BY <1>1, FewReports
<1> QED BY <1>2, TokIsLexed

LEMMA WordLexed ==
  ASSUME Scannable, NEW p \in Positions(text), At(p) \in Alpha
  PROVE  Lexed(Word(p), p)
<1> DEFINE q == Past(p, Alpha \cup Digits)
           w == Part(p, q)
           W == {"identifier too long"}
<1>1. q \in p + 1..End BY PastMoves, NulEnds
<1>2. "KEYWORD" \in Kinds /\ "IDENT" \in Kinds BY DEF Kinds
<1>3. W \in SUBSET Reasons BY DEF Reasons
<1>4. AtMostOne(<<>>, p, W) /\ AtMostOne(<<Err(p, "identifier too long")>>, p, W)
  BY DEF AtMostOne
<1> HIDE DEF q, w, W
<1>5. Lexed(Tok(p, q, "KEYWORD", [chars |-> w], <<>>), p) BY <1>1, <1>2, <1>3, <1>4, OneIsLexed
<1>6. Lexed(Tok(p, q, "IDENT", [chars |-> w], <<>>), p) BY <1>1, <1>2, <1>3, <1>4, OneIsLexed
<1>7. Lexed(Tok(p, q, "IDENT", [chars |-> Truncated(w, MaxIdent - 1)],
                <<Err(p, "identifier too long")>>), p)
  BY <1>1, <1>2, <1>3, <1>4, OneIsLexed
<1> QED BY <1>5, <1>6, <1>7 DEF Word, q, w

\* A fraction and an exponent are taken with their digits or not at all.
LEMMA FractionMoves ==
  ASSUME Scannable, NEW p \in Positions(text)
  PROVE  Fraction(p) \in p..End
<1>1. p \in Nat /\ p \in p..End BY TextEnds
<1>2. CASE At(p) = "." /\ At(p + 1) \in Digits
  <2>1. p + 1 \in Positions(text) BY <1>2, TextEnds DEF NUL
  <2>2. Past(p + 1, Digits) \in p + 1..End BY <2>1, PastMoves, NulEnds
  <2> QED BY <1>1, <1>2, <2>2 DEF Fraction
<1> QED BY <1>1, <1>2 DEF Fraction

LEMMA ExponentMoves ==
  ASSUME Scannable, NEW p \in Positions(text)
  PROVE  Exponent(p) \in p..End
<1> DEFINE digits == IF At(p + 1) \in {"+", "-"} THEN p + 2 ELSE p + 1
<1>1. p \in Nat /\ p \in p..End BY TextEnds
<1>2. CASE At(p) \in {"e", "E"} /\ At(digits) \in Digits
  <2>1. p + 1 \in Positions(text) /\ p + 2 \in Positions(text) BY <1>2, TextEnds DEF NUL
  <2>2. digits \in Positions(text) /\ digits >= p BY <1>1, <2>1
  <2> HIDE DEF digits
  <2>3. Past(digits, Digits) \in digits..End BY <2>2, PastMoves, NulEnds
  <2>4. Past(digits, Digits) \in p..End BY <1>1, <2>2, <2>3, TextEnds
  <2> QED BY <1>2, <2>4 DEF Exponent, digits
<1>3. CASE ~(At(p) \in {"e", "E"} /\ At(digits) \in Digits)
  BY <1>1, <1>3 DEF Exponent
<1> QED BY <1>2, <1>3

LEMMA NumberLexed ==
  ASSUME Scannable, NEW p \in Positions(text), At(p) \in Digits
  PROVE  Lexed(Number(p), p)
<1> DEFINE whole == Past(p, Digits)
           q == Exponent(Fraction(whole))
           buf == Truncated(Part(p, q), MaxNumber - 1)
           v == Strtoull(buf)
           Suffixed(s) == IF At(q) \in s THEN q + 1 ELSE q
           errs == IF Len(buf) >= MaxNumber - 1 THEN <<Err(p, "number too long")>> ELSE <<>>
           W == {"number too long"}
<1>1. p \in Nat /\ End \in Nat /\ Positions(text) = 1..End BY TextEnds
<1>2. whole \in p + 1..End BY PastMoves, NulEnds
<1>3. q \in p + 1..End /\ q \in Positions(text)
  <2>1. whole \in Positions(text) BY <1>1, <1>2
  <2> HIDE DEF whole
  <2>2. Fraction(whole) \in whole..End BY <2>1, FractionMoves
  <2> DEFINE f == Fraction(whole)
  <2>3. f \in p + 1..End /\ f \in Positions(text) BY <1>1, <1>2, <2>2
  <2> HIDE DEF f
  <2>4. Exponent(f) \in f..End BY <2>3, ExponentMoves
  <2>5. Exponent(f) \in p + 1..End /\ Exponent(f) \in Positions(text) BY <1>1, <2>3, <2>4
  <2> QED BY <2>5 DEF f
<1>4. AtMostOne(errs, p, W) /\ W \in SUBSET Reasons BY DEF AtMostOne, Reasons
<1> HIDE DEF whole, q, buf, v, errs, W
<1>5. ASSUME NEW s, NUL \notin s PROVE Suffixed(s) \in p + 1..End
  <2>1. CASE At(q) \in s
    <3>1. q < End BY <1>3, <1>5, <2>1, TextEnds
    <3>2. q + 1 \in p + 1..End BY <1>1, <1>3, <3>1
    <3> QED BY <2>1, <3>2
  <2> QED BY <1>3, <2>1
<1>6. NUL \notin {"f", "F"} /\ NUL \notin {"l", "L"} BY DEF NUL
<1>7. Suffixed({"f", "F"}) \in p + 1..End /\ Suffixed({"l", "L"}) \in p + 1..End BY <1>5, <1>6
<1>8. {"FLOAT", "DOUBLE", "LONG", "INT"} \subseteq Kinds BY DEF Kinds
<1> DEFINE kind == IF At(q) \in {"f", "F"} THEN "FLOAT" ELSE "DOUBLE"
           e == Suffixed({"f", "F"})
           l == Suffixed({"l", "L"})
<1>9. kind \in Kinds BY <1>8
<1>10. e \in p + 1..End /\ l \in p + 1..End BY <1>7
<1> HIDE DEF kind, e, l, Suffixed
<1>11. Lexed(Tok(p, e, kind, [chars |-> buf], errs), p) BY <1>4, <1>9, <1>10, OneIsLexed
<1>12. Lexed(Tok(p, l, "LONG", [int |-> SignedLong(v)], errs), p) BY <1>4, <1>8, <1>10, OneIsLexed
<1>13. Lexed(Tok(p, q, "INT", [int |-> v], errs), p) BY <1>3, <1>4, <1>8, OneIsLexed
<1>14. Number(p) = IF q # whole THEN Tok(p, e, kind, [chars |-> buf], errs)
                   ELSE IF At(q) \in {"l", "L"} \/ v > IntMax THEN Tok(p, l, "LONG", [int |-> SignedLong(v)], errs)
                   ELSE Tok(p, q, "INT", [int |-> v], errs)
  BY DEF Number, e, l, kind, errs, v, buf, q, whole, Suffixed
<1> QED BY <1>11, <1>12, <1>13, <1>14

-----------------------------------------------------------------------------
\* A character or an escape: what is taken moves on, what is not is reported once
\* where the literal begins, or is the end of the line.
EscapeErrors == {"invalid hex escape", "unknown escape"}
UnitMovesOn(u, p, at) ==
  /\ u.to \in p..End /\ u.ok \in BOOLEAN
  /\ u.ok => u.to \in p + 1..End /\ u.errs = <<>>
  /\ AtMostOne(u.errs, at, EscapeErrors)

LEMMA UnitMoves ==
  ASSUME Scannable, NEW p \in Positions(text), NEW at
  PROVE  UnitMovesOn(UnitAt(p, at), p, at)
<1> DEFINE c == At(p + 1)
<1>1. p \in Nat /\ End \in Nat /\ Positions(text) = 1..End BY TextEnds
<1>2. ASSUME NEW q \in p + 1..End, NEW value PROVE UnitMovesOn(Unit(q, value), p, at)
  BY <1>1, <1>2 DEF UnitMovesOn, Unit, AtMostOne
<1>3. ASSUME NEW q \in p..End, NEW errs, AtMostOne(errs, at, EscapeErrors)
      PROVE UnitMovesOn(BadUnit(q, errs), p, at)
  BY <1>3 DEF UnitMovesOn, BadUnit
<1>4. /\ AtMostOne(<<>>, at, EscapeErrors)
      /\ AtMostOne(<<Err(at, "invalid hex escape")>>, at, EscapeErrors)
      /\ AtMostOne(<<Err(at, "unknown escape")>>, at, EscapeErrors)
  BY DEF AtMostOne, EscapeErrors
<1>5. CASE At(p) \in {NUL, "\n"}
  <2>1. UnitAt(p, at) = BadUnit(p, <<>>) BY <1>5 DEF UnitAt
  <2>2. p \in p..End BY <1>1
  <2> QED BY <1>3, <1>4, <2>1, <2>2
<1>6. CASE At(p) \notin {NUL, "\n"} /\ At(p) # "\\"
  <2>1. UnitAt(p, at) = Unit(p + 1, <<At(p)>>) BY <1>6 DEF UnitAt
  <2>2. p + 1 \in p + 1..End BY <1>1, <1>6, TextEnds
  <2> QED BY <1>2, <2>1, <2>2
<1>7. CASE At(p) = "\\"
  <2>1. p + 2 \in Positions(text) BY <1>7, TextEnds DEF NUL
  <2>2. p + 2 \in p + 1..End /\ p + 2 \in p..End BY <1>1, <2>1
  <2>3. At(p) \notin {NUL, "\n"} BY <1>7 DEF NUL
  <2>4. UnitAt(p, at) = IF c \in DOMAIN Named THEN Unit(p + 2, Named[c])
                        ELSE IF c = "0" THEN Unit(p + 2, <<"NUL">>)
                        ELSE IF c \in {"\\", "'", Quote} THEN Unit(p + 2, <<c>>)
                        ELSE IF c = "x" THEN HexUnit(p + 2, at)
                        ELSE BadUnit(p + 2, <<Err(at, "unknown escape")>>)
    BY <1>7, <2>3 DEF UnitAt
  <2> HIDE DEF c
  <2>5. UnitMovesOn(HexUnit(p + 2, at), p, at)
    <3> DEFINE r == p + 2
    <3>1. r \in Positions(text) /\ r \in p + 1..End /\ r \in p..End BY <2>1, <2>2
    <3> HIDE DEF r
    <3>2. CASE At(r) \notin HexDigits
      <4>1. HexUnit(r, at) = BadUnit(r, <<Err(at, "invalid hex escape")>>) BY <3>2 DEF HexUnit
      <4> QED BY <1>3, <1>4, <3>1, <4>1 DEF r
    <3>3. CASE At(r) \in HexDigits /\ At(r + 1) \notin HexDigits
      <4>1. HexUnit(r, at) = Unit(r + 1, <<"byte", HexVal(At(r))>>) BY <3>3 DEF HexUnit
      <4>2. r + 1 \in Positions(text) BY <3>1, <3>3, TextEnds, NulNoHex
      <4>3. r + 1 \in p + 1..End BY <1>1, <3>1, <4>2
      <4> QED BY <1>2, <4>1, <4>3 DEF r
    <3>4. CASE At(r) \in HexDigits /\ At(r + 1) \in HexDigits
      <4>1. HexUnit(r, at) = Unit(r + 2, <<"byte", 16 * HexVal(At(r)) + HexVal(At(r + 1))>>)
        BY <3>4 DEF HexUnit
      <4>2. r + 1 \in Positions(text) BY <3>1, <3>4, TextEnds, NulNoHex
      <4>3. r + 1 < End BY <3>4, <4>2, TextEnds, NulNoHex
      <4>4. r + 2 \in p + 1..End BY <1>1, <3>1, <4>3
      <4> QED BY <1>2, <4>1, <4>4 DEF r
    <3> QED BY <3>2, <3>3, <3>4 DEF r
  <2>6. UnitMovesOn(BadUnit(p + 2, <<Err(at, "unknown escape")>>), p, at) BY <1>3, <1>4, <2>2
  <2>7. \A value : UnitMovesOn(Unit(p + 2, value), p, at) BY <1>2, <2>2
  <2> QED BY <2>4, <2>5, <2>6, <2>7
<1> QED BY <1>5, <1>6, <1>7

LEMMA CharacterLexed ==
  ASSUME Scannable, NEW p \in Positions(text), At(p) = "'"
  PROVE  Lexed(Character(p), p)
<1> DEFINE u == UnitAt(p + 1, p)
           stop == Upto(u.to, {"'", "\n"})
           value == [units |-> <<u.value>>]
           W == {"invalid character literal", "more than one character"}
           Tokened(q, why) == Tok(p, q, "CHAR", value, u.errs \o why)
<1>1. p \in Nat /\ End \in Nat /\ Positions(text) = 1..End BY TextEnds
<1>2. p + 1 \in Positions(text) BY TextEnds DEF NUL
<1>3. UnitMovesOn(u, p + 1, p) BY <1>2, UnitMoves
<1>4. "CHAR" \in Kinds /\ EscapeErrors \in SUBSET Reasons /\ W \in SUBSET Reasons
      /\ EscapeErrors \cap W = {}
  BY DEF Kinds, EscapeErrors, Reasons
<1>5. /\ AtMostOne(<<>>, p, W)
      /\ AtMostOne(<<Err(p, "invalid character literal")>>, p, W)
      /\ AtMostOne(<<Err(p, "more than one character")>>, p, W)
  BY DEF AtMostOne
<1> HIDE DEF W, value, u
<1>6. u.to \in p + 1..End /\ u.to \in Positions(text) BY <1>1, <1>3 DEF UnitMovesOn
<1>7. ASSUME NEW q \in p + 1..End, NEW why, AtMostOne(why, p, W) PROVE Lexed(Tokened(q, why), p)
  <2>1. p \in Int /\ q \in Int /\ p \in p..q - 1 BY <1>1
  <2>2. AtMostOne(u.errs, p, EscapeErrors) BY <1>3 DEF UnitMovesOn
  <2>3. Reports(u.errs \o why, p, q) BY <1>4, <1>7, <2>1, <2>2, TwoReports
  <2> QED BY <1>4, <2>3, TokIsLexed
<1>8. stop \in p + 1..End
  <2>1. stop \in u.to..End BY <1>6, UptoMoves
  <2> QED BY <1>1, <1>6, <2>1
<1>9. ASSUME NEW q \in p + 1..End, At(q) = "'" PROVE q + 1 \in p + 1..End
  <2>1. q \in Positions(text) BY <1>1
  <2>2. q < End BY <1>9, <2>1, TextEnds DEF NUL
  <2> QED BY <1>1, <2>2
<1> DEFINE close == IF At(stop) = "'" THEN stop + 1 ELSE stop
<1>10. close \in p + 1..End BY <1>8, <1>9
<1> HIDE DEF stop, close, Tokened
<1>11. Character(p) = IF ~u.ok THEN Tokened(u.to, <<Err(p, "invalid character literal")>>)
                      ELSE IF At(u.to) = "'" THEN Tokened(u.to + 1, <<>>)
                      ELSE Tokened(close, <<Err(p, "more than one character")>>)
  BY DEF Character, u, stop, close, value, Tokened
<1>12. At(u.to) = "'" => u.to + 1 \in p + 1..End BY <1>6, <1>9
<1>13. Lexed(Tokened(u.to, <<Err(p, "invalid character literal")>>), p) BY <1>5, <1>6, <1>7
<1>14. At(u.to) = "'" => Lexed(Tokened(u.to + 1, <<>>), p) BY <1>5, <1>7, <1>12
<1>15. Lexed(Tokened(close, <<Err(p, "more than one character")>>), p) BY <1>5, <1>7, <1>10
<1> QED BY <1>11, <1>13, <1>14, <1>15

-----------------------------------------------------------------------------
\* The three recursions over positions: each step, given a function for what
\* comes behind it.
BlankStep(f, p) ==
  LET q == Past(p, White)
  IN IF At(q) = "/" /\ At(q + 1) = "/" THEN f[Upto(q, {"\n"})]
     ELSE IF At(q) = "/" /\ At(q + 1) = "*"
     THEN IF Closed(q) THEN f[CommentEnd(q)]
          ELSE [to |-> CommentEnd(q), errs |-> <<Err(q, "unterminated comment")>>]
     ELSE [to |-> q, errs |-> <<>>]

StringStep(f, p, q) ==
  [n \in 0..MaxString |->
     LET u == UnitAt(q, p)
     IN IF At(q) = Quote THEN [to |-> q + 1, closed |-> TRUE, units |-> <<>>, errs |-> <<>>]
        ELSE IF ~u.ok THEN [to |-> u.to, closed |-> FALSE, units |-> <<>>, errs |-> u.errs]
        ELSE IF n + 1 >= MaxString
        THEN [to |-> Upto(u.to, {Quote, "\n"}), closed |-> FALSE, units |-> <<>>,
              errs |-> <<Err(p, "string too long")>>]
        ELSE [f[u.to][n + 1] EXCEPT !.units = <<u.value>> \o @]]

TokenStep(f, p) ==
  LET q == Blanks[p].to
      t == IF At(q) = NUL THEN Tok(q, q, "EOF", [chars |-> <<>>], <<>>)
           ELSE IF At(q) \in Alpha THEN Word(q)
           ELSE IF At(q) \in Digits THEN Number(q)
           ELSE IF At(q) = Quote THEN StringLiteral(q)
           ELSE IF At(q) = "'" THEN Character(q)
           ELSE IF IsOperator(q)
           THEN Tok(q, OperatorEnd(q), "OPERATOR", [chars |-> Part(q, OperatorEnd(q))], <<>>)
           ELSE [f[q + 1] EXCEPT !.errs = <<Err(q, "unexpected character")>> \o @]
  IN [t EXCEPT !.errs = Blanks[p].errs \o @]

Step(which, p, f, q) ==
  CASE which = "blanks" -> BlankStep(f, q)
    [] which = "string" -> StringStep(f, p, q)
    [] which = "token" -> TokenStep(f, q)

\* A step looks only behind itself, so there is a function that all its steps make.
LooksAhead(which, p) ==
  \A q \in 1..End : \A f, g :
    (\A x \in q + 1..End : f[x] = g[x]) => Step(which, p, f, q) = Step(which, p, g, q)
Solves(f, which, p, j) == f = [q \in j..End |-> Step(which, p, f, q)]

LEMMA Solution ==
  ASSUME Scannable, NEW which, NEW p, LooksAhead(which, p)
  PROVE  \E f : Solves(f, which, p, 1)
<1> DEFINE B(f, q) == Step(which, p, f, q)
           S == {j \in 1..End : \E f : Solves(f, which, p, j)}
<1>1. End \in Nat \ {0} BY TextEnds
<1>2. ASSUME NEW q \in 1..End, NEW f, NEW g, \A x \in q + 1..End : f[x] = g[x]
      PROVE B(f, q) = B(g, q)
  BY <1>2 DEF LooksAhead
<1> HIDE DEF B
<1>3. End \in S
  <2> DEFINE h == [q \in End..End |-> B(<<>>, End)]
  <2>1. ASSUME NEW q \in End..End PROVE h[q] = B(h, q)
    <3>1. q = End /\ End \in 1..End /\ \A x \in End + 1..End : FALSE BY <1>1
    <3>2. \A x \in End + 1..End : h[x] = <<>>[x] BY <3>1
    <3> HIDE DEF h
    <3>3. B(h, End) = B(<<>>, End) BY <1>2, <3>1, <3>2
    <3> QED BY <3>1, <3>3 DEF h
  <2>2. h = [q \in End..End |-> h[q]] OBVIOUS
  <2> HIDE DEF h
  <2>3. h = [q \in End..End |-> B(h, q)] BY <2>1, <2>2
  <2> QED BY <1>1, <2>3 DEF Solves, B
<1>4. ASSUME NEW j \in 1..End - 1, j + 1 \in S PROVE j \in S
  <2>1. PICK f : f = [q \in j + 1..End |-> B(f, q)] BY <1>4 DEF Solves, B
  <2> DEFINE h == [q \in j..End |-> IF q = j THEN B(f, j) ELSE f[q]]
  <2>2. \A x \in j + 1..End : h[x] = f[x] /\ f[x] = B(f, x)
    <3> TAKE x \in j + 1..End
    <3>1. x \in j..End /\ x # j BY <1>1
    <3>2. h[x] = f[x] BY <3>1
    <3> HIDE DEF h
    <3> QED BY <2>1, <3>2
  <2>3. j \in 1..End /\ j \in j..End BY <1>1
  <2>4. h[j] = B(f, j) BY <2>3
  <2>5. h = [q \in j..End |-> h[q]] OBVIOUS
  <2> HIDE DEF h
  <2>6. ASSUME NEW q \in j..End PROVE h[q] = B(h, q)
    <3>1. \A x \in q + 1..End : f[x] = h[x]
      <4> TAKE x \in q + 1..End
      <4>1. x \in j + 1..End BY <1>1
      <4> QED BY <2>2, <4>1
    <3>2. q \in 1..End BY <1>1
    <3>3. B(f, q) = B(h, q) BY <1>2, <3>1, <3>2
    <3>4. CASE q = j BY <2>4, <3>3, <3>4
    <3>5. CASE q # j
      <4>1. q \in j + 1..End BY <1>1, <3>5
      <4> QED BY <2>2, <3>3, <4>1
    <3> QED BY <3>4, <3>5
  <2>7. h = [q \in j..End |-> B(h, q)] BY <2>5, <2>6
  <2> QED BY <2>3, <2>7 DEF Solves, B
<1>5. 1 \in 1..End BY <1>1
<1> HIDE DEF S
<1>6. 1 \in S BY <1>1, <1>3, <1>4, <1>5, DownTo
<1> QED BY <1>6 DEF S

-----------------------------------------------------------------------------
\* skip_ws_and_comments: it moves on, and reports at most one comment that has
\* no end, at a place it passes.
BlanksMoveOn(b, p) ==
  /\ b = [to |-> b.to, errs |-> b.errs]
  /\ b.to \in p..End /\ Reports(b.errs, p, b.to)

\* What stands at the first position behind the white space from p.
LEMMA BlankCases ==
  ASSUME Scannable, NEW p \in Positions(text)
  PROVE  LET q == Past(p, White)
         IN /\ q \in p..End /\ q \in Positions(text)
            /\ At(q) = "/" => Upto(q, {"\n"}) \in p + 1..End
            /\ At(q) = "/" /\ At(q + 1) = "*" => CommentEnd(q) \in p + 1..End /\ CommentEnd(q) \in q + 1..End
<1> DEFINE q == Past(p, White)
<1>1. p \in Nat /\ End \in Nat /\ Positions(text) = 1..End BY TextEnds
<1>2. q \in p..End BY PastMoves, NulEnds
<1>3. q \in Positions(text) BY <1>1, <1>2
<1> HIDE DEF q
<1>4. ASSUME At(q) = "/" PROVE Upto(q, {"\n"}) \in p + 1..End
  <2>1. At(q) \notin {"\n"} \cup {NUL} BY <1>4 DEF NUL
  <2>2. Upto(q, {"\n"}) \in q + 1..End BY <1>3, <2>1, UptoMoves
  <2> QED BY <1>1, <1>2, <2>2
<1>5. ASSUME At(q) = "/", At(q + 1) = "*"
      PROVE  CommentEnd(q) \in p + 1..End /\ CommentEnd(q) \in q + 1..End
  <2>1. q + 2 \in Positions(text) BY <1>3, <1>5, TextEnds DEF NUL
  <2>2. CommentEnd(q) \in q + 2..End BY <1>3, <2>1, CommentEndMoves
  <2> QED BY <1>1, <1>2, <2>2
<1> QED BY <1>2, <1>3, <1>4, <1>5 DEF q

LEMMA BlanksIs ==
  ASSUME Scannable, NEW p \in Positions(text)
  PROVE  Blanks[p] = BlankStep(Blanks, p)
<1> DEFINE P(f) == f = [q \in Positions(text) |-> BlankStep(f, q)]
<1>1. LooksAhead("blanks", 0)
  <2> SUFFICES ASSUME NEW q \in 1..End, NEW f, NEW g, \A x \in q + 1..End : f[x] = g[x]
               PROVE  BlankStep(f, q) = BlankStep(g, q)
    BY DEF LooksAhead, Step
  <2> DEFINE r == Past(q, White)
  <2>1. q \in Positions(text) BY TextEnds
  <2>2. /\ At(r) = "/" => Upto(r, {"\n"}) \in q + 1..End
        /\ At(r) = "/" /\ At(r + 1) = "*" => CommentEnd(r) \in q + 1..End
    BY <2>1, BlankCases
  <2> HIDE DEF r
  <2> QED BY <2>2 DEF BlankStep, r
<1>2. PICK f : Solves(f, "blanks", 0, 1) BY <1>1, Solution
<1>3. P(f) BY <1>2, TextEnds DEF Solves, Step
<1>4. P(CHOOSE g : P(g)) BY <1>3
<1> HIDE DEF P
<1>5. Blanks = CHOOSE g : P(g) BY DEF Blanks, P, BlankStep
<1>6. P(Blanks) BY <1>4, <1>5
<1> DEFINE b == Blanks
<1>7. b = [q \in Positions(text) |-> BlankStep(b, q)] BY <1>6 DEF P
<1> HIDE DEF b
<1>8. b[p] = BlankStep(b, p) BY <1>7
<1> QED BY <1>8 DEF b

LEMMA BlanksMove ==
  ASSUME Scannable, NEW p \in Positions(text)
  PROVE  BlanksMoveOn(Blanks[p], p)
<1> DEFINE S == {q \in 1..End : BlanksMoveOn(Blanks[q], q)}
<1>1. End \in Nat \ {0} /\ Positions(text) = 1..End BY TextEnds
<1>2. ASSUME NEW q \in 1..End, \A x \in q + 1..End : BlanksMoveOn(Blanks[x], x)
      PROVE  BlanksMoveOn(Blanks[q], q)
  <2> DEFINE r == Past(q, White)
             e == CommentEnd(r)
             errs == <<Err(r, "unterminated comment")>>
  <2>1. q \in Positions(text) BY <1>1
  <2>2. /\ r \in q..End /\ r \in Positions(text)
        /\ At(r) = "/" => Upto(r, {"\n"}) \in q + 1..End
        /\ At(r) = "/" /\ At(r + 1) = "*" => e \in q + 1..End /\ e \in r + 1..End
    BY <2>1, BlankCases
  <2> HIDE DEF r, e
  <2>3. ASSUME NEW x \in q + 1..End PROVE BlanksMoveOn(Blanks[x], q)
    <3>1. BlanksMoveOn(Blanks[x], x) BY <1>2
    <3> DEFINE b == Blanks[x]
    <3> HIDE DEF b
    <3>2. b.to \in x..End /\ Reports(b.errs, x, b.to) BY <3>1 DEF BlanksMoveOn, b
    <3>3. b.to \in q..End /\ q \in Int /\ x \in Int /\ b.to \in Int /\ q <= x /\ b.to <= b.to
      BY <1>1, <3>2
    <3>4. Reports(b.errs, q, b.to) BY <3>2, <3>3, ReportsWiden
    <3> QED BY <3>1, <3>3, <3>4 DEF BlanksMoveOn, b
  <2>4. CASE At(r) = "/" /\ At(r + 1) = "/"
    <3>1. Blanks[q] = Blanks[Upto(r, {"\n"})] BY <2>1, <2>4, BlanksIs DEF BlankStep, r
    <3> QED BY <2>2, <2>3, <2>4, <3>1
  <2>5. CASE At(r) = "/" /\ At(r + 1) = "*" /\ Closed(r)
    <3>1. Blanks[q] = Blanks[e] BY <2>1, <2>5, BlanksIs DEF BlankStep, r, e
    <3> QED BY <2>2, <2>3, <2>5, <3>1
  <2>6. CASE At(r) = "/" /\ At(r + 1) = "*" /\ ~Closed(r)
    <3>1. Blanks[q] = [to |-> e, errs |-> errs] BY <2>1, <2>6, BlanksIs DEF BlankStep, r, e
    <3>2. e \in q..End /\ r \in q..e - 1 /\ q \in Int /\ e \in Int BY <1>1, <2>2, <2>6
    <3> DEFINE W == {"unterminated comment"}
    <3>3. AtMostOne(errs, r, W) /\ W \in SUBSET Reasons BY DEF AtMostOne, Reasons
    <3> HIDE DEF W, errs
    <3>4. Reports(errs, q, e) BY <3>2, <3>3, FewReports
    <3> QED BY <3>1, <3>2, <3>4 DEF BlanksMoveOn
  <2>7. CASE ~(At(r) = "/" /\ At(r + 1) \in {"/", "*"})
    <3>1. Blanks[q] = [to |-> r, errs |-> <<>>] BY <2>1, <2>7, BlanksIs DEF BlankStep, r
    <3> QED BY <2>2, <3>1 DEF BlanksMoveOn, Reports
  <2> QED BY <2>4, <2>5, <2>6, <2>7
<1>3. \A q \in 1..End : (\A x \in q + 1..End : x \in S) => q \in S
  <2> TAKE q \in 1..End
  <2> HAVE \A x \in q + 1..End : x \in S
  <2> QED BY <1>2
<1> HIDE DEF S
<1>4. \A q \in 1..End : q \in S BY <1>3, Backwards
<1> QED BY <1>1, <1>4 DEF S

-----------------------------------------------------------------------------
\* The loop of scan_string_literal: it stops behind where it began, in the text,
\* with at most one report, about the beginning of the literal.
BodyErrors == EscapeErrors \cup {"string too long"}
BodyMovesOn(b, p, q) ==
  /\ b = [to |-> b.to, closed |-> b.closed, units |-> b.units, errs |-> b.errs]
  /\ b.to \in q..End /\ b.closed \in BOOLEAN
  /\ AtMostOne(b.errs, p, BodyErrors)

\* loop of StringLoop.
IsLoop(f, p) == f = [q \in Positions(text) |-> StringStep(f, p, q)]

LEMMA LoopIs ==
  ASSUME Scannable, NEW p
  PROVE  \E f : IsLoop(f, p) /\ StringLoop(p) = f[p + 1][0]
<1> DEFINE P(f) == f = [q \in Positions(text) |-> StringStep(f, p, q)]
<1>1. LooksAhead("string", p)
  <2> SUFFICES ASSUME NEW q \in 1..End, NEW f, NEW g, \A x \in q + 1..End : f[x] = g[x]
               PROVE  StringStep(f, p, q) = StringStep(g, p, q)
    BY DEF LooksAhead, Step
  <2> DEFINE u == UnitAt(q, p)
  <2>1. q \in Positions(text) BY TextEnds
  <2>2. UnitMovesOn(u, q, p) BY <2>1, UnitMoves
  <2> HIDE DEF u
  <2>3. u.ok => f[u.to] = g[u.to] BY <2>2 DEF UnitMovesOn
  <2> QED BY <2>3 DEF StringStep, u
<1>2. PICK f : Solves(f, "string", p, 1) BY <1>1, Solution
<1>3. P(f) BY <1>2, TextEnds DEF Solves, Step
<1>4. P(CHOOSE g : P(g)) BY <1>3
<1> HIDE DEF P
<1> DEFINE l == CHOOSE g : P(g)
<1>5. StringLoop(p) = l[p + 1][0] BY DEF StringLoop, P, StringStep
<1>6. IsLoop(l, p) BY <1>4 DEF P, IsLoop
<1> HIDE DEF l
<1> QED BY <1>5, <1>6

LEMMA StringLoopMoves ==
  ASSUME Scannable, NEW p, p + 1 \in Positions(text)
  PROVE  BodyMovesOn(StringLoop(p), p, p + 1)
<1> DEFINE Good(b, q) == BodyMovesOn(b, p, q)
<1>1. End \in Nat \ {0} /\ Positions(text) = 1..End BY TextEnds
<1>2. MaxString \in Nat \ {0} BY DEF Scannable
<1>3. PICK f : IsLoop(f, p) /\ StringLoop(p) = f[p + 1][0] BY LoopIs
<1> DEFINE S == {q \in 1..End : \A n \in 0..MaxString : BodyMovesOn(f[q][n], p, q)}
<1>4. ASSUME NEW q \in 1..End, \A x \in q + 1..End : x \in S PROVE q \in S
  <2> DEFINE u == UnitAt(q, p)
             stop == Upto(u.to, {Quote, "\n"})
  <2>1. q \in Positions(text) BY <1>1
  <2>2. UnitMovesOn(u, q, p) BY <2>1, UnitMoves
  <2>3. f[q] = StringStep(f, p, q) BY <1>3, <2>1 DEF IsLoop
  <2> HIDE DEF u
  <2>4. u.to \in q..End /\ u.to \in Positions(text) BY <1>1, <2>2 DEF UnitMovesOn
  <2>5. stop \in q..End
    <3>1. stop \in u.to..End BY <2>4, UptoMoves
    <3> QED BY <1>1, <2>4, <3>1
  <2> HIDE DEF stop
  <2>6. ASSUME NEW n \in 0..MaxString PROVE BodyMovesOn(f[q][n], p, q)
    <3>1. f[q][n] = IF At(q) = Quote THEN [to |-> q + 1, closed |-> TRUE, units |-> <<>>, errs |-> <<>>]
                    ELSE IF ~u.ok THEN [to |-> u.to, closed |-> FALSE, units |-> <<>>, errs |-> u.errs]
                    ELSE IF n + 1 >= MaxString
                    THEN [to |-> stop, closed |-> FALSE, units |-> <<>>,
                          errs |-> <<Err(p, "string too long")>>]
                    ELSE [f[u.to][n + 1] EXCEPT !.units = <<u.value>> \o @]
      BY <2>3 DEF StringStep, u, stop
    <3>2. ASSUME NEW x \in q..End, NEW c \in BOOLEAN, NEW units, NEW errs, AtMostOne(errs, p, BodyErrors)
          PROVE  BodyMovesOn([to |-> x, closed |-> c, units |-> units, errs |-> errs], p, q)
      BY <3>2 DEF BodyMovesOn
    <3>3. /\ AtMostOne(<<>>, p, BodyErrors)
          /\ AtMostOne(<<Err(p, "string too long")>>, p, BodyErrors)
          /\ AtMostOne(u.errs, p, BodyErrors)
      BY <2>2 DEF AtMostOne, BodyErrors, UnitMovesOn
    <3>4. CASE At(q) = Quote
      <4>1. q + 1 \in q..End BY <1>1, <2>1, <3>4, TextEnds, QuoteIsNoEnd
      <4> QED BY <3>1, <3>2, <3>3, <3>4, <4>1
    <3>5. CASE At(q) # Quote /\ ~u.ok BY <2>4, <3>1, <3>2, <3>3, <3>5
    <3>6. CASE At(q) # Quote /\ u.ok /\ n + 1 >= MaxString BY <2>5, <3>1, <3>2, <3>3, <3>6
    <3>7. CASE At(q) # Quote /\ u.ok /\ ~(n + 1 >= MaxString)
      <4>1. n + 1 \in 0..MaxString BY <1>2, <3>7
      <4>2. u.to \in q + 1..End BY <2>2, <3>7 DEF UnitMovesOn
      <4> DEFINE b == f[u.to][n + 1]
      <4>3. BodyMovesOn(b, p, u.to) BY <1>4, <4>1, <4>2
      <4>4. f[q][n] = [b EXCEPT !.units = <<u.value>> \o @] BY <3>1, <3>7
      <4> HIDE DEF b
      <4>5. b = [to |-> b.to, closed |-> b.closed, units |-> b.units, errs |-> b.errs]
        BY <4>3 DEF BodyMovesOn
      <4>6. f[q][n] = [to |-> b.to, closed |-> b.closed, units |-> <<u.value>> \o b.units, errs |-> b.errs]
        BY <4>4, <4>5
      <4>7. b.to \in q..End /\ b.closed \in BOOLEAN /\ AtMostOne(b.errs, p, BodyErrors)
        BY <1>1, <4>2, <4>3 DEF BodyMovesOn
      <4> QED BY <3>2, <4>6, <4>7
    <3> QED BY <3>4, <3>5, <3>6, <3>7
  <2> QED BY <2>6
<1> HIDE DEF S
<1>5. \A q \in 1..End : q \in S BY <1>4, Backwards
<1>6. p + 1 \in S /\ 0 \in 0..MaxString BY <1>1, <1>2, <1>5
<1> QED BY <1>3, <1>6 DEF S

LEMMA StringLexed ==
  ASSUME Scannable, NEW p \in Positions(text), At(p) = Quote
  PROVE  Lexed(StringLiteral(p), p)
<1> DEFINE body == StringLoop(p)
           W == {"unterminated string"}
           Tokened(q, why) == Tok(p, q, "STRING", [units |-> body.units], body.errs \o why)
<1>1. p \in Nat /\ End \in Nat /\ Positions(text) = 1..End BY TextEnds
<1>2. p + 1 \in Positions(text) BY TextEnds, QuoteIsNoEnd
<1>3. BodyMovesOn(body, p, p + 1) BY <1>2, StringLoopMoves
<1>4. "STRING" \in Kinds /\ BodyErrors \in SUBSET Reasons /\ W \in SUBSET Reasons
      /\ BodyErrors \cap W = {}
  BY DEF Kinds, BodyErrors, EscapeErrors, Reasons
<1>5. AtMostOne(<<>>, p, W) /\ AtMostOne(<<Err(p, "unterminated string")>>, p, W) BY DEF AtMostOne
<1> HIDE DEF W, body
<1>6. body.to \in p + 1..End /\ body.to \in Positions(text) BY <1>1, <1>3 DEF BodyMovesOn
<1>7. ASSUME NEW q \in p + 1..End, NEW why, AtMostOne(why, p, W) PROVE Lexed(Tokened(q, why), p)
  <2>1. p \in Int /\ q \in Int /\ p \in p..q - 1 BY <1>1
  <2>2. AtMostOne(body.errs, p, BodyErrors) BY <1>3 DEF BodyMovesOn
  <2>3. Reports(body.errs \o why, p, q) BY <1>4, <1>7, <2>1, <2>2, TwoReports
  <2> QED BY <1>4, <2>3, TokIsLexed
<1>8. At(body.to) = Quote => body.to + 1 \in p + 1..End
  <2> HAVE At(body.to) = Quote
  <2>1. body.to < End BY <1>6, TextEnds, QuoteIsNoEnd
  <2> QED BY <1>1, <1>6, <2>1
<1> DEFINE why == IF body.closed THEN <<>> ELSE <<Err(p, "unterminated string")>>
<1>9. AtMostOne(why, p, W) BY <1>5
<1> HIDE DEF Tokened, why
<1>10. StringLiteral(p) = IF At(body.to) = Quote THEN Tokened(body.to + 1, <<>>)
                          ELSE Tokened(body.to, why)
  BY DEF StringLiteral, body, Tokened, why
<1>11. At(body.to) = Quote => Lexed(Tokened(body.to + 1, <<>>), p) BY <1>5, <1>7, <1>8
<1>12. Lexed(Tokened(body.to, why), p) BY <1>6, <1>7, <1>9
<1> QED BY <1>10, <1>11, <1>12

-----------------------------------------------------------------------------
\* scan_token: the token that is found from p on, whatever stands there.
Found(t, p) ==
  /\ t = [from |-> t.from, to |-> t.to, kind |-> t.kind, value |-> t.value, errs |-> t.errs]
  /\ t.from \in p..End /\ t.to \in t.from..End /\ t.kind \in Kinds
  /\ t.kind = "EOF" \/ t.to > p
  /\ Reports(t.errs, p, t.to)

LEMMA TokenIs ==
  ASSUME Scannable, NEW p \in Positions(text)
  PROVE  TokenFrom[p] = TokenStep(TokenFrom, p)
<1> DEFINE P(f) == f = [q \in Positions(text) |-> TokenStep(f, q)]
<1>1. LooksAhead("token", 0)
  <2> SUFFICES ASSUME NEW q \in 1..End, NEW f, NEW g, \A x \in q + 1..End : f[x] = g[x]
               PROVE  TokenStep(f, q) = TokenStep(g, q)
    BY DEF LooksAhead, Step
  <2> DEFINE r == Blanks[q].to
  <2>1. End \in Nat /\ Positions(text) = 1..End BY TextEnds
  <2>2. q \in Positions(text) BY <2>1
  <2>3. r \in q..End BY <2>2, BlanksMove DEF BlanksMoveOn
  <2> HIDE DEF r
  <2>4. At(r) # NUL => f[r + 1] = g[r + 1]
    <3> HAVE At(r) # NUL
    <3>1. r \in Positions(text) BY <2>1, <2>3
    <3>2. r + 1 \in Positions(text) BY <3>1, TextEnds
    <3>3. r + 1 \in q + 1..End BY <2>1, <2>3, <3>2
    <3> QED BY <3>3
  <2> QED BY <2>4 DEF TokenStep, r
<1>2. PICK f : Solves(f, "token", 0, 1) BY <1>1, Solution
<1>3. P(f) BY <1>2, TextEnds DEF Solves, Step
<1>4. P(CHOOSE g : P(g)) BY <1>3
<1> HIDE DEF P
<1>5. TokenFrom = CHOOSE g : P(g) BY DEF TokenFrom, P, TokenStep
<1>6. P(TokenFrom) BY <1>4, <1>5
<1> DEFINE b == TokenFrom
<1>7. b = [q \in Positions(text) |-> TokenStep(b, q)] BY <1>6 DEF P
<1> HIDE DEF b
<1>8. b[p] = TokenStep(b, p) BY <1>7
<1> QED BY <1>8 DEF b

LEMMA LexedFound ==
  ASSUME Scannable, NEW p \in Positions(text), NEW t, Lexed(t, p)
  PROVE  Found(t, p)
<1>1. p \in Nat /\ End \in Nat /\ p \in p..End BY TextEnds
<1>2. t = [from |-> p, to |-> t.to, kind |-> t.kind, value |-> t.value, errs |-> t.errs]
  BY DEF Lexed
<1>3. t.from = p BY <1>2
<1>4. t.to \in p + 1..End /\ t.kind \in Kinds /\ Reports(t.errs, p, t.to) BY DEF Lexed
<1>5. t.to \in p..End /\ t.to > p BY <1>1, <1>4
<1>6. t = [from |-> t.from, to |-> t.to, kind |-> t.kind, value |-> t.value, errs |-> t.errs]
  BY <1>2, <1>3
<1> QED BY <1>1, <1>3, <1>4, <1>5, <1>6 DEF Found

\* Reports about what stands between p and q come first.
LEMMA FoundBehind ==
  ASSUME Scannable, NEW p \in Positions(text), NEW q \in p..End, NEW errs, Reports(errs, p, q),
         NEW t, Found(t, q)
  PROVE  Found([t EXCEPT !.errs = errs \o @], p)
<1> DEFINE r == [t EXCEPT !.errs = errs \o @]
           e == errs \o t.errs
<1>1. p \in Nat /\ End \in Nat /\ q \in Nat BY TextEnds
<1>2. t = [from |-> t.from, to |-> t.to, kind |-> t.kind, value |-> t.value, errs |-> t.errs]
  BY DEF Found
<1>3. r = [from |-> t.from, to |-> t.to, kind |-> t.kind, value |-> t.value, errs |-> e]
  <2>1. r = [t EXCEPT !.errs = e] OBVIOUS
  <2> HIDE DEF r, e
  <2> QED BY <1>2, <2>1
<1>4. t.from \in q..End /\ t.to \in t.from..End /\ t.kind \in Kinds BY DEF Found
<1>5. t.kind = "EOF" \/ t.to > q BY DEF Found
<1>6. Reports(t.errs, q, t.to) BY DEF Found
<1>7. p \in Int /\ q \in Int /\ t.to \in Int /\ p <= q /\ q <= t.to BY <1>1, <1>4
<1>8. Reports(e, p, t.to) BY <1>6, <1>7, ReportsJoin
<1>9. t.from \in p..End BY <1>1, <1>4
<1>10. t.kind = "EOF" \/ t.to > p BY <1>5, <1>7
<1> HIDE DEF r, e
<1>11. Found(r, p) BY <1>3, <1>4, <1>8, <1>9, <1>10 DEF Found
<1> QED BY <1>11 DEF r

LEMMA OperatorEndMoves ==
  ASSUME Scannable, NEW p \in Positions(text), At(p) # NUL
  PROVE  OperatorEnd(p) \in p + 1..End
<1>1. p \in Nat /\ End \in Nat /\ Positions(text) = 1..End BY TextEnds
<1>2. p + 1 \in Positions(text) BY TextEnds
<1>3. CASE At(p + 1) \in Second(At(p))
  <2>1. NUL \notin Second(At(p)) BY DEF Second, NUL
  <2>2. p + 1 < End BY <1>2, <1>3, <2>1, TextEnds
  <2>3. p + 2 \in p + 1..End BY <1>1, <2>2
  <2> QED BY <1>3, <2>3 DEF OperatorEnd
<1>4. CASE At(p + 1) \notin Second(At(p))
  <2>1. p + 1 \in p + 1..End BY <1>1, <1>2
  <2> QED BY <1>4, <2>1 DEF OperatorEnd
<1> QED BY <1>3, <1>4

LEMMA TokenMoves ==
  ASSUME Scannable, NEW p \in Positions(text)
  PROVE  Found(TokenFrom[p], p)
<1> DEFINE S == {q \in 1..End : Found(TokenFrom[q], q)}
<1>1. End \in Nat \ {0} /\ Positions(text) = 1..End BY TextEnds
<1>2. ASSUME NEW q \in 1..End, \A x \in q + 1..End : Found(TokenFrom[x], x)
      PROVE  Found(TokenFrom[q], q)
  <2> DEFINE r == Blanks[q].to
             next == [TokenFrom[r + 1] EXCEPT !.errs = <<Err(r, "unexpected character")>> \o @]
             t == IF At(r) = NUL THEN Tok(r, r, "EOF", [chars |-> <<>>], <<>>)
                  ELSE IF At(r) \in Alpha THEN Word(r)
                  ELSE IF At(r) \in Digits THEN Number(r)
                  ELSE IF At(r) = Quote THEN StringLiteral(r)
                  ELSE IF At(r) = "'" THEN Character(r)
                  ELSE IF IsOperator(r)
                  THEN Tok(r, OperatorEnd(r), "OPERATOR", [chars |-> Part(r, OperatorEnd(r))], <<>>)
                  ELSE next
  <2>1. q \in Positions(text) BY <1>1
  <2>2. r \in q..End /\ Reports(Blanks[q].errs, q, r) BY <2>1, BlanksMove DEF BlanksMoveOn
  <2>3. TokenFrom[q] = [t EXCEPT !.errs = Blanks[q].errs \o @] BY <2>1, TokenIs DEF TokenStep
  <2> HIDE DEF r
  <2>4. r \in Positions(text) /\ r \in Nat BY <1>1, <2>2
  <2>5. At(r) = NUL => Found(Tok(r, r, "EOF", [chars |-> <<>>], <<>>), r)
    <3> DEFINE e == Tok(r, r, "EOF", [chars |-> <<>>], <<>>)
    <3>1. Found(e, r)
      <4>1. r \in r..End /\ "EOF" \in Kinds BY <1>1, <2>4 DEF Kinds
      <4>2. Reports(<<>>, r, r) BY DEF Reports
      <4> QED BY <4>1, <4>2 DEF Found, Tok
    <3> QED BY <3>1
  <2>6. At(r) \in Alpha => Found(Word(r), r) BY <2>4, WordLexed, LexedFound
  <2>7. At(r) \in Digits => Found(Number(r), r) BY <2>4, NumberLexed, LexedFound
  <2>8. At(r) = Quote => Found(StringLiteral(r), r) BY <2>4, StringLexed, LexedFound
  <2>9. At(r) = "'" => Found(Character(r), r) BY <2>4, CharacterLexed, LexedFound
  <2>10. At(r) # NUL => Found(Tok(r, OperatorEnd(r), "OPERATOR", [chars |-> Part(r, OperatorEnd(r))], <<>>), r)
    <3> HAVE At(r) # NUL
    <3> DEFINE q2 == OperatorEnd(r)
               value == [chars |-> Part(r, OperatorEnd(r))]
    <3>1. q2 \in r + 1..End BY <2>4, OperatorEndMoves
    <3>2. "OPERATOR" \in Kinds BY DEF Kinds
    <3>3. Reports(<<>>, r, q2) BY DEF Reports
    <3> HIDE DEF q2, value
    <3>4. Lexed(Tok(r, q2, "OPERATOR", value, <<>>), r) BY <2>4, <3>1, <3>2, <3>3, TokIsLexed
    <3>5. Found(Tok(r, q2, "OPERATOR", value, <<>>), r) BY <2>4, <3>4, LexedFound
    <3> QED BY <3>5 DEF q2, value
  <2>11. At(r) # NUL => Found(next, r)
    <3> HAVE At(r) # NUL
    <3> DEFINE n == r + 1
               f == TokenFrom[n]
               errs == <<Err(r, "unexpected character")>>
               W == {"unexpected character"}
    <3>1. n \in Positions(text) /\ n \in r..End BY <1>1, <2>4, TextEnds
    <3>2. n \in q + 1..End BY <1>1, <2>2, <3>1
    <3>3. Found(f, n) BY <1>2, <3>2
    <3>4. AtMostOne(errs, r, W) /\ W \in SUBSET Reasons BY DEF AtMostOne, Reasons
    <3>5. r \in Int /\ n \in Int /\ r \in r..n - 1 BY <2>4
    <3> HIDE DEF n, f, errs, W
    <3>6. Reports(errs, r, n) BY <3>4, <3>5, FewReports
    <3>7. Found([f EXCEPT !.errs = errs \o @], r) BY <2>4, <3>1, <3>3, <3>6, FoundBehind
    <3> QED BY <3>7 DEF n, f, errs
  <2> HIDE DEF next
  <2>12. Found(t, r) BY <2>5, <2>6, <2>7, <2>8, <2>9, <2>10, <2>11
  <2> HIDE DEF t
  <2>13. Found([t EXCEPT !.errs = Blanks[q].errs \o @], q) BY <2>1, <2>2, <2>12, FoundBehind
  <2> QED BY <2>3, <2>13
<1>3. \A q \in 1..End : (\A x \in q + 1..End : x \in S) => q \in S
  <2> TAKE q \in 1..End
  <2> HAVE \A x \in q + 1..End : x \in S
  <2> QED BY <1>2
<1> HIDE DEF S
<1>4. \A q \in 1..End : q \in S BY <1>3, Backwards
<1> QED BY <1>1, <1>4 DEF S

\* Of two positions in a text, the place of the earlier one comes first.
LEMMA PlacesInOrder ==
  ASSUME NEW p \in Nat \ {0}, NEW q \in Nat, p <= q
  PROVE  /\ Moved(CursorAt(text, p), q) = CursorAt(text, q)
         /\ ~Before(CursorAt(text, q), CursorAt(text, p))
         /\ p # q => Before(CursorAt(text, p), CursorAt(text, q))
<1> DEFINE n == q - p
<1>1. n \in Nat /\ p + n = q /\ (p # q => n # 0) OBVIOUS
<1>2. CursorAt(text, p).pos = p BY CursorAtMoves
<1>3. Moved(CursorAt(text, p), q) = Advanced(text, CursorAt(text, p), n) BY <1>2 DEF Moved, n
<1> HIDE DEF n
<1>4. /\ Advanced(text, CursorAt(text, p), n) = CursorAt(text, p + n)
      /\ ~Before(CursorAt(text, p + n), CursorAt(text, p))
      /\ n # 0 => Before(CursorAt(text, p), CursorAt(text, p + n))
  BY <1>1, CursorMoves
<1> QED BY <1>1, <1>3, <1>4

\* Every text that ends in a newline, and every place in it: the scanner keeps to
\* what the rest of the lexer relies on (scan_token).
THEOREM ScannerKeepsTo ==
  ASSUME Scannable, NEW p \in Positions(text)
  PROVE  KeepsTo(text, CursorAt(text, p), ScannedFrom(CursorAt(text, p)))
<1> DEFINE c == CursorAt(text, p)
           t == TokenFrom[p]
           s == ScannedFrom(c)
           Place(q) == PlaceOfCursor(Moved(c, q))
<1>1. p \in Nat \ {0} /\ End \in Nat /\ Positions(text) = 1..End BY TextEnds
<1>2. c.pos = p /\ IsCursor(c) BY <1>1, CursorAtMoves
<1>3. Found(t, p) BY TokenMoves
<1> HIDE DEF c
<1>4. /\ s.token = [kind |-> t.kind, value |-> t.value, place |-> Place(t.from)]
      /\ s.cursor = Moved(c, t.to)
      /\ s.errors = [k \in DOMAIN t.errs |-> [place |-> Place(t.errs[k].at), why |-> t.errs[k].why]]
  BY <1>2 DEF ScannedFrom
<1> HIDE DEF t, s
<1>5. t.to \in p..End /\ t.to \in Nat \ {0} /\ t.kind \in Kinds /\ (t.kind = "EOF" \/ t.to > p)
  <2>1. t.from \in p..End /\ t.to \in t.from..End BY <1>3 DEF Found
  <2>2. t.kind \in Kinds /\ (t.kind = "EOF" \/ t.to > p) BY <1>3 DEF Found
  <2> QED BY <1>1, <2>1, <2>2
<1>6. t.errs \in Seq(Between(p, t.to)) /\ \A j, k \in 1..Len(t.errs) : j < k => Earlier(t.errs[j], t.errs[k])
  BY <1>3 DEF Found, Reports
<1>7. s.cursor = CursorAt(text, t.to) /\ s.cursor.pos = t.to /\ IsCursor(s.cursor)
  <2> DEFINE q == t.to
  <2>1. q \in Nat \ {0} /\ p <= q BY <1>1, <1>5
  <2> HIDE DEF q
  <2>2. Moved(c, q) = CursorAt(text, q) BY <1>1, <2>1, PlacesInOrder DEF c
  <2>3. CursorAt(text, q).pos = q /\ IsCursor(CursorAt(text, q)) BY <2>1, CursorAtMoves
  <2> QED BY <1>4, <2>2, <2>3 DEF q
\* What is reported at q is reported at the place of q.
<1> DEFINE at(k) == t.errs[k].at
<1>8. ASSUME NEW k \in 1..Len(t.errs)
      PROVE  /\ at(k) \in p..t.to - 1 /\ at(k) \in Nat \ {0} /\ t.errs[k].why \in Reasons
             /\ Place(at(k)) = PlaceOfCursor(CursorAt(text, at(k)))
             /\ IsCursor(CursorAt(text, at(k)))
  <2> DEFINE e == t.errs[k]
  <2>1. e \in Between(p, t.to) BY <1>6, ElementOfSeq
  <2>2. e.at \in p..t.to - 1 /\ e.why \in Reasons BY <2>1 DEF Between
  <2>3. e.at \in Nat \ {0} /\ p <= e.at BY <1>1, <1>5, <2>2
  <2> DEFINE q == e.at
  <2>4. q \in Nat \ {0} /\ p <= q BY <2>3
  <2> HIDE DEF q
  <2>5. Moved(c, q) = CursorAt(text, q) /\ IsCursor(CursorAt(text, q))
    BY <1>1, <2>4, PlacesInOrder, CursorAtMoves DEF c
  <2> QED BY <2>2, <2>3, <2>5 DEF q
<1>9. DOMAIN t.errs = 1..Len(t.errs) /\ Len(t.errs) \in Nat BY <1>6
<1> DEFINE R == [place : [line : Nat, col : Nat], why : Reasons]
<1>10. /\ s.errors \in Seq(R) /\ Len(s.errors) = Len(t.errs)
       /\ \A k \in 1..Len(t.errs) : s.errors[k] = [place |-> Place(at(k)), why |-> t.errs[k].why]
  <2> DEFINE n == Len(t.errs)
             errors == [k \in 1..n |-> [place |-> Place(at(k)), why |-> t.errs[k].why]]
  <2>1. s.errors = errors BY <1>4, <1>9
  <2>2. ASSUME NEW k \in 1..n PROVE errors[k] \in R
    <3> DEFINE d == CursorAt(text, at(k))
    <3>1. errors[k] = [place |-> PlaceOfCursor(d), why |-> t.errs[k].why] /\ t.errs[k].why \in Reasons
      BY <1>8
    <3>2. IsCursor(d) BY <1>8
    <3> HIDE DEF d, errors
    <3>3. PlaceOfCursor(d) \in [line : Nat, col : Nat] BY <3>2 DEF IsCursor, Cursors, PlaceOfCursor
    <3> QED BY <3>1, <3>3
  <2>3. n \in Nat BY <1>9
  <2>4. errors = [k \in 1..n |-> errors[k]] OBVIOUS
  <2>5. \A k \in 1..n : errors[k] = [place |-> Place(at(k)), why |-> t.errs[k].why] OBVIOUS
  <2> HIDE DEF errors, R
  <2>6. errors \in [1..n -> R] BY <2>2, <2>4
  <2> HIDE DEF n
  <2>7. errors \in Seq(R) /\ Len(errors) = n BY <2>3, <2>6
  <2> QED BY <2>1, <2>5, <2>7 DEF n
<1>11. DOMAIN s.errors = 1..Len(t.errs) BY <1>10
<1>12. ASSUME NEW k \in 1..Len(t.errs)
       PROVE  ~Before(s.errors[k].place, CursorAt(text, p)) /\ Before(s.errors[k].place, s.cursor)
  <2> DEFINE q == at(k)
             d == CursorAt(text, q)
  <2>1. q \in Nat \ {0} /\ p <= q /\ q < t.to
    BY <1>1, <1>5, <1>8
  <2>2. s.errors[k].place = PlaceOfCursor(d)
    <3>1. Place(q) = PlaceOfCursor(d) BY <1>8
    <3>2. s.errors[k] = [place |-> Place(q), why |-> t.errs[k].why] BY <1>10
    <3> HIDE DEF Place, d, q
    <3> QED BY <3>1, <3>2
  <2> HIDE DEF q
  <2>3. ~Before(d, CursorAt(text, p)) BY <1>1, <2>1, PlacesInOrder
  <2>4. Before(d, CursorAt(text, t.to))
    <3> DEFINE r == t.to
    <3>1. r \in Nat /\ q <= r /\ q # r BY <1>5, <2>1
    <3> HIDE DEF r
    <3>2. Before(d, CursorAt(text, r)) BY <2>1, <3>1, PlacesInOrder
    <3> QED BY <3>2 DEF r
  <2> HIDE DEF d
  <2>5. PlaceOfCursor(d).line = d.line /\ PlaceOfCursor(d).col = d.col BY DEF PlaceOfCursor
  <2> QED BY <1>7, <2>2, <2>3, <2>4, <2>5 DEF Before
<1>13. ASSUME NEW j \in 1..Len(t.errs), NEW k \in 1..Len(t.errs), j < k
       PROVE  s.errors[j] # s.errors[k] /\ ~Before(s.errors[k].place, s.errors[j].place)
  <2> DEFINE a == CursorAt(text, at(j))
             b == CursorAt(text, at(k))
  <2>1. Earlier(t.errs[j], t.errs[k]) BY <1>6, <1>13
  <2>2. at(j) \in Nat \ {0} /\ at(k) \in Nat \ {0} BY <1>8
  <2>3. /\ s.errors[j] = [place |-> PlaceOfCursor(a), why |-> t.errs[j].why]
        /\ s.errors[k] = [place |-> PlaceOfCursor(b), why |-> t.errs[k].why]
    BY <1>8, <1>10
  <2>4. IsCursor(a) /\ IsCursor(b) BY <1>8
  <2>5. \/ Before(a, b)
        \/ at(j) = at(k) /\ t.errs[j].why # t.errs[k].why
    <3>1. CASE t.errs[j].at < t.errs[k].at
      <4> DEFINE x == at(j)
                 y == at(k)
      <4>1. x \in Nat \ {0} /\ y \in Nat /\ x <= y /\ x # y BY <2>2, <3>1
      <4> HIDE DEF x, y
      <4>2. Before(CursorAt(text, x), CursorAt(text, y)) BY <4>1, PlacesInOrder
      <4> QED BY <4>2 DEF x, y
    <3> QED BY <2>1, <3>1 DEF Earlier
  <2>6. a = b \/ Before(a, b) BY <2>5
  <2> HIDE DEF a, b
  <2>7. PlaceOfCursor(a) = [line |-> a.line, col |-> a.col] /\ PlaceOfCursor(b) = [line |-> b.line, col |-> b.col]
    BY DEF PlaceOfCursor
  <2>8. ~Before(PlaceOfCursor(b), PlaceOfCursor(a)) BY <2>4, <2>6, <2>7 DEF Before, IsCursor, Cursors
  <2>9. Before(a, b) => PlaceOfCursor(a) # PlaceOfCursor(b) BY <2>4, <2>7 DEF Before, IsCursor, Cursors
  <2> QED BY <2>3, <2>5, <2>8, <2>9
<1> HIDE DEF R
<1>14. InText(text, s.cursor) /\ ~Before(s.cursor, CursorAt(text, p))
  <2> DEFINE q == t.to
  <2>1. q \in Nat /\ p <= q /\ q \in Positions(text) BY <1>1, <1>5
  <2>2. s.cursor = CursorAt(text, q) /\ s.cursor.pos = q /\ s.cursor \in Cursors BY <1>7 DEF IsCursor
  <2> HIDE DEF q
  <2>3. ~Before(CursorAt(text, q), CursorAt(text, p)) BY <1>1, <2>1, PlacesInOrder
  <2> QED BY <2>1, <2>2, <2>3 DEF InText
<1>15. s.token.kind \in Kinds /\ (s.token.kind = "EOF" \/ s.cursor.pos > p)
  BY <1>4, <1>5, <1>7
<1>16. s.errors \in Diagnostics BY <1>10 DEF Diagnostics, R
<1> DEFINE d == CursorAt(text, p)
<1>17. d.pos = p BY <1>2 DEF c
<1> HIDE DEF d
<1>18. KeepsTo(text, d, s) BY <1>11, <1>12, <1>13, <1>14, <1>15, <1>16, <1>17 DEF KeepsTo, d
<1> QED BY <1>18 DEF s, c, d

-----------------------------------------------------------------------------
\* The Lexer that reads the text with this scanner: what LexerProofs shows of every
\* scanner that keeps to KeepsTo is so of the one in the code.
VARIABLES source, begun, lexer, seen, after

ScanText(t, c) == ScannedFrom(c)
Code == INSTANCE LexerProofs WITH Texts <- {text}, Scan <- ScanText, text <- source

LEMMA SameCursors ==
  ASSUME NEW t, NEW p, NEW s
  PROVE  /\ Code!Positions(t) = Positions(t)
         /\ Code!CursorAt(t, p) = CursorAt(t, p)
         /\ Code!KeepsTo(t, p, s) <=> KeepsTo(t, p, s)
<1>1. \A x : Code!CursorAt(t, x) = CursorAt(t, x)
  BY DEF CursorAt, Code!CursorAt, Advanced, Code!Advanced, Advance, Code!Advance, Start, Code!Start
<1>2. \A a, b : Code!Before(a, b) <=> Before(a, b) BY DEF Before, Code!Before
<1>3. Code!Positions(t) = Positions(t) BY DEF Positions, Code!Positions
<1>4. \A x : Code!InText(t, x) <=> InText(t, x)
  BY <1>1, <1>3 DEF InText, Code!InText, Cursors, Code!Cursors
<1>5. Code!Diagnostics = Diagnostics BY DEF Diagnostics, Code!Diagnostics, Reasons, Code!Reasons
<1>6. Code!Kinds = Kinds BY DEF Kinds, Code!Kinds
<1>7. Code!KeepsTo(t, p, s) <=> KeepsTo(t, p, s)
  BY <1>2, <1>4, <1>5, <1>6 DEF KeepsTo, Code!KeepsTo
<1> QED BY <1>1, <1>3, <1>7

\* However the parser looks ahead in a text that ends in a newline, the lexer of the
\* code stays inside the text and its buffer, gets on to the end of the text, and
\* reports each thing once and in order (lexer_next, lexer_peek, lexer_peek2 over
\* scan_token).
THEOREM LexerOfTheCode ==
  ASSUME Scannable
  PROVE  Code!Spec => [](Code!TypeOK /\ Code!NeverStuck /\ Code!ErrorsOnce)
<1>1. Code!ScansWell
  BY ScannerKeepsTo, SameCursors DEF Code!ScansWell, ScanText
<1>2. Code!TextsAssumption
  BY DEF Code!TextsAssumption, Scannable, IsText, Code!IsText
<1>3. Code!Spec => []Code!TypeOK BY <1>1, <1>2, Code!LexerTypeCorrect
<1>4. Code!Spec => []Code!NeverStuck BY <1>1, <1>2, Code!LexerNeverStuck
<1>5. Code!Spec => []Code!ErrorsOnce BY <1>1, <1>2, Code!ErrorsReportedOnce
<1> QED BY <1>3, <1>4, <1>5, PTL
=============================================================================
