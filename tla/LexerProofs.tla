---------------------------- MODULE LexerProofs ----------------------------
(***************************************************************************)
(* The lexer keeps its promise for every text and every scanner: however   *)
(* the parser looks ahead, it takes the tokens one after the other.        *)
(*                                                                         *)
(* The argument is about the buffer alone: what is in it is what a scan    *)
(* from the end of the current token returns, and the cursor is where the  *)
(* last of those scans left it (Buffered).                                 *)
(***************************************************************************)
EXTENDS Lexer, SequenceTheorems, TLAPS

\* The first and the second token after the current one, and what follows each.
AfterFirst == Scan(text, after).cursor
AfterSecond == Scan(text, AfterFirst).cursor
NextToken == Scan(text, after).token
TokenAfter == Scan(text, AfterFirst).token

Holds(l, ahead, cursor) ==
  l = [cursor |-> cursor, token |-> l.token, ahead |-> ahead, diags |-> l.diags]

\* The inductive invariant.
Buffered ==
  \/ Holds(lexer, <<>>, after)
  \/ begun /\ Holds(lexer, <<NextToken>>, AfterFirst)
  \/ begun /\ Holds(lexer, <<NextToken, TokenAfter>>, AfterSecond)

-----------------------------------------------------------------------------
\* Sequences of up to two elements.
LEMMA ShortSequences ==
  ASSUME NEW a, NEW b
  PROVE  /\ Append(<<>>, a) = <<a>> /\ Append(<<a>>, b) = <<a, b>>
         /\ Head(<<a>>) = a /\ Tail(<<a>>) = <<>>
         /\ Head(<<a, b>>) = a /\ Tail(<<a, b>>) = <<b>>
         /\ <<a>> # <<>> /\ <<a, b>> # <<>>
         /\ Len(<<>>) = 0 /\ Len(<<a>>) = 1 /\ Len(<<a, b>>) = 2
<1>1. <<>> \in Seq({a, b}) /\ <<a>> \in Seq({a, b}) /\ <<a, b>> \in Seq({a, b})
  OBVIOUS
<1>2. Append(<<>>, a) = <<a>> BY <1>1
<1>3. Append(<<a>>, b) = <<a, b>>
  <2>1. Append(<<a>>, b) \in Seq({a, b}) /\ Len(Append(<<a>>, b)) = 2 BY <1>1
  <2>2. Append(<<a>>, b)[1] = a /\ Append(<<a>>, b)[2] = b BY <1>1
  <2>3. \A i \in 1..2 : Append(<<a>>, b)[i] = <<a, b>>[i] BY <2>2
  <2>4. Len(<<a, b>>) = 2 OBVIOUS
  <2> QED BY <1>1, <2>1, <2>3, <2>4, SeqEqual
<1>4. Head(<<a>>) = a /\ Tail(<<a>>) = <<>> BY <1>1
<1>5. Head(<<a, b>>) = a BY <1>1
<1>6. Tail(<<a, b>>) = <<b>> BY <1>1
<1>7. <<a>> # <<>> /\ <<a, b>> # <<>> BY <1>1
<1>8. Len(<<>>) = 0 /\ Len(<<a>>) = 1 /\ Len(<<a, b>>) = 2 BY <1>1
<1> QED BY <1>2, <1>3, <1>4, <1>5, <1>6, <1>7, <1>8

\* What one more scan does to a lexer whose buffer is known.
LEMMA Reading ==
  ASSUME NEW l, NEW ahead, NEW c, Holds(l, ahead, c)
  PROVE  /\ Holds(ReadAhead(l), Append(ahead, Scan(text, c).token), Scan(text, c).cursor)
         /\ ReadAhead(l).token = l.token
         /\ Holds(ReadCurrent(l), ahead, Scan(text, c).cursor)
         /\ ReadCurrent(l).token = Scan(text, c).token
<1> DEFINE r == Scan(text, c)
<1>1. l = [cursor |-> c, token |-> l.token, ahead |-> ahead, diags |-> l.diags] BY DEF Holds
<1>2. l.cursor = c /\ l.ahead = ahead BY <1>1
<1>3. Read(l) = [cursor |-> r.cursor, token |-> l.token, ahead |-> ahead, diags |-> l.diags \o r.errors]
  <2> HIDE DEF r
  <2>1. Read(l) = [l EXCEPT !.cursor = r.cursor, !.diags = l.diags \o r.errors]
    BY <1>2 DEF Read, r
  <2>2. [l EXCEPT !.cursor = r.cursor] = [cursor |-> r.cursor, token |-> l.token, ahead |-> ahead, diags |-> l.diags]
    BY <1>1
  <2> QED BY <2>1, <2>2
<1> DEFINE m == Read(l)
<1>4. m.token = l.token /\ m.ahead = ahead BY <1>3
<1>5. ReadAhead(l) = [m EXCEPT !.ahead = Append(ahead, r.token)] BY <1>2, <1>4 DEF ReadAhead
<1>6. ReadCurrent(l) = [m EXCEPT !.token = r.token] BY <1>2 DEF ReadCurrent
<1> HIDE DEF m, r
<1>7. m = [cursor |-> r.cursor, token |-> l.token, ahead |-> ahead, diags |-> l.diags \o r.errors]
  BY <1>3 DEF m
<1>8. ReadAhead(l) =
        [cursor |-> r.cursor, token |-> l.token, ahead |-> Append(ahead, r.token), diags |-> m.diags]
  BY <1>5, <1>7
<1>9. ReadCurrent(l) =
        [cursor |-> r.cursor, token |-> r.token, ahead |-> ahead, diags |-> m.diags]
  BY <1>6, <1>7
<1> QED BY <1>8, <1>9 DEF Holds, r

\* What taking a token from the buffer does.
LEMMA Moving ==
  ASSUME NEW l, NEW ahead, NEW c, Holds(l, ahead, c), NEW t, NEW rest
  PROVE  /\ Holds([l EXCEPT !.token = t, !.ahead = rest], rest, c)
         /\ [l EXCEPT !.token = t, !.ahead = rest].token = t
<1> DEFINE k == [l EXCEPT !.token = t]
           m == [l EXCEPT !.token = t, !.ahead = rest]
<1>1. l = [cursor |-> c, token |-> l.token, ahead |-> ahead, diags |-> l.diags] BY DEF Holds
<1>2. k = [cursor |-> c, token |-> t, ahead |-> ahead, diags |-> l.diags] BY <1>1
<1>3. m = [k EXCEPT !.ahead = rest] OBVIOUS
<1> HIDE DEF k, m
<1>4. m = [cursor |-> c, token |-> t, ahead |-> rest, diags |-> l.diags] BY <1>2, <1>3
<1>5. Holds(m, rest, c) /\ m.token = t BY <1>4 DEF Holds
<1> QED BY <1>5 DEF m

-----------------------------------------------------------------------------
\* lexer_next gives the token after the current one, from the buffer if it is
\* there, and leaves the buffer right for the token it gives.
LEMMA TakeInOrder ==
  ASSUME Buffered, begun,
         lexer' = Taken(lexer), after' = AfterFirst, begun', UNCHANGED text
  PROVE  Buffered' /\ lexer'.token = NextToken
<1>1. CASE Holds(lexer, <<>>, after)
  <2>1. lexer' = ReadCurrent(lexer) BY <1>1 DEF Holds, Taken
  <2>2. Holds(lexer', <<>>, AfterFirst) /\ lexer'.token = NextToken
    <3>1. /\ Holds(ReadCurrent(lexer), <<>>, Scan(text, after).cursor)
          /\ ReadCurrent(lexer).token = Scan(text, after).token
      BY <1>1, Reading
    <3> QED BY <2>1, <3>1 DEF NextToken, AfterFirst
  <2> QED BY <2>2 DEF Buffered, Holds
<1>2. CASE Holds(lexer, <<NextToken>>, AfterFirst)
  <2>1. lexer.ahead = <<NextToken>> BY <1>2 DEF Holds
  <2>2. lexer' = [lexer EXCEPT !.token = NextToken, !.ahead = <<>>]
    BY <2>1, ShortSequences DEF Taken
  <2>3. Holds(lexer', <<>>, AfterFirst) /\ lexer'.token = NextToken
    <3>1. /\ Holds([lexer EXCEPT !.token = NextToken, !.ahead = <<>>], <<>>, AfterFirst)
          /\ [lexer EXCEPT !.token = NextToken, !.ahead = <<>>].token = NextToken
      BY <1>2, Moving
    <3> QED BY <2>2, <3>1
  <2> QED BY <2>3 DEF Buffered, Holds
<1>3. CASE Holds(lexer, <<NextToken, TokenAfter>>, AfterSecond)
  <2>1. lexer.ahead = <<NextToken, TokenAfter>> BY <1>3 DEF Holds
  <2>2. lexer' = [lexer EXCEPT !.token = NextToken, !.ahead = <<TokenAfter>>]
    BY <2>1, ShortSequences DEF Taken
  <2>3. Holds(lexer', <<TokenAfter>>, AfterSecond) /\ lexer'.token = NextToken
    <3>1. /\ Holds([lexer EXCEPT !.token = NextToken, !.ahead = <<TokenAfter>>], <<TokenAfter>>, AfterSecond)
          /\ [lexer EXCEPT !.token = NextToken, !.ahead = <<TokenAfter>>].token = NextToken
      BY <1>3, Moving
    <3> QED BY <2>2, <3>1
  <2>4. AfterFirst' = AfterSecond /\ NextToken' = TokenAfter
    BY DEF AfterFirst, AfterSecond, NextToken, TokenAfter
  <2> QED BY <2>3, <2>4 DEF Buffered, Holds
<1> QED BY <1>1, <1>2, <1>3 DEF Buffered

\* lexer_peek and lexer_peek2 scan the tokens that are missing, and no others.
LEMMA LookInOrder ==
  ASSUME Buffered, begun
  PROVE  /\ \/ Holds(Peeked(lexer), <<NextToken>>, AfterFirst)
            \/ Holds(Peeked(lexer), <<NextToken, TokenAfter>>, AfterSecond)
         /\ Holds(Peeked2(lexer), <<NextToken, TokenAfter>>, AfterSecond)
         /\ Peeked(lexer).token = lexer.token /\ Peeked2(lexer).token = lexer.token
<1>1. ASSUME NEW l, Holds(l, <<NextToken>>, AfterFirst)
      PROVE  /\ Holds(ReadAhead(l), <<NextToken, TokenAfter>>, AfterSecond)
             /\ ReadAhead(l).token = l.token
  <2>1. /\ Holds(ReadAhead(l), Append(<<NextToken>>, Scan(text, AfterFirst).token), Scan(text, AfterFirst).cursor)
        /\ ReadAhead(l).token = l.token
    BY <1>1, Reading
  <2>2. Append(<<NextToken>>, Scan(text, AfterFirst).token) = <<NextToken, TokenAfter>>
    BY ShortSequences DEF TokenAfter
  <2>3. Scan(text, AfterFirst).cursor = AfterSecond BY DEF AfterSecond
  <2> QED BY <2>1, <2>2, <2>3
<1>2. CASE Holds(lexer, <<>>, after)
  <2>1. Peeked(lexer) = ReadAhead(lexer)
    <3>1. Len(lexer.ahead) = 0 BY <1>2, ShortSequences DEF Holds
    <3> QED BY <3>1 DEF Peeked
  <2>2. /\ Holds(Peeked(lexer), <<NextToken>>, AfterFirst)
        /\ Peeked(lexer).token = lexer.token
    <3>1. /\ Holds(ReadAhead(lexer), Append(<<>>, Scan(text, after).token), Scan(text, after).cursor)
          /\ ReadAhead(lexer).token = lexer.token
      BY <1>2, Reading
    <3> QED BY <2>1, <3>1, ShortSequences DEF NextToken, AfterFirst
  <2>3. Peeked2(lexer) = ReadAhead(Peeked(lexer))
    <3>1. Len(Peeked(lexer).ahead) = 1 BY <2>2, ShortSequences DEF Holds
    <3> QED BY <3>1 DEF Peeked2
  <2> QED BY <1>1, <2>2, <2>3
<1>3. CASE Holds(lexer, <<NextToken>>, AfterFirst)
  <2>1. Len(lexer.ahead) = 1 BY <1>3, ShortSequences DEF Holds
  <2>2. Peeked(lexer) = lexer BY <2>1 DEF Peeked
  <2>3. Peeked2(lexer) = ReadAhead(lexer)
    <3>1. Len(Peeked(lexer).ahead) = 1 BY <2>1, <2>2, Zenon
    <3> QED BY <2>2, <3>1 DEF Peeked2
  <2> QED BY <1>1, <1>3, <2>2, <2>3
<1>4. CASE Holds(lexer, <<NextToken, TokenAfter>>, AfterSecond)
  <2>1. Len(lexer.ahead) = 2 BY <1>4, ShortSequences DEF Holds
  <2>2. Peeked(lexer) = lexer BY <2>1 DEF Peeked
  <2>3. Peeked2(lexer) = lexer BY <2>1, <2>2 DEF Peeked2
  <2> QED BY <1>4, <2>2, <2>3
<1> QED BY <1>2, <1>3, <1>4 DEF Buffered

LEMMA InitBuffered == Init => Buffered
BY DEF Init, Buffered, Holds

\* Every step keeps the buffer right, and is a step of the promise or none.
LEMMA StepInOrder ==
  ASSUME Buffered, [Next]_vars
  PROVE  Buffered' /\ [Stream!Next]_(Stream!vars)
<1>1. CASE LexerInit
  <2>1. Holds(lexer, <<>>, after) BY <1>1 DEF Buffered, LexerInit
  <2>2. Holds(lexer', <<>>, AfterFirst) /\ lexer'.token = NextToken
    <3>1. /\ Holds(ReadCurrent(lexer), <<>>, Scan(text, after).cursor)
          /\ ReadCurrent(lexer).token = Scan(text, after).token
      BY <2>1, Reading
    <3> QED BY <1>1, <3>1 DEF LexerInit, NextToken, AfterFirst
  <2>3. Buffered' BY <1>1, <2>2 DEF Buffered, Holds, LexerInit, AfterFirst
  <2>4. Stream!Take BY <1>1, <2>2 DEF LexerInit, Stream!Take, NextToken
  <2> QED BY <2>3, <2>4 DEF Stream!Next
<1>2. CASE LexerNext
  <2>1. Buffered' /\ lexer'.token = NextToken
    BY <1>2, TakeInOrder DEF LexerNext, AfterFirst
  <2>2. Stream!Take BY <1>2, <2>1 DEF LexerNext, Stream!Take, NextToken
  <2> QED BY <2>1, <2>2 DEF Stream!Next
<1>3. CASE LexerPeek
  <2>1. begun /\ lexer' = Peeked(lexer) BY <1>3 DEF LexerPeek
  <2>2. UNCHANGED <<NextToken, TokenAfter, AfterFirst, AfterSecond, after, text, begun>>
    BY <1>3 DEF LexerPeek, NextToken, TokenAfter, AfterFirst, AfterSecond
  <2>3. \/ Holds(lexer', <<NextToken>>, AfterFirst)
        \/ Holds(lexer', <<NextToken, TokenAfter>>, AfterSecond)
    BY <2>1, LookInOrder
  <2>4. lexer'.token = lexer.token BY <2>1, LookInOrder
  <2>5. Buffered' BY <2>1, <2>2, <2>3 DEF Buffered, Holds
  <2>6. lexer'.ahead[1] = NextToken BY <2>3 DEF Holds
  <2>7. Stream!Look BY <1>3, <2>4, <2>6 DEF LexerPeek, Stream!Look, NextToken
  <2> QED BY <2>5, <2>7 DEF Stream!Next
<1>4. CASE LexerPeek2
  <2>1. begun /\ lexer' = Peeked2(lexer) BY <1>4 DEF LexerPeek2
  <2>2. UNCHANGED <<NextToken, TokenAfter, AfterFirst, AfterSecond, after, text, begun>>
    BY <1>4 DEF LexerPeek2, NextToken, TokenAfter, AfterFirst, AfterSecond
  <2>3. Holds(lexer', <<NextToken, TokenAfter>>, AfterSecond) BY <2>1, LookInOrder
  <2>4. lexer'.token = lexer.token BY <2>1, LookInOrder
  <2>5. Buffered' BY <2>1, <2>2, <2>3 DEF Buffered, Holds
  <2>6. lexer'.ahead[2] = TokenAfter BY <2>3 DEF Holds
  <2>7. Stream!Look
    BY <1>4, <2>4, <2>6 DEF LexerPeek2, Stream!Look, TokenAfter, AfterFirst
  <2> QED BY <2>5, <2>7 DEF Stream!Next
<1>5. CASE UNCHANGED vars
  <2> QED BY <1>5 DEF vars, Buffered, Holds, NextToken, TokenAfter, AfterFirst, AfterSecond, Stream!vars
<1> QED BY <1>1, <1>2, <1>3, <1>4, <1>5 DEF Next

\* The lexer implements the stream of tokens (InOrder), whatever the texts, the
\* limits and what a scan returns.
THEOREM ImplementsStream == Spec => InOrder
<1>1. Init => Stream!Init BY DEF Init, Stream!Init
<1> QED BY <1>1, InitBuffered, StepInOrder, PTL DEF Spec, InOrder, Stream!Spec

-----------------------------------------------------------------------------
\* What follows holds of every scanner that keeps to KeepsTo, wherever it starts
\* from.  ScannerKeepsTo of ScannerProofs says that the scanner of the code does.
ScansWell ==
  \A t \in Texts : \A p \in Positions(t) : KeepsTo(t, CursorAt(t, p), Scan(t, CursorAt(t, p)))

LEMMA ScanKeeps ==
  ASSUME ScansWell, NEW t \in Texts, NEW c, InText(t, c)
  PROVE  KeepsTo(t, c, Scan(t, c)) /\ InText(t, Scan(t, c).cursor) /\ Scan(t, c).token.kind \in Kinds
<1> DEFINE p == c.pos
<1>1. p \in Positions(t) /\ c = CursorAt(t, p) BY DEF InText
<1> HIDE DEF p
<1>2. KeepsTo(t, CursorAt(t, p), Scan(t, CursorAt(t, p))) BY <1>1 DEF ScansWell
<1>3. KeepsTo(t, c, Scan(t, c)) BY <1>1, <1>2
<1> QED BY <1>3 DEF KeepsTo

LEMMA StartInText ==
  ASSUME NEW t \in Texts
  PROVE  InText(t, Start)
<1> DEFINE P(f) == f = [k \in 0..0 |-> IF k = 0 THEN Start ELSE Advance(t, f[k - 1])]
           f0 == [k \in 0..0 |-> Start]
<1>1. P(f0) OBVIOUS
<1>2. P(CHOOSE f : P(f)) BY <1>1
<1> HIDE DEF P, f0
<1> DEFINE g == CHOOSE f : P(f)
<1>3. Advanced(t, Start, 0) = g[0] BY DEF Advanced, P
<1>4. P(g) BY <1>2
<1> HIDE DEF g
<1>5. g[0] = Start BY <1>4 DEF P
<1>6. CursorAt(t, 1) = Start
  <2>1. 1 - 1 = 0 OBVIOUS
  <2> QED BY <1>3, <1>5, <2>1 DEF CursorAt
<1>7. t \in Seq(STRING) BY TextsAssumption DEF IsText
<1> DEFINE n == Len(t)
<1>8. n \in Nat BY <1>7
<1> HIDE DEF n
<1>9. 1 \in 1..n + 1 BY <1>8
<1>10. Start.pos = 1 /\ Start \in Cursors BY DEF Start, Cursors
<1> QED BY <1>6, <1>9, <1>10 DEF InText, Positions, n

-----------------------------------------------------------------------------
\* Where the current token ends is a place in the text, and what has been taken
\* or seen has a kind.
TokensTyped ==
  /\ text \in Texts /\ InText(text, after)
  /\ {lexer.token.kind, seen.kind} \subseteq Kinds \cup {"none"}

LEMMA InitTyped == Init => TokensTyped
BY StartInText DEF Init, TokensTyped, NoToken

LEMMA StepTyped ==
  ASSUME ScansWell, TokensTyped, [Stream!Next]_(Stream!vars)
  PROVE  TokensTyped'
<1>1. /\ InText(text, AfterFirst) /\ NextToken.kind \in Kinds
      /\ TokenAfter.kind \in Kinds
  <2>1. InText(text, AfterFirst) /\ NextToken.kind \in Kinds
    BY ScanKeeps DEF TokensTyped, AfterFirst, NextToken
  <2> QED BY <2>1, ScanKeeps DEF TokensTyped, TokenAfter
<1>2. CASE Stream!Take
  BY <1>1, <1>2 DEF Stream!Take, TokensTyped, NextToken, AfterFirst, NoToken
<1>3. CASE Stream!Look
  BY <1>1, <1>3 DEF Stream!Look, TokensTyped, NextToken, AfterFirst, TokenAfter
<1>4. CASE UNCHANGED Stream!vars
  BY <1>4 DEF Stream!vars, TokensTyped
<1> QED BY <1>2, <1>3, <1>4 DEF Stream!Next

\* The type invariant.
LEMMA Typed ==
  ASSUME ScansWell, Buffered, TokensTyped
  PROVE  TypeOK
<1>1. InText(text, AfterFirst) /\ InText(text, AfterSecond) /\ InText(text, after)
  <2>1. InText(text, AfterFirst) BY ScanKeeps DEF TokensTyped, AfterFirst
  <2> QED BY <2>1, ScanKeeps DEF TokensTyped, AfterSecond
<1>2. /\ InText(text, lexer.cursor)
      /\ lexer.ahead = <<>> \/ Len(lexer.ahead) \in 1..2
  <2>1. CASE Holds(lexer, <<>>, after) BY <1>1, <2>1 DEF Holds
  <2>2. CASE Holds(lexer, <<NextToken>>, AfterFirst)
    BY <1>1, <2>2, ShortSequences DEF Holds
  <2>3. CASE Holds(lexer, <<NextToken, TokenAfter>>, AfterSecond)
    BY <1>1, <2>3, ShortSequences DEF Holds
  <2> QED BY <2>1, <2>2, <2>3 DEF Buffered
<1> QED BY <1>2 DEF TypeOK, TokensTyped, InText

\* The buffer never has more than its two tokens, and the lexer never reads behind
\* the text (TypeOK), for every scanner that keeps to KeepsTo.
THEOREM LexerTypeCorrect == ScansWell => (Spec => []TypeOK)
<1> SUFFICES ASSUME ScansWell PROVE Spec => []TypeOK OBVIOUS
<1>1. Init => Buffered /\ TokensTyped BY InitBuffered, InitTyped
<1>2. Buffered /\ TokensTyped /\ [Next]_vars => Buffered' /\ TokensTyped'
  BY StepInOrder, StepTyped
<1>3. Buffered /\ TokensTyped => TypeOK BY Typed
<1> QED BY <1>1, <1>2, <1>3, PTL DEF Spec

-----------------------------------------------------------------------------
\* What a lexer has reported is about text behind its cursor, in order.
Record(l) == l = [cursor |-> l.cursor, token |-> l.token, ahead |-> l.ahead, diags |-> l.diags]
InOrderOfText(ds) ==
  \A j, k \in DOMAIN ds : j < k => ds[j] # ds[k] /\ ~Before(ds[k].place, ds[j].place)
Told(t, l) ==
  /\ InText(t, l.cursor) /\ l.diags \in Diagnostics
  /\ InOrderOfText(l.diags)
  /\ \A k \in DOMAIN l.diags : Before(l.diags[k].place, l.cursor)

Places == [line : Nat, col : Nat]
Facts == [place : Places, why : Reasons]

LEMMA BeforeChain ==
  ASSUME NEW a \in Places, NEW b \in Cursors, NEW c \in Cursors \cup Places
  PROVE  /\ Before(a, b) /\ ~Before(c, b) => Before(a, c)
         /\ Before(a, b) /\ Before(b, c) => Before(a, c)
BY DEF Before, Places, Cursors

LEMMA FactsAre == Diagnostics = Seq(Facts)
BY DEF Diagnostics, Facts, Places

\* Diagnostics about text before c, and then some about text from c on.
LEMMA InOrderJoin ==
  ASSUME NEW c \in Cursors, NEW ds \in Seq(Facts), NEW es \in Seq(Facts),
         InOrderOfText(ds), InOrderOfText(es),
         \A k \in DOMAIN ds : Before(ds[k].place, c),
         \A k \in DOMAIN es : ~Before(es[k].place, c)
  PROVE  InOrderOfText(ds \o es)
<1> DEFINE g == ds \o es
           m == Len(ds)
           n == Len(es)
           R == Facts
<1>1. \A k \in 1..m : ds[k] \in R OBVIOUS
<1>2. \A k \in 1..n : es[k] \in R OBVIOUS
<1>3. DOMAIN ds = 1..m /\ DOMAIN es = 1..n /\ m \in Nat /\ n \in Nat OBVIOUS
<1> HIDE DEF R
<1>4. ds \in Seq(R) /\ es \in Seq(R) BY DEF R
<1>5. /\ g \in Seq(R) /\ DOMAIN g = 1..m + n
      /\ \A k \in 1..m + n :
           \/ k \in 1..m /\ g[k] = ds[k]
           \/ k - m \in 1..n /\ ~(k <= m) /\ g[k] = es[k - m]
  <2>1. g \in Seq(R) /\ Len(g) = m + n BY <1>4
  <2> QED BY <1>4, <2>1
<1> HIDE DEF g, m, n
<1>6. ASSUME NEW j \in 1..m + n, NEW k \in 1..m + n, j < k
      PROVE  g[j] # g[k] /\ ~Before(g[k].place, g[j].place)
  <2>1. j \in Int /\ k \in Int BY <1>3
  <2>2. CASE k \in 1..m
    <3>1. j \in 1..m BY <1>3, <1>6, <2>1, <2>2
    <3>2. g[j] = ds[j] /\ g[k] = ds[k] BY <1>3, <1>5, <2>1, <2>2, <3>1
    <3> QED BY <1>3, <1>6, <2>2, <3>1, <3>2 DEF InOrderOfText
  <2>3. CASE j \in 1..m /\ k \notin 1..m
    <3>1. g[j] = ds[j] BY <1>3, <1>5, <2>1, <2>3
    <3>2. k - m \in 1..n /\ g[k] = es[k - m] BY <1>5, <2>3
    <3> DEFINE a == g[j].place
               b == g[k].place
    <3>3. Before(a, c) /\ ~Before(b, c) BY <1>3, <2>3, <3>1, <3>2
    <3>4. a \in Places /\ b \in Places
      <4>1. g[j] \in R /\ g[k] \in R BY <1>1, <1>2, <2>3, <3>1, <3>2
      <4> QED BY <4>1 DEF R, Facts
    <3> HIDE DEF a, b
    <3>5. Before(a, b) BY <3>3, <3>4, BeforeChain
    <3>6. ~Before(b, a) /\ a # b BY <3>4, <3>5 DEF Before, Places
    <3>7. g[j].place # g[k].place BY <3>6 DEF a, b
    <3>8. g[j] # g[k] BY <3>7
    <3> QED BY <3>6, <3>8 DEF a, b
  <2>4. CASE j \notin 1..m
    <3>1. k \notin 1..m BY <1>3, <1>6, <2>1, <2>4
    <3>2. j - m \in 1..n /\ g[j] = es[j - m] BY <1>5, <2>4
    <3>3. k - m \in 1..n /\ g[k] = es[k - m] BY <1>5, <3>1
    <3>4. j - m < k - m BY <1>3, <1>6, <2>1
    <3> QED BY <1>3, <3>2, <3>3, <3>4 DEF InOrderOfText
  <2> QED BY <2>2, <2>3, <2>4
<1>7. InOrderOfText(g) BY <1>5, <1>6 DEF InOrderOfText
<1> QED BY <1>7 DEF g

\* One more scan: what it reports comes behind all that has been reported.
LEMMA ReadTold ==
  ASSUME ScansWell, text \in Texts, NEW l, Record(l), Told(text, l)
  PROVE  /\ Record(ReadAhead(l)) /\ Told(text, ReadAhead(l))
         /\ Record(ReadCurrent(l)) /\ Told(text, ReadCurrent(l))
<1> DEFINE c == l.cursor
           s == Scan(text, c)
           ds == l.diags
           es == s.errors
<1>1. KeepsTo(text, c, s) /\ InText(text, s.cursor)
  BY ScanKeeps DEF Told
<1>2. ds \in Seq(Facts) /\ es \in Seq(Facts) BY <1>1, FactsAre DEF Told, KeepsTo
<1>3. c \in Cursors /\ s.cursor \in Cursors BY <1>1 DEF Told, InText
<1>4. /\ \A k \in DOMAIN ds : Before(ds[k].place, c)
      /\ \A k \in DOMAIN es : ~Before(es[k].place, c)
      /\ \A k \in DOMAIN es : Before(es[k].place, s.cursor)
      /\ InOrderOfText(ds) /\ InOrderOfText(es) /\ ~Before(s.cursor, c)
  BY <1>1 DEF Told, KeepsTo, InOrderOfText
<1>5. /\ Record(ReadAhead(l)) /\ ReadAhead(l).cursor = s.cursor
      /\ ReadAhead(l).diags = ds \o es
      /\ Record(ReadCurrent(l)) /\ ReadCurrent(l).cursor = s.cursor
      /\ ReadCurrent(l).diags = ds \o es
  <2>1. l = [cursor |-> c, token |-> l.token, ahead |-> l.ahead, diags |-> ds] BY DEF Record
  <2> DEFINE r == Read(l)
  <2>2. r = [cursor |-> s.cursor, token |-> l.token, ahead |-> l.ahead, diags |-> ds \o es]
    <3> DEFINE to == s.cursor
               k == [l EXCEPT !.cursor = to]
               all == ds \o es
    <3>1. r = [k EXCEPT !.diags = all] BY DEF Read
    <3> HIDE DEF to, all, r
    <3>2. k = [cursor |-> to, token |-> l.token, ahead |-> l.ahead, diags |-> ds] BY <2>1
    <3> HIDE DEF k
    <3>3. r = [cursor |-> to, token |-> l.token, ahead |-> l.ahead, diags |-> all] BY <3>1, <3>2
    <3> QED BY <3>3 DEF to, all
  <2>3. ReadAhead(l) = [r EXCEPT !.ahead = Append(r.ahead, s.token)] BY DEF ReadAhead
  <2>4. ReadCurrent(l) = [r EXCEPT !.token = s.token] BY DEF ReadCurrent
  <2> HIDE DEF r, s, ds, es, c
  <2> DEFINE all == ds \o es
  <2> HIDE DEF all
  <2>5. r = [cursor |-> s.cursor, token |-> l.token, ahead |-> l.ahead, diags |-> all]
    BY <2>2 DEF all
  <2>6. ReadAhead(l) = [cursor |-> s.cursor, token |-> l.token,
                        ahead |-> Append(r.ahead, s.token), diags |-> all]
    BY <2>3, <2>5
  <2>7. ReadCurrent(l) = [cursor |-> s.cursor, token |-> s.token, ahead |-> l.ahead, diags |-> all]
    BY <2>4, <2>5
  <2> QED BY <2>6, <2>7 DEF Record, all
<1> HIDE DEF c, s, ds, es
<1>6. InOrderOfText(ds \o es) BY <1>2, <1>3, <1>4, InOrderJoin
<1> DEFINE all == ds \o es
           to == s.cursor
<1>7. all \in Seq(Facts) /\ \A k \in DOMAIN all : Before(all[k].place, to)
  <2> DEFINE R == Facts
             m == Len(ds)
             n == Len(es)
  <2>1. \A k \in 1..m : ds[k] \in R BY <1>2
  <2>2. \A k \in 1..n : es[k] \in R BY <1>2
  <2>3. ds \in Seq(R) /\ es \in Seq(R) BY <1>2
  <2>4. DOMAIN ds = 1..m /\ DOMAIN es = 1..n /\ m \in Nat /\ n \in Nat BY <1>2
  <2> HIDE DEF R
  <2>5. all \in Seq(R) /\ Len(all) = m + n BY <2>3
  <2>6. \A k \in 1..m + n :
          \/ k \in 1..m /\ all[k] = ds[k]
          \/ k - m \in 1..n /\ all[k] = es[k - m]
    BY <2>3, <2>5
  <2>7. DOMAIN all = 1..m + n BY <2>5
  <2> HIDE DEF all, m, n, to
  <2>8. ASSUME NEW k \in 1..m + n PROVE Before(all[k].place, to)
    <3>1. CASE k \in 1..m /\ all[k] = ds[k]
      <4>1. ds[k].place \in Places BY <2>1, <3>1 DEF R, Facts
      <4>2. Before(ds[k].place, c) BY <1>4, <2>4, <3>1
      <4>3. to \in Cursors /\ ~Before(to, c) BY <1>3, <1>4 DEF to
      <4> QED BY <1>3, <3>1, <4>1, <4>2, <4>3, BeforeChain
    <3>2. CASE k - m \in 1..n /\ all[k] = es[k - m]
      BY <1>4, <2>4, <3>2 DEF to
    <3> QED BY <2>6, <3>1, <3>2
  <2> QED BY <2>5, <2>7, <2>8 DEF R
<1> HIDE DEF all, to
<1>8. all \in Diagnostics /\ InOrderOfText(all) /\ InText(text, to)
  BY <1>1, <1>6, <1>7, FactsAre DEF all, to, s
<1>9. Told(text, ReadAhead(l)) BY <1>5, <1>7, <1>8 DEF Told, all, to
<1>10. Told(text, ReadCurrent(l)) BY <1>5, <1>7, <1>8 DEF Told, all, to
<1> QED BY <1>5, <1>9, <1>10

\* The inductive invariant of the diagnostics.
Telling == text \in Texts /\ Record(lexer) /\ Told(text, lexer)

LEMMA InitTelling == Init => Telling
<1> SUFFICES ASSUME Init PROVE Telling OBVIOUS
<1>1. text \in Texts /\ InText(text, Start) BY StartInText DEF Init
<1>2. lexer = [cursor |-> Start, token |-> NoToken, ahead |-> <<>>, diags |-> <<>>] BY DEF Init
<1>3. lexer.cursor = Start /\ lexer.diags = <<>> /\ Record(lexer) BY <1>2 DEF Record
<1>4. <<>> \in Diagnostics /\ DOMAIN <<>> = {} BY DEF Diagnostics
<1> QED BY <1>1, <1>3, <1>4 DEF Telling, Told, InOrderOfText

LEMMA StepTelling ==
  ASSUME ScansWell, Telling, [Next]_vars
  PROVE  Telling'
<1>1. text \in Texts /\ Record(lexer) /\ Told(text, lexer) BY DEF Telling
<1>2. Record(Taken(lexer)) /\ Told(text, Taken(lexer))
  <2>1. CASE lexer.ahead # <<>>
    <3> DEFINE t == Head(lexer.ahead)
               rest == Tail(lexer.ahead)
               k == [lexer EXCEPT !.token = t]
    <3>1. Taken(lexer) = [k EXCEPT !.ahead = rest] BY <2>1 DEF Taken
    <3> HIDE DEF t, rest
    <3>2. k = [cursor |-> lexer.cursor, token |-> t, ahead |-> lexer.ahead, diags |-> lexer.diags]
      BY <1>1 DEF Record
    <3> HIDE DEF k
    <3>3. Taken(lexer) = [cursor |-> lexer.cursor, token |-> t, ahead |-> rest, diags |-> lexer.diags]
      BY <3>1, <3>2
    <3> QED BY <1>1, <3>3 DEF Record, Told
  <2>2. CASE lexer.ahead = <<>>
    <3>1. Taken(lexer) = ReadCurrent(lexer) BY <2>2 DEF Taken
    <3> QED BY <1>1, <3>1, ReadTold
  <2> QED BY <2>1, <2>2
<1>3. Record(Peeked(lexer)) /\ Told(text, Peeked(lexer))
  <2>1. CASE Peeked(lexer) = ReadAhead(lexer) BY <1>1, <2>1, ReadTold
  <2>2. CASE Peeked(lexer) = lexer BY <1>1, <2>2
  <2> QED BY <2>1, <2>2 DEF Peeked
<1>4. Record(Peeked2(lexer)) /\ Told(text, Peeked2(lexer))
  <2>1. CASE Peeked2(lexer) = ReadAhead(Peeked(lexer)) BY <1>1, <1>3, <2>1, ReadTold
  <2>2. CASE Peeked2(lexer) = Peeked(lexer) BY <1>3, <2>2
  <2> QED BY <2>1, <2>2 DEF Peeked2
<1>5. CASE LexerInit
  <2>1. Record(ReadCurrent(lexer)) /\ Told(text, ReadCurrent(lexer)) BY <1>1, ReadTold
  <2> QED BY <1>1, <1>5, <2>1 DEF LexerInit, Telling, Record, Told
<1>6. CASE LexerNext BY <1>1, <1>2, <1>6 DEF LexerNext, Telling, Record, Told
<1>7. CASE LexerPeek BY <1>1, <1>3, <1>7 DEF LexerPeek, Telling, Record, Told
<1>8. CASE LexerPeek2 BY <1>1, <1>4, <1>8 DEF LexerPeek2, Telling, Record, Told
<1>9. CASE UNCHANGED vars BY <1>1, <1>9 DEF vars, Telling, Record, Told
<1> QED BY <1>5, <1>6, <1>7, <1>8, <1>9 DEF Next

\* A diagnostic is reported once and in the order of the text, however the parser
\* looks ahead of it (ErrorsOnce), for every scanner that keeps to KeepsTo.
THEOREM ErrorsReportedOnce == ScansWell => (Spec => []ErrorsOnce)
<1> SUFFICES ASSUME ScansWell PROVE Spec => []ErrorsOnce OBVIOUS
<1>1. Telling => ErrorsOnce BY DEF Telling, Told, InOrderOfText, ErrorsOnce
<1> QED BY <1>1, InitTelling, StepTelling, PTL DEF Spec

\* Wherever the lexer has got to, a scan gets further or the text has ended
\* (NeverStuck), for every scanner that keeps to KeepsTo.
THEOREM LexerNeverStuck == ScansWell => (Spec => []NeverStuck)
<1> SUFFICES ASSUME ScansWell PROVE Spec => []NeverStuck OBVIOUS
<1>1. Telling => NeverStuck
  <2> SUFFICES ASSUME Telling PROVE NeverStuck OBVIOUS
  <2>1. KeepsTo(text, lexer.cursor, Scan(text, lexer.cursor))
    BY ScanKeeps DEF Telling, Told
  <2> QED BY <2>1 DEF KeepsTo, NeverStuck
<1> QED BY <1>1, InitTelling, StepTelling, PTL DEF Spec
=============================================================================
