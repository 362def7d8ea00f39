------------------------------- MODULE Lexer -------------------------------
(***************************************************************************)
(* The Lexer (src/src/lexer.c): the current token, and up to two that were *)
(* scanned ahead of it because the parser looked at them.  The parser may  *)
(* look and take in any order.                                             *)
(***************************************************************************)
EXTENDS Cursor

CONSTANTS Texts,       \* merged texts
          Scan(_, _)   \* scan_token: Scan of Scanner, from a cursor into a text

ASSUME TextsAssumption == \A t \in Texts : IsText(t)

VARIABLES text,
          begun,  \* lexer_init has been called
          lexer,  \* the Lexer: [cursor, token, ahead, diags]
          seen,   \* what the last lexer_peek or lexer_peek2 returned
          after   \* where the current token ends (auxiliary: never read)

vars == <<text, begun, lexer, seen, after>>

NoToken == [kind |-> "none", value |-> [chars |-> <<>>], place |-> [line |-> 0, col |-> 0]]

Init ==
  /\ text \in Texts
  /\ begun = FALSE
  /\ lexer = [cursor |-> Start, token |-> NoToken, ahead |-> <<>>, diags |-> <<>>]
  /\ seen = NoToken
  /\ after = Start

\* One more token from the text, as the current one or as the last one ahead.
Read(l) == [l EXCEPT !.cursor = Scan(text, l.cursor).cursor, !.diags = @ \o Scan(text, l.cursor).errors]
ReadCurrent(l) == [Read(l) EXCEPT !.token = Scan(text, l.cursor).token]
ReadAheadMutant(l) ==                   \* what is looked at is scanned again later
  [l EXCEPT !.ahead = Append(@, Scan(text, l.cursor).token), !.diags = @ \o Scan(text, l.cursor).errors]
ReadAhead(l) == [Read(l) EXCEPT !.ahead = Append(@, Scan(text, l.cursor).token)]

\* lexer_next
TakenMutant(l) ==                       \* lookahead_count is not decremented
  IF l.ahead # <<>> THEN [l EXCEPT !.token = Head(l.ahead), !.ahead = Tail(@) \o <<l.ahead[Len(@)]>>]
  ELSE ReadCurrent(l)
Taken(l) ==
  IF l.ahead # <<>> THEN [l EXCEPT !.token = Head(l.ahead), !.ahead = Tail(@)]
  ELSE ReadCurrent(l)

\* lexer_peek, lexer_peek2
PeekedMutant(l) == ReadAhead(l)         \* lookahead_count is not looked at
Peeked(l) == IF Len(l.ahead) < 1 THEN ReadAhead(l) ELSE l
Peeked2(l) == IF Len(Peeked(l).ahead) < 2 THEN ReadAhead(Peeked(l)) ELSE Peeked(l)

LexerInit ==
  /\ ~begun
  /\ begun' = TRUE
  /\ lexer' = ReadCurrent(lexer)
  /\ after' = Scan(text, after).cursor
  /\ seen' = NoToken
  /\ UNCHANGED text

LexerNext ==
  /\ begun
  /\ lexer' = Taken(lexer)
  /\ after' = Scan(text, after).cursor
  /\ seen' = NoToken
  /\ UNCHANGED <<text, begun>>

LexerPeek ==
  /\ begun
  /\ lexer' = Peeked(lexer)
  /\ seen' = lexer'.ahead[1]
  /\ UNCHANGED <<text, begun, after>>

LexerPeek2 ==
  /\ begun
  /\ lexer' = Peeked2(lexer)
  /\ seen' = lexer'.ahead[2]
  /\ UNCHANGED <<text, begun, after>>

Next == LexerInit \/ LexerNext \/ LexerPeek \/ LexerPeek2

Spec == Init /\ [][Next]_vars

-----------------------------------------------------------------------------
\* The lexer has room for two tokens ahead, and reads the text up to the NUL
\* after it and no further.
TypeOK ==
  /\ text \in Texts
  /\ lexer.cursor.pos \in Positions(text)
  /\ lexer.ahead = <<>> \/ Len(lexer.ahead) \in 1..2
  /\ {lexer.token.kind, seen.kind} \subseteq Kinds \cup {"none"}

\* A diagnostic is reported once and in the order of the text, however often
\* the parser looks ahead of it (lexer_peek, lexer_peek2).
ErrorsOnce ==
  \A j, k \in DOMAIN lexer.diags : j < k =>
    /\ lexer.diags[j] # lexer.diags[k]
    /\ ~Before(lexer.diags[k].place, lexer.diags[j].place)

\* Nothing in the text holds the lexer up: short of the end a scan moves on, what
\* is malformed included (lexer.h: "Never aborts: an unrecognized character or
\* malformed literal is reported to `diags` and skipped").
NeverStuck ==
  LET s == Scan(text, lexer.cursor)
  IN s.token.kind = "EOF" \/ s.cursor.pos > lexer.cursor.pos

\* The tokens come one after the other, and a look takes none away.
Stream == INSTANCE TokenStream WITH token <- lexer.token
InOrder == Stream!Spec

=============================================================================
