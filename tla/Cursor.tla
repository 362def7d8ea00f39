------------------------------- MODULE Cursor -------------------------------
(***************************************************************************)
(* The Lexer's place in a text (pos, line and col in src/src/lexer.c), and *)
(* what it keeps to when it scans a token from there.                      *)
(***************************************************************************)
EXTENDS Integers, Sequences

\* The preprocessor ends every line it copies with a newline, the last one too.
IsText(t) == t \in Seq(STRING) /\ t # <<>> /\ t[Len(t)] = "\n"
Positions(t) == 1..Len(t) + 1

Start == [pos |-> 1, line |-> 1, col |-> 1]

\* advance
Advance(t, c) ==
  IF c.pos \in DOMAIN t /\ t[c.pos] = "\n" THEN [pos |-> c.pos + 1, line |-> c.line + 1, col |-> 1]
  ELSE [pos |-> c.pos + 1, line |-> c.line, col |-> c.col + 1]

\* The cursor after n calls of advance.
Advanced(t, c, n) ==
  LET after[k \in 0..n] == IF k = 0 THEN c ELSE Advance(t, after[k - 1])
  IN after[n]
CursorAt(t, p) == Advanced(t, Start, p - 1)

PlaceOfCursor(c) == [line |-> c.line, col |-> c.col]
Before(a, b) == a.line < b.line \/ (a.line = b.line /\ a.col < b.col)

Kinds == {"EOF", "IDENT", "KEYWORD", "INT", "LONG", "FLOAT", "DOUBLE", "CHAR", "STRING", "OPERATOR"}
Reasons == {"unterminated comment", "identifier too long", "number too long", "invalid hex escape",
            "unknown escape", "invalid character literal", "more than one character",
            "string too long", "unterminated string", "unexpected character"}
Diagnostics == Seq([place : [line : Nat, col : Nat], why : Reasons])

\* c is a place of t that advance leads to.
Cursors == [pos : Nat \ {0}, line : Nat, col : Nat]
InText(t, c) == c \in Cursors /\ c.pos \in Positions(t) /\ c = CursorAt(t, c.pos)

\* What the rest of the lexer may rely on when a token has been scanned from c:
\* the cursor is where advance takes it, behind c unless the text has ended, and
\* every diagnostic is about what has just been passed, each a different one, in
\* the order of the text.
KeepsTo(t, c, s) ==
  /\ InText(t, s.cursor) /\ ~Before(s.cursor, c)
  /\ s.token.kind \in Kinds
  /\ s.token.kind = "EOF" \/ s.cursor.pos > c.pos
  /\ s.errors \in Diagnostics
  /\ \A k \in DOMAIN s.errors :
       ~Before(s.errors[k].place, c) /\ Before(s.errors[k].place, s.cursor)
  /\ \A j, k \in DOMAIN s.errors :
       j < k => s.errors[j] # s.errors[k] /\ ~Before(s.errors[k].place, s.errors[j].place)
=============================================================================
