------------------------------ MODULE Scanner ------------------------------
(***************************************************************************)
(* Tokens from characters (scan_token and what it calls in                 *)
(* src/src/lexer.c).  A character is a string of one letter, and the text  *)
(* ends in a newline, as the preprocessor leaves it.                       *)
(*                                                                         *)
(* Each scan_ function is given the position it starts from and returns    *)
(* the token, the position after it, and what it reported, each at the     *)
(* position whose line and column it took.                                 *)
(***************************************************************************)
EXTENDS Cursor, SequencesExt

CONSTANTS text,       \* the merged text
          Letters,    \* the letters texts use
          Keywords,   \* KEYWORDS, as sequences of letters
          MaxIdent,   \* LEX_MAX_IDENT (64)
          MaxString,  \* LEX_MAX_STRING (256)
          MaxNumber,  \* the buffer of scan_number (128)
          IntMax, LongMax

NUL == "NUL"
Quote == "\""
White == {" ", "\t", "\r", "\n"}
Lower == <<"0", "1", "2", "3", "4", "5", "6", "7", "8", "9", "a", "b", "c", "d", "e", "f">>
Upper == SubSeq(Lower, 1, 10) \o <<"A", "B", "C", "D", "E", "F">>
Digits == {Lower[k] : k \in 1..10}
HexDigits == {Lower[k] : k \in 1..16} \cup {Upper[k] : k \in 1..16}
Alpha == Letters \cup {"_"}

\* hexval
HexVal(c) == CHOOSE n \in 0..15 : c \in {Lower[n + 1], Upper[n + 1]}

-----------------------------------------------------------------------------
\* peek_char
At(p) == IF p \in DOMAIN text THEN text[p] ELSE NUL
Part(p, q) == SubSeq(text, p, q - 1)
Truncated(s, n) == IF Len(s) > n THEN SubSeq(s, 1, n) ELSE s

\* Where a loop of advance comes to: past the characters of S, or to one of S.
Past(p, S) == Min({q \in p..Len(text) + 1 : At(q) \notin S})
Upto(p, S) == Min({q \in p..Len(text) + 1 : At(q) \in S \cup {NUL}})

\* The cursor at p, from one at or before it.
Moved(c, p) == Advanced(text, c, p - c.pos)

Err(p, why) == [at |-> p, why |-> why]
Tok(p, q, kind, value, errs) == [from |-> p, to |-> q, kind |-> kind, value |-> value, errs |-> errs]

-----------------------------------------------------------------------------
\* skip_ws_and_comments
CommentEnd(p) ==                        \* past the "*/" of a comment at p, or the end
  Min({q \in p + 2..Len(text) + 1 :
         At(q) = NUL \/ (q >= p + 4 /\ At(q - 2) = "*" /\ At(q - 1) = "/")})
Closed(p) == LET q == CommentEnd(p) IN q >= p + 4 /\ Part(q - 2, q) = <<"*", "/">>

Blanks[p \in Positions(text)] ==
  LET q == Past(p, White)
  IN IF At(q) = "/" /\ At(q + 1) = "/" THEN Blanks[Upto(q, {"\n"})]
     ELSE IF At(q) = "/" /\ At(q + 1) = "*"
     THEN IF Closed(q) THEN Blanks[CommentEnd(q)]
          ELSE [to |-> CommentEnd(q), errs |-> <<Err(q, "unterminated comment")>>]
     ELSE [to |-> q, errs |-> <<>>]

-----------------------------------------------------------------------------
\* scan_ident_or_keyword
Word(p) ==
  LET q == Past(p, Alpha \cup Digits)
      w == Part(p, q)
  IN IF w \in Keywords THEN Tok(p, q, "KEYWORD", [chars |-> w], <<>>)
     ELSE IF q - p < MaxIdent THEN Tok(p, q, "IDENT", [chars |-> w], <<>>)
     ELSE Tok(p, q, "IDENT", [chars |-> Truncated(w, MaxIdent - 1)], <<Err(p, "identifier too long")>>)

\* scan_number
Fraction(p) == IF At(p) = "." /\ At(p + 1) \in Digits THEN Past(p + 1, Digits) ELSE p
ExponentMutant(p) ==                    \* no rewind
  IF At(p) \notin {"e", "E"} THEN p
  ELSE Past(IF At(p + 1) \in {"+", "-"} THEN p + 2 ELSE p + 1, Digits)
Exponent(p) ==
  LET digits == IF At(p + 1) \in {"+", "-"} THEN p + 2 ELSE p + 1
  IN IF At(p) \in {"e", "E"} /\ At(digits) \in Digits THEN Past(digits, Digits) ELSE p

ULongMax == 2 * LongMax + 1
Strtoull(digits) ==
  FoldLeft(LAMBDA v, c : LET n == 10 * v + HexVal(c) IN IF n > ULongMax THEN ULongMax ELSE n, 0, digits)
SignedLong(v) == IF v > LongMax THEN v - ULongMax - 1 ELSE v

Number(p) ==
  LET whole == Past(p, Digits)
      q == Exponent(Fraction(whole))
      buf == Truncated(Part(p, q), MaxNumber - 1)
      v == Strtoull(buf)
      Suffixed(s) == IF At(q) \in s THEN q + 1 ELSE q
      errs == IF Len(buf) >= MaxNumber - 1 THEN <<Err(p, "number too long")>> ELSE <<>>
  IN IF q # whole
     THEN Tok(p, Suffixed({"f", "F"}), IF At(q) \in {"f", "F"} THEN "FLOAT" ELSE "DOUBLE", [chars |-> buf], errs)
     ELSE IF At(q) \in {"l", "L"} \/ v > IntMax
     THEN Tok(p, Suffixed({"l", "L"}), "LONG", [int |-> SignedLong(v)], errs)
     ELSE Tok(p, q, "INT", [int |-> v], errs)

-----------------------------------------------------------------------------
\* scan_escape_or_char: a unit is <<character>>, or <<"byte", n>> of \x.
Named == [n |-> <<"\n">>, t |-> <<"\t">>, r |-> <<"\r">>]
Unit(q, value) == [to |-> q, ok |-> TRUE, value |-> value, errs |-> <<>>]
BadUnit(q, errs) == [to |-> q, ok |-> FALSE, value |-> <<"NUL">>, errs |-> errs]

HexUnit(p, at) ==
  IF At(p) \notin HexDigits THEN BadUnit(p, <<Err(at, "invalid hex escape")>>)
  ELSE IF At(p + 1) \notin HexDigits THEN Unit(p + 1, <<"byte", HexVal(At(p))>>)
  ELSE Unit(p + 2, <<"byte", 16 * HexVal(At(p)) + HexVal(At(p + 1))>>)

UnitAt(p, at) ==
  LET c == At(p + 1)
  IN IF At(p) \in {NUL, "\n"} THEN BadUnit(p, <<>>)
     ELSE IF At(p) # "\\" THEN Unit(p + 1, <<At(p)>>)
     ELSE IF c \in DOMAIN Named THEN Unit(p + 2, Named[c])
     ELSE IF c = "0" THEN Unit(p + 2, <<"NUL">>)
     ELSE IF c \in {"\\", "'", Quote} THEN Unit(p + 2, <<c>>)
     ELSE IF c = "x" THEN HexUnit(p + 2, at)
     ELSE BadUnit(p + 2, <<Err(at, "unknown escape")>>)

\* scan_char_literal
CharacterMutant(p) ==                   \* a malformed literal is not skipped
  LET u == UnitAt(p + 1, p)
  IN IF u.ok /\ At(u.to) = "'" THEN Tok(p, u.to + 1, "CHAR", [units |-> <<u.value>>], <<>>)
     ELSE Tok(p, p, "CHAR", [units |-> <<u.value>>], <<Err(p, "invalid character literal")>>)
Character(p) ==
  LET u == UnitAt(p + 1, p)
      stop == Upto(u.to, {"'", "\n"})
      Tokened(q, why) == Tok(p, q, "CHAR", [units |-> <<u.value>>], u.errs \o why)
  IN IF ~u.ok THEN Tokened(u.to, <<Err(p, "invalid character literal")>>)
     ELSE IF At(u.to) = "'" THEN Tokened(u.to + 1, <<>>)
     ELSE Tokened(IF At(stop) = "'" THEN stop + 1 ELSE stop, <<Err(p, "more than one character")>>)

\* The loop of scan_string_literal, at q with n bytes read of the literal at p.
\* A string that was closed has its closing quote behind it.
StringLoop(p) ==
  LET loop[q \in Positions(text)] == [n \in 0..MaxString |->
        LET u == UnitAt(q, p)
        IN IF At(q) = Quote THEN [to |-> q + 1, closed |-> TRUE, units |-> <<>>, errs |-> <<>>]
           ELSE IF ~u.ok THEN [to |-> u.to, closed |-> FALSE, units |-> <<>>, errs |-> u.errs]
           ELSE IF n + 1 >= MaxString
           THEN [to |-> Upto(u.to, {Quote, "\n"}), closed |-> FALSE, units |-> <<>>,
                 errs |-> <<Err(p, "string too long")>>]
           ELSE [loop[u.to][n + 1] EXCEPT !.units = <<u.value>> \o @]]
  IN loop[p + 1][0]

\* scan_string_literal: a quote right after the closing one goes with it.
StringLiteral(p) ==
  LET body == StringLoop(p)
      Tokened(q, why) == Tok(p, q, "STRING", [units |-> body.units], body.errs \o why)
  IN IF At(body.to) = Quote THEN Tokened(body.to + 1, <<>>)
     ELSE Tokened(body.to, IF body.closed THEN <<>> ELSE <<Err(p, "unterminated string")>>)

-----------------------------------------------------------------------------
\* TOK1 and TOK2: what may follow a character in a token of two.
Single == {"+", "-", "*", "/", "%", "<", ">", "=", "!", "&", "(", ")", "{", "}", "[", "]", ",", ";", ".", ":"}
Second(c) ==
  CASE c = "+" -> {"+", "="}
    [] c = "-" -> {"-", ">", "="}
    [] c \in {"*", "/", "%", "<", ">", "=", "!"} -> {"="}
    [] c \in {"&", "|"} -> {c}
    [] OTHER -> {}

OperatorEnd(p) == IF At(p + 1) \in Second(At(p)) THEN p + 2 ELSE p + 1
IsOperator(p) == At(p) \in Single \/ OperatorEnd(p) = p + 2

\* scan_token, from p: a character that begins no token is reported and left.
TokenFrom[p \in Positions(text)] ==
  LET q == Blanks[p].to
      t == IF At(q) = NUL THEN Tok(q, q, "EOF", [chars |-> <<>>], <<>>)
           ELSE IF At(q) \in Alpha THEN Word(q)
           ELSE IF At(q) \in Digits THEN Number(q)
           ELSE IF At(q) = Quote THEN StringLiteral(q)
           ELSE IF At(q) = "'" THEN Character(q)
           ELSE IF IsOperator(q)
           THEN Tok(q, OperatorEnd(q), "OPERATOR", [chars |-> Part(q, OperatorEnd(q))], <<>>)
           ELSE [TokenFrom[q + 1] EXCEPT !.errs = <<Err(q, "unexpected character")>> \o @]
  IN [t EXCEPT !.errs = Blanks[p].errs \o @]

\* scan_token from a cursor: a Token, where it leaves the cursor, and the
\* diagnostics, each with its line and column.
ScannedFrom(c) ==
  LET t == TokenFrom[c.pos]
      Place(p) == PlaceOfCursor(Moved(c, p))
  IN [token |-> [kind |-> t.kind, value |-> t.value, place |-> Place(t.from)],
      cursor |-> Moved(c, t.to),
      errors |-> [k \in DOMAIN t.errs |-> [place |-> Place(t.errs[k].at), why |-> t.errs[k].why]]]
=============================================================================
