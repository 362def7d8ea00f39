------------------------------- MODULE Lexing -------------------------------
(***************************************************************************)
(* The lexer over the scanner: Lexer reads the texts with Scanner, and     *)
(* what it reads is held against the definitions of Lexicon.               *)
(***************************************************************************)
EXTENDS Lexer

CONSTANTS Letters, Keywords, MaxIdent, MaxString, MaxNumber, IntMax, LongMax

ASSUME LimitsAssumption ==
  /\ {MaxIdent, MaxString, MaxNumber, IntMax, LongMax} \subseteq Nat \ {0}
  /\ IntMax < LongMax

LOCAL INSTANCE Lexicon
Scanner(t) == INSTANCE Scanner WITH text <- t

\* What Scan is given as.  The LET keeps TLC's coverage from unfolding the scanner.
ScanToken(t, c) == LET s == Scanner(t)!ScannedFrom(c) IN s

-----------------------------------------------------------------------------
\* What is scanned next is the longest lexeme there by the definitions of
\* Lexicon, at its own line and column, and without a diagnostic; where they
\* give none, something is reported (scan_token).
LongestMatch ==
  LET c == lexer.cursor
      r == Rule(text, c.pos)
      s == Scan(text, c)
  IN IF r.found
     THEN /\ s.errors = <<>>
          /\ s.token.place = PlaceOf(text, r.from)
          /\ s.cursor.pos = r.to
          /\ Denotes(s.token, SubSeq(text, r.from, r.to - 1))
     ELSE s.errors # <<>>
=============================================================================
