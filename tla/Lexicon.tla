------------------------------ MODULE Lexicon ------------------------------
(***************************************************************************)
(* The lexemes of the language as sets of sequences of characters, from    *)
(* the table of types in README.md and the token kinds of src/src/lexer.h. *)
(* Two rules are the code's own: any character may stand between the       *)
(* quotes of a character literal, the quote too, and a quote right after a *)
(* string literal belongs to it.                                           *)
(***************************************************************************)
EXTENDS Integers, Sequences, FiniteSets
LOCAL INSTANCE SequencesExt

CONSTANTS Letters, Keywords, MaxIdent, MaxString, MaxNumber, IntMax, LongMax

LOCAL DigitChars == <<"0", "1", "2", "3", "4", "5", "6", "7", "8", "9">>
LOCAL AllIn(s, S) == s # <<>> /\ ToSet(s) \subseteq S
LOCAL Decimal(s) == AllIn(s, ToSet(DigitChars))
LOCAL HexChars == ToSet(DigitChars) \cup {"a", "b", "c", "d", "e", "f", "A", "B", "C", "D", "E", "F"}
LOCAL WordChars == Letters \cup {"_"} \cup ToSet(DigitChars)

\* s is a sequence of A followed by one of B.
LOCAL Joined(s, A(_), B(_)) == \E k \in 0..Len(s) : A(SubSeq(s, 1, k)) /\ B(SubSeq(s, k + 1, Len(s)))
LOCAL Nothing(s) == s = <<>>
LOCAL One(S, s) == Len(s) = 1 /\ s[1] \in S

IsWord(s) == AllIn(s, WordChars) /\ s[1] \notin ToSet(DigitChars)

LOCAL Pointed(s) == Joined(s, Decimal, LAMBDA t : t # <<>> /\ t[1] = "." /\ Decimal(Tail(t)))
LOCAL Scaled(s) ==
  Joined(s, LAMBDA m : Decimal(m) \/ Pointed(m),
            LAMBDA t : /\ t # <<>> /\ t[1] \in {"e", "E"}
                       /\ Joined(Tail(t), LAMBDA u : Nothing(u) \/ One({"+", "-"}, u), Decimal))
IsDouble(s) == Pointed(s) \/ Scaled(s)
IsFloat(s) == Joined(s, IsDouble, LAMBDA t : One({"f", "F"}, t))
IsLong(s) == Joined(s, Decimal, LAMBDA t : One({"l", "L"}, t))
IsNumber(s) == Decimal(s) \/ IsLong(s) \/ IsDouble(s) \/ IsFloat(s)

LOCAL IsUnit(s) ==
  \/ Len(s) = 1 /\ s[1] \notin {"\\", "\n"}
  \/ Len(s) = 2 /\ s[1] = "\\" /\ s[2] \in {"n", "t", "r", "0", "\\", "'", "\""}
  \/ Len(s) \in 3..4 /\ s[1] = "\\" /\ s[2] = "x" /\ AllIn(SubSeq(s, 3, Len(s)), HexChars)
IsCharacter(s) ==
  Len(s) >= 3 /\ s[1] = "'" /\ s[Len(s)] = "'" /\ IsUnit(SubSeq(s, 2, Len(s) - 1))

\* Where the units of a string may end, the n of them before p taken.
LOCAL Bodies(s) ==
  LET ends[n \in 0..Len(s)] ==
        IF n = 0 THEN {1}
        ELSE {q \in 2..Len(s) : \E p \in ends[n - 1] :
                /\ p < q /\ IsUnit(SubSeq(s, p + 1, q)) /\ s[p + 1] # "\""
                /\ \A r \in q + 1..Len(s) : ~IsUnit(SubSeq(s, p + 1, r))}
  IN ends
LOCAL Quoted(s, n) ==
  n + 1 < Len(s) /\ s[1] = "\"" /\ s[Len(s)] = "\"" /\ Len(s) - 1 \in Bodies(s)[n]
LOCAL HasUnits(s, n) == Quoted(s, n) \/ (s[Len(s)] = "\"" /\ Quoted(Front(s), n))
IsString(s) == \E n \in 0..Len(s) : HasUnits(s, n)

Operators ==
  {<<c>> : c \in {"+", "-", "*", "/", "%", "<", ">", "=", "!", "&",
                  "(", ")", "{", "}", "[", "]", ",", ";", ".", ":"}}
  \cup {<<c, "=">> : c \in {"+", "-", "*", "/", "%", "<", ">", "=", "!"}}
  \cup {<<"+", "+">>, <<"-", "-">>, <<"-", ">">>, <<"&", "&">>, <<"|", "|">>}

IsLexeme(s) ==
  \/ IsWord(s) \/ IsNumber(s) \/ IsCharacter(s) \/ IsString(s)
  \/ s \in Operators

\* The limits of the lexer: a longer lexeme is reported.
LOCAL Units(s) == CHOOSE n \in 0..Len(s) : HasUnits(s, n)
Fits(s) ==
  /\ IsWord(s) => s \in Keywords \/ Len(s) < MaxIdent
  /\ IsNumber(s) =>
       Len(SelectSeq(s, LAMBDA c : c \notin {"f", "F", "l", "L"})) < MaxNumber - 1
  /\ IsString(s) => Units(s) < MaxString

-----------------------------------------------------------------------------
LOCAL Blank(s) == Len(s) = 1 /\ s[1] \in {" ", "\t", "\r", "\n"}
LOCAL LineComment(s) == Len(s) >= 2 /\ s[1] = "/" /\ s[2] = "/" /\ "\n" \notin ToSet(s)
LOCAL Opens(s) == Len(s) >= 2 /\ s[1] = "/" /\ s[2] = "*"
LOCAL Closes(s) == Len(s) >= 4 /\ SubSeq(s, Len(s) - 1, Len(s)) = <<"*", "/">>
LOCAL BlockComment(s) ==
  Opens(s) /\ Closes(s) /\ \A k \in 1..Len(s) - 1 : ~Closes(SubSeq(s, 1, k))

LOCAL Ends(text, p, Is(_)) == {q \in p + 1..Len(text) + 1 : Is(SubSeq(text, p, q - 1))}
LOCAL Farthest(S) == CHOOSE q \in S : \A r \in S : r <= q

\* The first lexeme from p on, with nothing but blanks and comments before it;
\* the end of the text counts as one.
Rule(text, p) ==
  LET rule[q \in 1..Len(text) + 1] ==
        LET blanks == Ends(text, q, LAMBDA s : Blank(s) \/ LineComment(s) \/ BlockComment(s))
            lexemes == Ends(text, q, IsLexeme)
        IN IF q > Len(text) THEN [found |-> TRUE, from |-> q, to |-> q]
           ELSE IF blanks # {} THEN rule[Farthest(blanks)]
           ELSE IF \/ Opens(SubSeq(text, q, Len(text)))
                   \/ lexemes = {} \/ ~Fits(SubSeq(text, q, Farthest(lexemes) - 1))
           THEN [found |-> FALSE, from |-> q, to |-> q]
           ELSE [found |-> TRUE, from |-> q, to |-> Farthest(lexemes)]
  IN rule[p]

\* The line and the column of a position, by counting newlines.
PlaceOf(text, p) ==
  LET newlines == {k \in 1..p - 1 : text[k] = "\n"}
  IN [line |-> 1 + Cardinality(newlines),
      col |-> p - (IF newlines = {} THEN 0 ELSE Farthest(newlines))]

\* The token a lexeme stands for.  An integer literal is an int if it fits and
\* a long otherwise; README.md gives no value to one that fits neither.
LOCAL ValueOf(digits) == FoldLeft(LAMBDA v, c : 10 * v + (CHOOSE d \in 0..9 : DigitChars[d + 1] = c), 0, digits)
LOCAL IntegerFits(token, v, long) ==
  /\ token.kind = IF long \/ v > IntMax THEN "LONG" ELSE "INT"
  /\ v <= LongMax => token.value = [int |-> v]
Denotes(token, s) ==
  CASE s = <<>> -> token.kind = "EOF"
    [] s \in Keywords -> token.kind = "KEYWORD" /\ token.value = [chars |-> s]
    [] IsWord(s) /\ s \notin Keywords -> token.kind = "IDENT" /\ token.value = [chars |-> s]
    [] Decimal(s) -> IntegerFits(token, ValueOf(s), FALSE)
    [] IsLong(s) -> IntegerFits(token, ValueOf(Front(s)), TRUE)
    [] IsDouble(s) -> token.kind = "DOUBLE" /\ token.value = [chars |-> s]
    [] IsFloat(s) -> token.kind = "FLOAT" /\ token.value = [chars |-> Front(s)]
    [] IsCharacter(s) -> token.kind = "CHAR" /\ Len(token.value.units) = 1
    [] IsString(s) -> token.kind = "STRING" /\ Len(token.value.units) = Units(s)
    [] s \in Operators -> token.kind = "OPERATOR" /\ token.value = [chars |-> s]
=============================================================================
