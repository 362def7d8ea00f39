----------------------------- MODULE MCFrontEnd -----------------------------
(***************************************************************************)
(* Projects for the front end.  Those of a grammar are every sentence and  *)
(* every short sequence over some tokens, put where the grammar has an     *)
(* expression or a statement; the others are programs with one token       *)
(* missing, repeated or replaced, jumps in nested statements, lengths of   *)
(* arrays, files that include each other, and the driver's options.        *)
(***************************************************************************)
EXTENDS FrontEnd, Grammar, Optimize
LOCAL INSTANCE SequencesExt
LOCAL INSTANCE TLC

MCLiterals == "0" :> I(0) @@ "1" :> I(1) @@ "2" :> I(2) @@ "most" :> Lit("LONG", Radix ^ 8 \div 2 - 1)
MCTopDecl(p) == LET q == ParseTopDecl(p) IN q
MCChecked(p) == LET c == TypecheckProgram(p) IN c
MCBuilt(p, level) == LET b == CodeFor(p, level) IN b

\* ".." leaves a directory.
MCCanonical(path) ==
  LET step(s, name) == IF name = ".." /\ s # <<>> THEN Front(s) ELSE Append(s, name)
  IN FoldLeft(step, <<>>, path)

TextLineOf(tokens) == [kind |-> "text", tokens |-> tokens]
IncludeOf(path) == [kind |-> "include", path |-> path]

\* Projects of one kind: the files they may have, as functions from paths.
Projected(trees, grammar, levels, werrors, emits) ==
  [entry : {<<"main">>}, files : trees, grammar : {grammar}, level : levels, werror : werrors,
   emit : emits]
Plainly(trees) == Projected(trees, "none", {"O1"}, {FALSE}, {"none"})
Alone(texts) == {<<"main">> :> <<TextLineOf(t)>> : t \in texts}

\* Up to n words.
Short(words, n) == {SelectSeq(w, LAMBDA x : x # "none") : w \in [1..n -> words \cup {"none"}]}

-----------------------------------------------------------------------------
\* Derivations of an expression, or of statements, in a program.
InMain == <<"int", "main", "(", ")", "{", "int", "x", ";">>
MainWith(list) == Source(<<>>, <<Func(IntT, "main", <<>>, <<VarDecl(IntT, "x", <<>>)>> \o list)>>)

P == StructOf("P", << <<"n", IntT>> >>)
InObjects ==
  <<"struct", "P", "{", "int", "n", ";", "}", ";", "struct", "P", "s", ";", "int", "a", "[", "2", "]", ";",
    "int", "f", "(", ")", "{", "}", "int", "main", "(", ")", "{">>
ObjectsWith(list) ==
  Source(<<Global(P, "s", <<>>), Global(ArrayOf(IntT, 2), "a", <<>>)>>,
         <<Func(IntT, "f", <<>>, <<>>), Func(IntT, "main", <<>>, list)>>)

Around(before, after, derived, Tree(_)) == {<<before \o d[1] \o after, Tree(d[2])>> : d \in derived}
AllOf(lang) == UNION {lang[n] : n \in DOMAIN lang}
AsGrammar(d) == [derivations |-> d, sentences |-> {s[1] : s \in d}]

Name(n) == << <<n>>, Var(n) >>
One == Language({<< <<"1">>, I(1) >>})
IntWord == << <<"int">>, IntT >>
NoLang == [n \in {} |-> {}]

BinaryWords == {"x", "||", "&&", "==", "<", "+", "-", "*", "/", "!", "(", ")"}
PostfixWords == {"a", "f", "s", "n", "[", "]", "(", ")", ".", ",", "="}
CastWords == {"x", "int", "(", ")", "sizeof", "-", "*", "&"}
ElseWords == {"x", "if", "else", "while", "(", ")", ";"}
LoopWords == {"x", "while", "for", "(", ")", ";", "break", "continue"}
SwitchWords == {"x", "1", "switch", "case", "default", ":", "(", ")", "{", "}", ";"}
LocalWords == {"int", "x", "y", "*", "=", "[", "]", "1", "for", "(", ")", ";", "++", "+="}

\* An expression is a statement with its semicolon.
ExprSentences(words, primaries, types, fields, max) ==
  LET table == ExprTable(words, primaries, types, fields, max)
      derived == Simple(words, UnariesIn(table), ExprsIn(table), max)
  IN {<<d[1], <<d[2]>> >> : d \in AllOf(derived)}
StmtSentences(words, names, lengths, max) ==
  LET x == Language({Name("x"), << <<"1">>, I(1) >>})
      types == Language({IntWord, << <<"int", "*">>, PointerTo(IntT) >>})
  IN AllOf(ListsIn(StmtTable(words, types, names, lengths, x, x, max)))

Languages ==
  LET binary == ExprSentences(BinaryWords, {Name("x")}, NoLang, NoLang, 5)
      casts == ExprSentences(CastWords, {Name("x")}, Language({IntWord}), NoLang, 5)
      postfix == ExprSentences(PostfixWords, {Name("a"), Name("f"), Name("s")}, NoLang,
                               [n \in {1} |-> {<< <<"n">>, "n" >>}], 5)
  IN "binary" :> AsGrammar(Around(InMain, <<";", "}">>, binary, MainWith))
     @@ "cast" :> AsGrammar(Around(InMain, <<";", "}">>, casts, MainWith))
     @@ "postfix" :> AsGrammar(Around(InObjects, <<";", "}">>, postfix, ObjectsWith))
     @@ "else" :> AsGrammar(Around(InMain, <<"}">>, StmtSentences(ElseWords, NoLang, NoLang, 16), MainWith))
     @@ "loop" :> AsGrammar(Around(InMain, <<"}">>, StmtSentences(LoopWords, NoLang, NoLang, 9), MainWith))
     @@ "switch" :> AsGrammar(Around(InMain, <<"}">>, StmtSentences(SwitchWords, NoLang, One, 10), MainWith))
     @@ "local" :> AsGrammar(Around(InMain, <<"}">>, StmtSentences(LocalWords, AnyOf({"y"}), One, 8), MainWith))

-----------------------------------------------------------------------------
\* The projects of a grammar: its sentences, with each one token removed, and
\* all short sequences of its tokens.
AtMost(t, i, from) == IF i \in from..Len(t) THEN RemoveAt(t, i) ELSE t
GrammarProjects ==
  LET all == Languages
      longest == 40
      texts(name, trees) == Projected(Alone(trees), name, {"O1"}, {FALSE}, {"none"})
      sentences(name, before) ==
        texts(name, {AtMost(t, i, Len(before) + 1) : t \in all[name].sentences, i \in 0..longest})
      short(name, before, after, words, n) == texts(name, {before \o w \o after : w \in Short(words, n)})
  IN sentences("binary", InMain) \cup short("binary", InMain, <<";", "}">>, BinaryWords, 3)
     \cup sentences("cast", InMain) \cup short("cast", InMain, <<";", "}">>, CastWords, 3)
     \cup sentences("postfix", InObjects) \cup short("postfix", InObjects, <<";", "}">>, PostfixWords, 3)
     \cup sentences("else", InMain) \cup sentences("loop", InMain)
     \cup sentences("switch", InMain)
     \cup texts("local", all["local"].sentences) \cup short("local", InMain, <<"}">>, LocalWords, 3)

-----------------------------------------------------------------------------
\* Programs of every kind of declaration, with a token less, one more, or
\* another one in its place.
Records ==
  <<"struct", "P", "{", "int", "n", ";", "}", ";", "struct", "P", "*", "g", ";", "int", "f", "(", "int", "x", ")",
    "{", "return", "g", "->", "n", "+", "x", ";", "}", "int", "main", "(", ")", "{", "return", "f", "(", "1", ")", ";", "}">>
Loops ==
  <<"int", "a", "[", "2", "]", ";", "int", "b", "=", "1", ";", "int", "main", "(", ")", "{", "for", "(", ";", ";", ")", "{", "switch",
    "(", "1", ")", "{", "case", "1", ":", "continue", ";", "default", ":", "break", ";", "}", "}", "}">>
Spare == {";", ")", "{", "}", "[", "]", "int", "struct", "void", "x", ",", "=", "1", "sizeof", "case", "else"}
Edited(t) ==
  {RemoveAt(t, i) : i \in DOMAIN t}
    \cup {InsertAt(t, i, w) : i \in DOMAIN t, w \in Spare}
    \cup {ReplaceAt(t, i, w) : i \in DOMAIN t, w \in Spare}

\* Jumps in, between and after nested statements.
Nested(inner) ==
  {<<"while", "(", "1", ")">> \o inner, <<"for", "(", ";", ";", ")", "{">> \o inner \o <<"}">>,
   <<"{">> \o inner \o <<"}">>, <<"if", "(", "1", ")">> \o inner \o <<"else", "break", ";">>,
   <<"switch", "(", "1", ")", "{", "default", ":">> \o inner \o <<"}">>,
   <<"while", ";">> \o inner, <<"switch", "(", "1", ")", "{", "}">> \o inner}
Jumps == {<<"break", ";">>, <<"continue", ";">>}
JumpTexts ==
  LET once == UNION {Nested(j) : j \in Jumps}
      twice == UNION {Nested(s) : s \in once}
      thrice == UNION {Nested(s) : s \in twice}
  IN {InMain \o s \o j \o <<"}">> : s \in thrice, j \in Jumps \cup {<<>>}}

\* Parentheses as deep as the guard allows, and deeper, in two functions.
Bracketed(n, word) == [k \in 1..n |-> "("] \o <<word>> \o [k \in 1..n |-> ")"]
DeepTexts ==
  {InMain \o Bracketed(n, "x") \o <<";", "}", "int", "f", "(", ")", "{", "return">> \o Bracketed(m, "1") \o <<";", "}">> :
     n \in 0..5, m \in 0..5}

-----------------------------------------------------------------------------
\* Lengths of arrays: any three tokens, a struct that is not known, the division
\* that no long can hold, and what fills the data segment and is too much for it,
\* or for any segment; and two arrays that together fill the 32 bits of its size.
LengthWords == {"0", "1", "-", "!", "/", "(", ")", "sizeof", "int", "x"}
Half == <<"2", "*", "2", "*", "2", "*", "2", "*", "2">>      \* ints, of half the bytes there are
Lengths ==
  Short(LengthWords, 3)
    \cup {<<"sizeof", "(", "struct", "P", ")">>, <<"(", "-", "most", "-", "1", ")", "/", "-", "1">>}
    \cup {<<"2", "*", "2", "*", "2", "+", n>> : n \in {"1", "2"}}
    \cup {Half \o <<"+", "1">>}
ArrayA(l) == <<"int", "a", "[">> \o l \o <<"]", ";">>
ReturnsNothing == <<"int", "main", "(", ")", "{", "return", "0", ";", "}">>
LengthTexts ==
  {ArrayA(l) \o ReturnsNothing : l \in Lengths}
    \cup {<<"int", "b", "[">> \o Half \o <<"]", ";">> \o ArrayA(Half) \o ReturnsNothing}

\* Files that include each other, themselves and what is not there.  With
\* MaxNesting = 3, lib/c is too deep below main, lib/a and b.
Declares(name) == TextLineOf(<<"int", name, ";">>)
MainLines ==
  {Declares("m"), [kind |-> "malformed"]} \cup
    {IncludeOf(p) : p \in {<<"lib", "a">>, <<"lib", "..", "main">>, <<"b">>, <<"none">>}}
Trees ==
  {<<"main">> :> <<TextLineOf(<<"int", "main", "(", ")", "{", "return", "0", ";", "}">>), m1, m2>>
   @@ <<"lib", "a">> :> <<a, Declares("p"), IncludeOf(<<"..", "b">>)>>
   @@ <<"b">> :> <<b, Declares("q")>>
   @@ <<"lib", "c">> :> <<Declares("r"), TextLineOf(<<"int", ";">>)>> :
     m1 \in MainLines, m2 \in MainLines,
     a \in {Declares("s"), IncludeOf(<<"..", "main">>), IncludeOf(<<"a">>), IncludeOf(<<"c">>), IncludeOf(<<"none">>)},
     b \in {Declares("t"), IncludeOf(<<"lib", "c">>), IncludeOf(<<"lib", "a">>), IncludeOf(<<"none">>)}}
  \cup {<<"b">> :> <<Declares("q")>>}

\* A body of main without and with warnings, and an initialiser that only code
\* generation finds wrong.
Bodies == {<<"return", "0", ";">>, <<>>, <<"int", "x", ";", "return", "0", ";">>, <<"return", "0", ";", "return", "1", ";">>}
Initialisers == {<<"1">>, <<"f", "(", ")">>, <<"1", "==", "1">>}
OptionTexts ==
  {<<"int", "f", "(", ")", "{", "return", "1", ";", "}", "int", "g", "=">> \o i
     \o <<";", "int", "main", "(", ")", "{">> \o b \o <<"}">> : i \in Initialisers, b \in Bodies}

\* TLC builds each of these once; a LET keeps its coverage from unfolding what
\* it is built from, and what MCTopDecl, MCChecked and MCBuilt stand for.
MCLengths == Plainly(Alone(LengthTexts))
MCGrammars == LET languages == Languages IN languages
MCProjects ==
  LET options == Projected(Alone(OptionTexts), "none", {"O0", "O1"}, BOOLEAN, {"none", "ast", "bytecode"})
  IN GrammarProjects
       \cup Plainly(Alone(Edited(Records))) \cup Plainly(Alone(Edited(Loops)))
       \cup Plainly(Alone(JumpTexts)) \cup Plainly(Alone(DeepTexts)) \cup MCLengths \cup Plainly(Trees) \cup options
=============================================================================
