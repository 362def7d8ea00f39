------------------------------ MODULE MCLexer ------------------------------
(***************************************************************************)
(* Every short text over some characters that the rules of the lexer tell  *)
(* apart: numbers, quotes and escapes, comments, operators, words.         *)
(***************************************************************************)
EXTENDS Lexing

MCLetters == {"a", "e", "E", "f", "F", "i", "l", "L", "n", "r", "t", "x"}
MCKeywords == {<<"i", "f">>}

\* Texts of up to n characters, with the newline the preprocessor ends them with.
Upon(chars, n) ==
  {SelectSeq(w, LAMBDA c : c # "none") \o <<"\n">> : w \in [1..n -> chars \cup {"none"}]}

AllTexts ==
  Upon({"9", ".", "e", "-", "f", "L"}, 5)
  \cup Upon({"\"", "\\", "n", "x", "a", "\n"}, 5)
  \cup Upon({"'", "\\", "a", "x", "\n"}, 5)
  \cup Upon({"/", "*", "\n", "a"}, 5)
  \cup Upon({"+", "-", "*", "/", "%", "<", ">", "=", "!", "&", "(", ")", "{", "}", "[", "]", ",", ";", ".", ":",
         "|", "@"}, 2)
  \cup Upon({"-", "+", ">", "=", "|", "@"}, 3)
  \cup Upon({"i", "f", "_", "9", " "}, 4)
MCTexts == AllTexts
=============================================================================
