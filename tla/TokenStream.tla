---------------------------- MODULE TokenStream ----------------------------
(***************************************************************************)
(* What the lexer promises the parser (src/src/lexer.h): the tokens of the *)
(* text one after the other, and a look at either of the next two that     *)
(* takes nothing away.                                                     *)
(***************************************************************************)
CONSTANTS Texts,
          Scan(_, _),     \* the token at a place of a text, and the place after it
          Start, NoToken


VARIABLES text,
          begun,  \* there is a current token
          token,  \* the current token
          after,  \* where the text goes on after it
          seen    \* what the last look since then returned

vars == <<text, begun, token, after, seen>>

Init ==
  /\ text \in Texts
  /\ begun = FALSE
  /\ token = NoToken
  /\ after = Start
  /\ seen = NoToken

Take ==
  /\ begun' = TRUE
  /\ token' = Scan(text, after).token
  /\ after' = Scan(text, after).cursor
  /\ seen' = NoToken
  /\ UNCHANGED text

Look ==
  /\ begun
  /\ seen' \in {Scan(text, after).token, Scan(text, Scan(text, after).cursor).token}
  /\ UNCHANGED <<text, begun, token, after>>

Next == Take \/ Look

Spec == Init /\ [][Next]_vars
=============================================================================
