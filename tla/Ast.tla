-------------------------------- MODULE Ast --------------------------------
(***************************************************************************)
(* Programs (src/src/ast.h).  The constructors are those of src/src/ast.c: *)
(* an expression has no type until the type checker has given it one.      *)
(***************************************************************************)
EXTENDS Types

\* Literals, named by their kind: a number or bool, NULL ("PTR"), a string
\* (its cells, without the NUL).  The kind of a literal need not agree with its
\* annotated type once an expression has been folded.
Lit(lit, v) == [kind |-> "LIT", lit |-> lit, ty |-> NoT, v |-> v]
I(v) == Lit("INT", v)
NullLit == Lit("PTR", 0)
StrLit(cells) == [kind |-> "STRING_LIT", ty |-> NoT, text |-> cells]

Var(name) == [kind |-> "VAR", ty |-> NoT, name |-> name]
Unary(op, e) == [kind |-> "UNARY", ty |-> NoT, op |-> op, expr |-> e]
AddrOfE(e) == [kind |-> "ADDR", ty |-> NoT, expr |-> e]
Deref(e) == [kind |-> "DEREF", ty |-> NoT, expr |-> e]
Binary(op, l, r) == [kind |-> "BINARY", ty |-> NoT, op |-> op, left |-> l, right |-> r]
CallE(name, args) == [kind |-> "CALL", ty |-> NoT, name |-> name, args |-> args]
Index(b, i) == [kind |-> "INDEX", ty |-> NoT, arr |-> b, index |-> i]
Member(e, field, arrow) ==
  [kind |-> "MEMBER", ty |-> NoT, of |-> e, arrow |-> arrow, field |-> field]
Dot(e, field) == Member(e, field, FALSE)
Arrow(e, field) == Member(e, field, TRUE)
CastE(t, e) == [kind |-> "CAST", ty |-> NoT, target |-> t, expr |-> e]
\* of is the type, or empty for the size of an expression.
SizeofT(t) == [kind |-> "SIZEOF", ty |-> NoT, of |-> <<t>>, expr |-> <<>>]
SizeofE(e) == [kind |-> "SIZEOF", ty |-> NoT, of |-> <<>>, expr |-> <<e>>]

\* Statements; an optional part is a sequence of at most one.
ExprS(e) == [kind |-> "EXPR", expr |-> e]
VarDecl(t, name, init) == [kind |-> "VARDECL", ty |-> t, name |-> name, init |-> init]
Assign(target, value) == [kind |-> "ASSIGN", target |-> target, value |-> value]
If(cond, then, else) == [kind |-> "IF", cond |-> cond, then |-> then, else |-> else]
While(cond, body) == [kind |-> "WHILE", cond |-> cond, body |-> body]
For(init, cond, update, body) ==
  [kind |-> "FOR", init |-> init, cond |-> cond, update |-> update, body |-> body]
Case(v, body) == [isDefault |-> FALSE, v |-> v, body |-> body]
Default(body) == [isDefault |-> TRUE, v |-> 0, body |-> body]
Switch(subject, cases) == [kind |-> "SWITCH", subject |-> subject, cases |-> cases]
Break == [kind |-> "BREAK"]
Continue == [kind |-> "CONTINUE"]
Return(value) == [kind |-> "RETURN", value |-> value]
Block(list) == [kind |-> "BLOCK", list |-> list]

\* Declarations.
Param(t, name) == [ty |-> t, name |-> name]
Func(ret, name, params, body) ==
  [ret |-> ret, name |-> name, params |-> params, body |-> Block(body)]
Global(t, name, init) == [ty |-> t, name |-> name, init |-> init]
Source(globals, funcs) == [globals |-> globals, funcs |-> funcs]
=============================================================================
