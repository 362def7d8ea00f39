------------------------------- MODULE Parser -------------------------------
(***************************************************************************)
(* The parser (src/src/parser.c).  Each operator takes the parser p (the   *)
(* struct Parser, with the tokens still to come and what has been declared *)
(* so far) and returns the one after it, in which v is what was parsed: an *)
(* expression, a statement, a type, or a list.  A null pointer is NoExpr,  *)
(* NoStmt or NoT.                                                          *)
(*                                                                         *)
(* A token is its spelling; the last one is "EOF".  Diagnostics are named  *)
(* by what is wrong, and hold the index of the token they point at.        *)
(***************************************************************************)
EXTENDS Ast
LOCAL INSTANCE SequencesExt
LOCAL INSTANCE FiniteSetsExt

CONSTANTS Literals,    \* the literals of the language, by spelling
          MaxDepth,    \* PARSER_MAX_DEPTH
          MaxParams,   \* FUNC_MAX_PARAMS
          MaxFields,   \* STRUCT_MAX_FIELDS
          MaxStructs   \* STRUCT_MAX_DEFS

Basic == [void |-> VoidT, bool |-> BoolT, char |-> CharT, int |-> IntT, long |-> LongT,
          float |-> FloatT, double |-> DoubleT]
TypeWords == DOMAIN Basic \cup {"struct"}         \* starts_type
Keywords == TypeWords \cup
  {"true", "false", "NULL", "if", "else", "while", "for", "break", "continue", "return",
   "switch", "case", "default", "sizeof"}

\* One level of precedence after the other, the loosest first.
Levels == << {"||"}, {"&&"}, {"==", "!="}, {"<", ">", "<=", ">="}, {"+", "-"}, {"*", "/", "%"} >>
OpName(k) ==
  CASE k = "==" -> "EQ" [] k = "!=" -> "NE" [] k = "<" -> "LT" [] k = ">" -> "GT"
    [] k = "<=" -> "LE" [] k = ">=" -> "GE" [] OTHER -> k

Punctuation == UNION {Levels[k] : k \in DOMAIN Levels} \cup
  {"!", "&", "=", "+=", "-=", "*=", "/=", "%=", "++", "--", "(", ")", "{", "}", "[", "]",
   ",", ";", ".", "->", ":", "EOF"}

\* TokenKind: literals and identifiers of one kind each.
KindOf(t) ==
  IF t \in Keywords \cup Punctuation THEN t ELSE IF t \in DOMAIN Literals THEN "LIT" ELSE "IDENT"

NoExpr == [kind |-> "NULL"]
NoStmt == [kind |-> "NULL"]
Present(x) == IF x.kind = "NULL" THEN <<>> ELSE <<x>>

\* parser_init
ParserOf(toks) ==
  [toks |-> toks, at |-> 1, errors |-> <<>>, depth |-> 0, stmtDepth |-> 0, loops |-> 0,
   switches |-> 0, structs |-> <<>>, globals |-> <<>>, funcs |-> <<>>, crashed |-> FALSE,
   v |-> <<>>]

Cur(p) == p.toks[p.at]
Kind(p) == KindOf(Cur(p))
Is(p, k) == Kind(p) = k
AtEof(p) == Is(p, "EOF")
Ahead(p, n) == KindOf(p.toks[IF p.at + n <= Len(p.toks) THEN p.at + n ELSE Len(p.toks)])
Advance(p) == IF Is(p, "EOF") THEN p ELSE [p EXCEPT !.at = @ + 1]
Yield(p, v) == [p EXCEPT !.v = v]

Error(p, at, why) == [p EXCEPT !.errors = Append(@, [why |-> why, at |-> at])]
Expect(p, k) == IF Is(p, k) THEN Advance(p) ELSE Error(p, p.at, "expected token")
NoIdent(p) == Error(p, p.at, "expected identifier")
ExpectIdent(p) == IF Is(p, "IDENT") THEN Yield(Advance(p), Cur(p)) ELSE Yield(NoIdent(p), "")

\* The first token of one of the kinds, from the current one on.
FirstOf(p, kinds) == Min({i \in p.at..Len(p.toks) : KindOf(p.toks[i]) \in kinds})
SyncToStmt(p) ==
  LET q == [p EXCEPT !.at = FirstOf(p, {";", "}", "EOF"})] IN IF Is(q, ";") THEN Advance(q) ELSE q
SyncToToplevelMutant(p) ==               \* a semicolon ends a declaration, but is left
  [p EXCEPT !.at = FirstOf(p, TypeWords \cup {"EOF", ";"})]
SyncToToplevel(p) ==
  LET q == Advance(p) IN [q EXCEPT !.at = FirstOf(q, TypeWords \cup {"EOF"})]

-----------------------------------------------------------------------------
\* parse_type_name
StructNamed(p, name) == SelectInSeq(p.structs, LAMBDA t : t.name = name)

RECURSIVE Stars(_, _)
Stars(p, t) == IF Is(p, "*") THEN Stars(Advance(p), PointerTo(t)) ELSE Yield(p, t)

ParseTypeName(p) ==
  LET q == Advance(p)
      i == StructNamed(p, Cur(q))
  IN CASE Kind(p) \in DOMAIN Basic -> Stars(q, Basic[Kind(p)])
       [] Is(p, "struct") /\ ~Is(q, "IDENT") -> Yield(NoIdent(q), NoT)
       [] Is(p, "struct") /\ Is(q, "IDENT") ->
            IF i = 0 THEN Yield(Error(Advance(q), p.at, "unknown struct"), NoT)
            ELSE Stars(Advance(q), p.structs[i])
       [] Kind(p) \notin TypeWords -> Yield(Error(p, p.at, "expected type"), NoT)

-----------------------------------------------------------------------------
\* Expressions.
RECURSIVE ParseBinary(_, _), BinaryTail(_, _), ParseCast(_), ParseUnary(_), ParsePrimary(_),
          PostfixTail(_), Arguments(_, _)

ParseExprMutant(p) ==                   \* too deep: the depth is not taken back
  IF p.depth = MaxDepth THEN Yield(Error([p EXCEPT !.depth = @ + 1], p.at, "too deep"), I(0))
  ELSE LET e == ParseBinary([p EXCEPT !.depth = @ + 1], 1) IN [e EXCEPT !.depth = @ - 1]
ParseExpr(p) ==
  IF p.depth = MaxDepth THEN Yield(Error(p, p.at, "too deep"), I(0))
  ELSE LET e == ParseBinary([p EXCEPT !.depth = @ + 1], 1) IN [e EXCEPT !.depth = @ - 1]

\* parse_logic_or, parse_logic_and, parse_equality, parse_relational,
\* parse_additive and parse_term, with the loop they share.
ParseBinary(p, level) ==
  IF level > Len(Levels) THEN ParseCast(p) ELSE BinaryTail(ParseBinary(p, level + 1), level)
BinaryTailMutant(p, level) ==            \* the right operand takes all that follows
  IF Kind(p) \notin Levels[level] THEN p
  ELSE LET r == ParseBinary(Advance(p), level)
       IN BinaryTail(Yield(r, Binary(OpName(Kind(p)), p.v, r.v)), level)
BinaryTail(p, level) ==
  IF Kind(p) \notin Levels[level] THEN p
  ELSE LET r == ParseBinary(Advance(p), level + 1)
       IN BinaryTail(Yield(r, Binary(OpName(Kind(p)), p.v, r.v)), level)

\* A parenthesis opens a cast or a sizeof of a type only before a type.
TypeInParens(p) == Is(p, "(") /\ Ahead(p, 1) \in TypeWords
ParseParenType(p) == Expect(ParseTypeName(Advance(p)), ")")

ParseCast(p) ==
  LET t == ParseParenType(p)
      e == ParseCast(t)
  IN IF ~TypeInParens(p) THEN ParseUnary(p)
     ELSE IF t.v = NoT THEN e ELSE Yield(e, CastE(t.v, e.v))

ParseUnary(p) ==
  LET q == Advance(p)
      e == ParseUnary(q)
      t == ParseParenType(q)
  IN CASE Kind(p) \in {"-", "!"} -> Yield(e, Unary(Kind(p), e.v))
       [] Is(p, "*") -> Yield(e, Deref(e.v))
       [] Is(p, "&") -> Yield(e, AddrOfE(e.v))
       [] Is(p, "sizeof") -> IF TypeInParens(q) THEN Yield(t, SizeofT(t.v)) ELSE Yield(e, SizeofE(e.v))
       [] OTHER -> LET f == ParsePrimary(p) IN IF f.v = NoExpr THEN f ELSE PostfixTail(f)

ParsePrimary(p) ==
  LET q == Advance(p)
      e == ParseExpr(q)
  IN CASE Is(p, "LIT") -> Yield(q, Literals[Cur(p)])
       [] Kind(p) \in {"true", "false"} -> Yield(q, Lit("BOOL", IF Is(p, "true") THEN 1 ELSE 0))
       [] Is(p, "NULL") -> Yield(q, NullLit)
       [] Is(p, "IDENT") -> Yield(q, Var(Cur(p)))
       [] Is(p, "(") -> Expect(e, ")")
       [] OTHER -> Yield(Advance(Error(p, p.at, "unexpected token")), NoExpr)

Arguments(p, args) ==
  LET a == ParseExpr(p)
      list == args \o Present(a.v)
  IN IF Is(a, ",") THEN Arguments(Advance(a), list) ELSE Yield(a, list)

\* What follows the primary p.v: subscripts, members and calls.
PostfixTail(p) ==
  LET q == Advance(p)
      i == ParseExpr(q)
      n == ExpectIdent(q)
      a == IF Is(q, ")") THEN Yield(q, <<>>) ELSE Arguments(q, <<>>)
  IN CASE Is(p, "[") -> PostfixTail(Yield(Expect(i, "]"), Index(p.v, i.v)))
       [] Kind(p) \in {".", "->"} ->
            IF n.v = "" THEN Yield(n, p.v) ELSE PostfixTail(Yield(n, Member(p.v, n.v, Is(p, "->"))))
       [] Is(p, "(") ->
            IF p.v.kind # "VAR" THEN Advance(Error(p, p.at, "not callable"))
            ELSE PostfixTail(Yield(Expect(a, ")"), CallE(p.v.name, a.v)))
       [] OTHER -> p

-----------------------------------------------------------------------------
\* eval_const_expr: a value; none, if the expression is not constant; or a
\* crash.  A part that is missing because it was malformed is dereferenced,
\* as is the type of a sizeof that names no struct; the host's division traps
\* on the least long.
Value(v) == [out |-> "value", v |-> Signed(v, 8)]
NoValue == [out |-> "none", v |-> 0]
Crash == [out |-> "crash", v |-> 0]

ConstBinary(op, a, b) ==
  CASE op = "+" -> Value(a + b)
    [] op = "-" -> Value(a - b)
    [] op = "*" -> Value(a * b)
    [] op \in {"/", "%"} /\ b = 0 -> NoValue
    [] op \in {"/", "%"} /\ b = -1 /\ a # 0 /\ Signed(-a, 8) = a -> Crash
    [] op = "/" -> Value(Quot(a, b))
    [] op = "%" -> Value(Rem(a, b))
    [] OTHER -> NoValue

RECURSIVE ConstValue(_)
ConstValue(e) ==
  CASE e.kind = "NULL" -> Crash
    [] e.kind = "LIT" -> IF e.lit \in {"INT", "LONG", "CHAR", "BOOL"} THEN Value(e.v) ELSE NoValue
    [] e.kind = "UNARY" ->
         LET a == ConstValue(e.expr)
         IN IF a.out # "value" THEN a
            ELSE Value(IF e.op = "-" THEN -a.v ELSE IF a.v = 0 THEN 1 ELSE 0)
    [] e.kind = "BINARY" ->
         LET a == ConstValue(e.left)
             b == ConstValue(e.right)
         IN IF a.out # "value" THEN a ELSE IF b.out # "value" THEN b ELSE ConstBinary(e.op, a.v, b.v)
    [] e.kind = "SIZEOF" ->
         IF e.of = <<>> THEN NoValue ELSE IF e.of = <<NoT>> THEN Crash ELSE Value(e.of[1].size)
    [] OTHER -> NoValue

\* parse_const_int and parse_const_array_len: v holds the value, if there is one.
ParseConstInt(p) ==
  LET e == ParseExpr(p)
      c == ConstValue(e.v)
  IN IF e.v = NoExpr THEN Yield(e, <<>>)
     ELSE CASE c.out = "value" -> Yield(e, <<c.v>>)
            [] c.out = "none" -> Yield(Error(e, p.at, "not constant"), <<>>)
            [] c.out = "crash" -> [e EXCEPT !.crashed = TRUE, !.v = <<>>]

ParseArrayLen(p) ==
  LET n == ParseConstInt(p)
  IN IF n.v = <<>> THEN n
     ELSE IF n.v[1] <= 0 THEN Yield(Error(n, p.at, "array size"), <<>>)
     ELSE Yield(n, <<U32(n.v[1])>>)

\* A type, a name, and perhaps a length: what a local and a field begin with.
\* v is empty if any of it is malformed.
Declarator(p) ==
  LET t == ParseTypeName(p)
      n == ExpectIdent(t)
      len == ParseArrayLen(Advance(n))
  IN IF t.v = NoT THEN Yield(t, <<>>)
     ELSE IF n.v = "" THEN Yield(n, <<>>)
     ELSE IF ~Is(n, "[") THEN Yield(n, <<t.v, n.v>>)
     ELSE IF len.v = <<>> THEN len
     ELSE Yield(Expect(len, "]"), IF Is(len, "]") THEN <<ArrayOf(t.v, len.v[1]), n.v>> ELSE <<>>)

-----------------------------------------------------------------------------
\* Statements.
RECURSIVE ParseStmt(_), Stmts(_, _, _), Cases(_, _)

\* Parse, unless the part is left out; v holds what there is.
IfThere(p, absent, Parse(_)) ==
  IF absent THEN Yield(p, <<>>) ELSE LET e == Parse(p) IN Yield(e, Present(e.v))
Initialiser(p) ==
  IF ~Is(p, "=") THEN Yield(p, <<>>) ELSE LET e == ParseExpr(Advance(p)) IN Yield(e, Present(e.v))

ParseLocal(p) ==
  LET d == Declarator(p)
      i == Initialiser(d)
  IN IF d.v = <<>> THEN Yield(SyncToStmt(d), NoStmt)
     ELSE Yield(Expect(i, ";"), VarDecl(d.v[1], d.v[2], i.v))

StepOp == [k \in {"++", "--"} |-> IF k = "++" THEN "+" ELSE "-"]
CompoundOp == [k \in {"+=", "-=", "*=", "/=", "%="} |->
                 CASE k = "+=" -> "+" [] k = "-=" -> "-" [] k = "*=" -> "*" [] k = "/=" -> "/"
                   [] k = "%=" -> "%"]

\* `x op= y` is `x = x op y`, with a copy of x.
ParseSimple(p) ==
  LET u == ParseUnary(Advance(p))
      e == ParseExpr(p)
      r == ParseExpr(Advance(e))
      update(x, op, y) == Assign(x, Binary(op, x, y))
  IN IF Kind(p) \in DOMAIN StepOp THEN Yield(u, update(u.v, StepOp[Kind(p)], I(1)))
     ELSE IF e.v = NoExpr THEN Yield(e, NoStmt)
     ELSE CASE Kind(e) \in DOMAIN StepOp -> Yield(Advance(e), update(e.v, StepOp[Kind(e)], I(1)))
            [] Is(e, "=") -> Yield(r, Assign(e.v, r.v))
            [] Kind(e) \in DOMAIN CompoundOp -> Yield(r, update(e.v, CompoundOp[Kind(e)], r.v))
            [] OTHER -> Yield(e, ExprS(e.v))

\* `( expr )` after the keyword of an if, a while or a switch
Subject(p) == LET e == ParseExpr(Expect(Advance(p), "(")) IN Expect(e, ")")

InLoop(p) == LET b == ParseStmt([p EXCEPT !.loops = @ + 1]) IN [b EXCEPT !.loops = @ - 1]

ParseIf(p) ==
  LET c == Subject(p)
      t == ParseStmt(c)
      f == IfThere(IF Is(t, "else") THEN Advance(t) ELSE t, ~Is(t, "else"), ParseStmt)
  IN Yield(f, If(c.v, t.v, f.v))

ParseWhile(p) ==
  LET c == Subject(p)
      b == InLoop(c)
  IN Yield(b, While(c.v, b.v))

ForDecl(p) ==
  LET t == ParseTypeName(p)
      n == ExpectIdent(t)
      e == ParseExpr(Expect(n, "="))
  IN Yield(e, VarDecl(t.v, n.v, Present(e.v)))

ParseFor(p) ==
  LET o == Expect(Advance(p), "(")
      i == IF Kind(o) \in TypeWords THEN IfThere(o, FALSE, ForDecl)
           ELSE IfThere(o, Is(o, ";"), ParseSimple)
      i2 == Expect(i, ";")
      c == IfThere(i2, Is(i2, ";"), ParseExpr)
      c2 == Expect(c, ";")
      u == IfThere(c2, Is(c2, ")"), ParseSimple)
      b == InLoop(Expect(u, ")"))
  IN Yield(b, For(i.v, c.v, u.v, b.v))

CaseEnds == {"case", "default", "}", "EOF"}
Cases(p, list) ==
  LET n == ParseConstInt(Advance(p))
      label == IF Is(p, "default") THEN Yield(Advance(p), <<0>>) ELSE n
      b == Stmts(Expect(label, ":"), CaseEnds, <<>>)
  IN CASE Kind(p) \in {"}", "EOF"} -> Yield(p, list)
       [] Kind(p) \in {"case", "default"} ->
            IF label.v = <<>> THEN Cases(SyncToStmt(label), list)
            ELSE Cases(b, Append(list, IF Is(p, "default") THEN Default(b.v) ELSE Case(n.v[1], b.v)))
       [] OTHER -> Cases(SyncToStmt(Error(p, p.at, "expected case")), list)

ParseSwitch(p) ==
  LET s == Subject(p)
      c == Cases([Expect(s, "{") EXCEPT !.switches = @ + 1], <<>>)
  IN Yield(Expect([c EXCEPT !.switches = @ - 1], "}"), Switch(s.v, c.v))

\* break and continue: reported where there is nothing to leave or to repeat.
JumpMutant(p, s, ok, why) == Yield(Expect(Advance(p), ";"), s)       \* not looked at
Jump(p, s, ok, why) ==
  LET q == Advance(p) IN Yield(Expect(IF ok THEN q ELSE Error(q, p.at, why), ";"), s)

ParseReturn(p) ==
  LET q == Advance(p)
      v == IfThere(q, Is(q, ";"), ParseExpr)
  IN Yield(Expect(v, ";"), Return(v.v))

Stmts(p, ends, list) ==
  IF Kind(p) \in ends THEN Yield(p, list)
  ELSE LET s == ParseStmt(p) IN Stmts(s, ends, list \o Present(s.v))

ParseBlock(p) ==
  LET b == Stmts(Expect(p, "{"), {"}", "EOF"}, <<>>) IN Yield(Expect(b, "}"), Block(b.v))

ParseStmtInner(p) ==
  CASE Is(p, "{") -> ParseBlock(p)
    [] Kind(p) \in TypeWords -> ParseLocal(p)
    [] Is(p, "if") -> ParseIf(p)
    [] Is(p, "while") -> ParseWhile(p)
    [] Is(p, "for") -> ParseFor(p)
    [] Is(p, "switch") -> ParseSwitch(p)
    [] Is(p, "break") -> Jump(p, Break, p.loops + p.switches > 0, "break outside")
    [] Is(p, "continue") -> Jump(p, Continue, p.loops > 0, "continue outside")
    [] Is(p, "return") -> ParseReturn(p)
    [] OTHER -> LET s == ParseSimple(p) IN Expect(s, ";")

ParseStmt(p) ==
  IF p.stmtDepth = MaxDepth THEN Yield(SyncToStmt(Error(p, p.at, "too deep")), NoStmt)
  ELSE LET s == ParseStmtInner([p EXCEPT !.stmtDepth = @ + 1]) IN [s EXCEPT !.stmtDepth = @ - 1]

-----------------------------------------------------------------------------
\* Declarations.
RECURSIVE Fields(_, _, _), Params(_, _, _)

\* struct_define: every field is looked at before the struct is given up.
StructDefine(p, at, name, fields) ==
  LET twins(i) == {j \in 1..i - 1 : fields[j][1] = fields[i][1]}
      bad(i) == IF fields[i][2].kind = "VOID" THEN <<"void field">>
                ELSE [k \in 1..Cardinality(twins(i)) |-> "duplicate field"]
      wrong == FlattenSeq([i \in DOMAIN fields |-> bad(i)])
  IN CASE StructNamed(p, name) # 0 -> Error(p, at, "redefinition of struct")
       [] StructNamed(p, name) = 0 /\ Len(p.structs) >= MaxStructs -> Error(p, at, "too many structs")
       [] OTHER ->
            IF wrong = <<>> THEN [p EXCEPT !.structs = Append(@, StructOf(name, fields))]
            ELSE FoldLeft(LAMBDA q, why : Error(q, at, why), p, wrong)

Fields(p, at, fields) ==
  LET d == Declarator(p)
      e == Expect(d, ";")
      more == Append(fields, <<d.v[2], d.v[1]>>)
  IN CASE Kind(p) \in {"}", "EOF"} -> Yield(p, fields)
       [] OTHER -> IF d.v = <<>> THEN Fields(SyncToStmt(d), at, fields)
                   ELSE IF ~Is(d, ";") THEN Fields(SyncToStmt(e), at, fields)
                   ELSE IF Len(fields) < MaxFields THEN Fields(e, at, more)
                   ELSE Fields(Error(e, at, "too many fields"), at, fields)

ParseStructDecl(p) ==
  LET n == ExpectIdent(Advance(p))
      f == Fields(Expect(n, "{"), p.at, <<>>)
      c == Expect(f, "}")
      q == IF Is(c, ";") THEN Advance(c) ELSE c
  IN CASE n.v = "" -> SyncToToplevel(n)
       [] n.v # "" /\ ~Is(n, "{") -> SyncToToplevel(Expect(n, "{"))
       [] OTHER -> StructDefine(q, p.at, n.v, f.v)

\* The brackets after a parameter; its length is read and forgotten.
ParamSuffix(p) ==
  LET q == Advance(p) IN Expect(IF Is(q, "]") THEN q ELSE ParseArrayLen(q), "]")

Params(p, at, params) ==
  LET t == ParseTypeName(p)
      n == ExpectIdent(t)
      q == IF Is(n, "[") THEN ParamSuffix(n) ELSE n
      one == Param(IF Is(n, "[") THEN PointerTo(t.v) ELSE t.v, n.v)
      full == Len(params) >= MaxParams
      r == IF full THEN Error(q, at, "too many parameters") ELSE q
      more == IF full THEN params ELSE Append(params, one)
  IN IF t.v = NoT THEN Yield(SyncToStmt(t), params)
     ELSE IF n.v = "" THEN Yield(n, params)
     ELSE IF Is(r, ",") THEN Params(Advance(r), at, more) ELSE Yield(r, more)

\* The declaration began at token `at`; p is at the `(`.
ParseFuncDecl(p, at, ret, name) ==
  LET q == Advance(p)
      ps == CASE Is(q, "void") /\ Ahead(q, 1) = ")" -> Yield(Advance(q), <<>>)
              [] Is(q, ")") -> Yield(q, <<>>)
              [] OTHER -> Params(q, at, <<>>)
      b == ParseBlock(Expect(ps, ")"))
  IN [b EXCEPT !.funcs = Append(@, Func(ret, name, ps.v, b.v.list))]

ParseGlobal(p, t, name) ==
  LET len == ParseArrayLen(Advance(p))
      ty == IF Is(p, "[") /\ len.v # <<>> THEN ArrayOf(t, len.v[1]) ELSE t
      i == Initialiser(IF Is(p, "[") THEN Expect(len, "]") ELSE p)
      e == Expect(i, ";")
  IN [IF Is(i, ";") THEN e ELSE SyncToToplevel(e) EXCEPT !.globals = Append(@, Global(ty, name, i.v))]

ParseTopDecl(p) ==
  LET t == ParseTypeName(p)
      n == ExpectIdent(t)
  IN IF Is(p, "struct") /\ Ahead(p, 1) = "IDENT" /\ Ahead(p, 2) = "{" THEN ParseStructDecl(p)
     ELSE IF t.v = NoT THEN SyncToToplevel(t)
     ELSE IF n.v = "" THEN SyncToToplevel(n)
     ELSE IF Is(n, "(") THEN ParseFuncDecl(n, p.at, t.v, n.v)
     ELSE ParseGlobal(n, t.v, n.v)

\* The Program parse_program returns.
Parsed(p) == Source(p.globals, p.funcs)
=============================================================================
