------------------------------ MODULE Grammar ------------------------------
(***************************************************************************)
(* The grammar of src/README.md, section 4, as sets of derivations: a      *)
(* derivation is <<tokens, tree>>.  Nothing is parsed here: the            *)
(* derivations of n tokens are put together from those of fewer tokens,    *)
(* for every n up to a bound, so that what the parser makes of some tokens *)
(* can be looked up.                                                       *)
(*                                                                         *)
(* A language is a function from lengths to the derivations of that many   *)
(* tokens.  Words is the alphabet a table is built over.                   *)
(***************************************************************************)
EXTENDS Parser
LOCAL INSTANCE SequencesExt

Derivations(lang, n) == IF n \in DOMAIN lang THEN lang[n] ELSE {}

T(word) == [n \in {1} |-> {<< <<word>>, word >>}]
AnyOf(words) == [n \in {1} |-> {<< <<w>>, w >> : w \in words}]
Language(set) == [n \in {Len(d[1]) : d \in set} |-> {d \in set : Len(d[1]) = n}]

\* The ways to make n tokens of the parts, one after the other.
RECURSIVE Sequences(_, _)
Sequences(parts, n) ==
  IF parts = <<>> THEN IF n = 0 THEN {<< <<>>, <<>> >>} ELSE {}
  ELSE UNION {IF Derivations(parts[1], k) = {} THEN {}
              ELSE {<<d[1] \o rest[1], <<d[2]>> \o rest[2]>> :
                      d \in Derivations(parts[1], k), rest \in Sequences(Tail(parts), n - k)} :
              k \in 0..n}

\* One production: its tree, from those of its parts.
Rule(n, parts, Tree(_)) == {<<d[1], Tree(d[2])>> : d \in Sequences(parts, n)}
Spelled(words, rules) == {d \in UNION rules : ToSet(d[1]) \subseteq words}

\* A part that may be left out, and a list.
Maybe(lang) ==
  [n \in DOMAIN lang \cup {0} |->
     IF n = 0 THEN {<< <<>>, <<>> >>} ELSE {<<d[1], <<d[2]>> >> : d \in lang[n]}]
OrNone(lists) ==
  [n \in DOMAIN lists \cup {0} |-> IF n = 0 THEN {<< <<>>, <<>> >>} ELSE lists[n]]
ListsOf(n, one, separator, list) ==
  {<<d[1], <<d[2]>> >> : d \in Derivations(one, n)}
    \cup Rule(n, <<one>> \o separator \o <<list>>, LAMBDA t : <<t[1]>> \o t[Len(t)])

-----------------------------------------------------------------------------
\* Expressions of up to max tokens: a table by length of the derivations of
\* each nonterminal.  primaries are the names and literals, types the names of
\* types, fields those of members.
Precedence ==     \* logic_or, logic_and, equality, relational, additive, term
  << {"||"}, {"&&"}, {"==", "!="}, {"<", ">", "<=", ">="}, {"+", "-"}, {"*", "/", "%"} >>

CallOf(e, args) == CallE(IF e.kind = "VAR" THEN e.name ELSE "", args)

LongerExprs(words, primaries, types, fields, table, n) ==
  LET expr == [k \in DOMAIN table |-> table[k].levels[1]]
      level(j) == [k \in DOMAIN table |-> table[k].levels[j]]
      args == [k \in DOMAIN table |-> table[k].args]
      postfixes == [k \in DOMAIN table |-> table[k].postfix]
      unaries == [k \in DOMAIN table |-> table[k].unary]
      postfix == Spelled(words,
        {IF n = 1 THEN primaries ELSE {},
         Rule(n, <<T("("), expr, T(")")>>, LAMBDA t : t[2]),
         Rule(n, <<postfixes, T("["), expr, T("]")>>, LAMBDA t : Index(t[1], t[3])),
         Rule(n, <<postfixes, AnyOf({".", "->"}), fields>>,
              LAMBDA t : Member(t[1], t[3], t[2] = "->")),
         Rule(n, <<postfixes, T("("), T(")")>>, LAMBDA t : CallOf(t[1], <<>>)),
         Rule(n, <<postfixes, T("("), args, T(")")>>, LAMBDA t : CallOf(t[1], t[3]))})
      unary == Spelled(words,
        {postfix,
         Rule(n, <<AnyOf({"-", "!"}), unaries>>, LAMBDA t : Unary(t[1], t[2])),
         Rule(n, <<T("*"), unaries>>, LAMBDA t : Deref(t[2])),
         Rule(n, <<T("&"), unaries>>, LAMBDA t : AddrOfE(t[2])),
         Rule(n, <<T("sizeof"), T("("), types, T(")")>>, LAMBDA t : SizeofT(t[3])),
         Rule(n, <<T("sizeof"), unaries>>, LAMBDA t : SizeofE(t[2]))})
      cast == Spelled(words,
        {unary, Rule(n, <<T("("), types, T(")"), level(7)>>, LAMBDA t : CastE(t[2], t[4]))})
      looser(levels, j) ==
        <<Spelled(words,
            {levels[1],
             Rule(n, <<level(j), AnyOf(Precedence[j]), level(j + 1)>>,
                  LAMBDA t : Binary(OpName(t[2]), t[1], t[3]))})>> \o levels
      levels == FoldLeft(looser, <<cast>>, <<6, 5, 4, 3, 2, 1>>)
  IN [postfix |-> postfix, unary |-> unary, levels |-> levels,
      args |-> ListsOf(n, Append(expr, levels[1]), <<T(",")>>, args)]

ExprTable(words, primaries, types, fields, max) ==
  FoldLeft(LAMBDA table, n :
             Append(table, LongerExprs(words, primaries, types, fields, table, n)),
           <<>>, [n \in 1..max |-> n])
ExprsIn(table) == [k \in DOMAIN table |-> table[k].levels[1]]
UnariesIn(table) == [k \in DOMAIN table |-> table[k].unary]

-----------------------------------------------------------------------------
\* Statements, in the same way, from the expressions and lvalues of a table.
Updated(target, op, e) == Assign(target, Binary(op, target, e))
Simple(words, lvalue, expr, max) ==
  LET step == AnyOf(DOMAIN StepOp \cap words)
      compound == AnyOf(DOMAIN CompoundOp \cap words)
      of(n) ==
        Spelled(words,
          {Rule(n, <<lvalue, AnyOf({"="} \cap words), expr>>, LAMBDA t : Assign(t[1], t[3])),
           Rule(n, <<lvalue, compound, expr>>, LAMBDA t : Updated(t[1], CompoundOp[t[2]], t[3])),
           Rule(n, <<lvalue, step>>, LAMBDA t : Updated(t[1], StepOp[t[2]], I(1))),
           Rule(n, <<step, lvalue>>, LAMBDA t : Updated(t[2], StepOp[t[1]], I(1))),
           Rule(n, <<expr>>, LAMBDA t : ExprS(t[1]))})
  IN Language(UNION {of(n) : n \in 1..max})

\* A type, a name and perhaps a length, which must be a literal here.
Sized(t, suffix) == IF suffix = <<>> THEN t ELSE ArrayOf(t, suffix[1])
SuffixOf(lengths) == Language(Rule(3, <<T("["), lengths, T("]")>>, LAMBDA t : t[2].v))

LongerStmts(words, types, names, lengths, expr, simple, forinit, table, n) ==
  LET stmt == [k \in DOMAIN table |-> table[k].stmt]
      stmts == OrNone([k \in DOMAIN table |-> table[k].stmts])
      clauses == OrNone([k \in DOMAIN table |-> table[k].clauses])
      suffix == SuffixOf(lengths)
      cond == <<T("("), expr, T(")")>>
      one == Spelled(words,
        {Rule(n, <<types, names, Maybe(suffix), T(";")>>, LAMBDA t : VarDecl(Sized(t[1], t[3]), t[2], <<>>)),
         Rule(n, <<types, names, Maybe(suffix), T("="), expr, T(";")>>,
              LAMBDA t : VarDecl(Sized(t[1], t[3]), t[2], <<t[5]>>)),
         Rule(n, <<simple, T(";")>>, LAMBDA t : t[1]),
         Rule(n, <<T("if")>> \o cond \o <<stmt>>, LAMBDA t : If(t[3], t[5], <<>>)),
         Rule(n, <<T("if")>> \o cond \o <<stmt, T("else"), stmt>>,
              LAMBDA t : If(t[3], t[5], <<t[7]>>)),
         Rule(n, <<T("while")>> \o cond \o <<stmt>>, LAMBDA t : While(t[3], t[5])),
         Rule(n, <<T("for"), T("("), Maybe(forinit), T(";"), Maybe(expr), T(";"), Maybe(simple), T(")"), stmt>>,
              LAMBDA t : For(t[3], t[5], t[7], t[9])),
         Rule(n, <<T("switch")>> \o cond \o <<T("{"), clauses, T("}")>>,
              LAMBDA t : Switch(t[3], t[6])),
         Rule(n, <<T("break"), T(";")>>, LAMBDA t : Break),
         Rule(n, <<T("continue"), T(";")>>, LAMBDA t : Continue),
         Rule(n, <<T("return"), Maybe(expr), T(";")>>, LAMBDA t : Return(t[2])),
         Rule(n, <<T("{"), stmts, T("}")>>, LAMBDA t : Block(t[2]))})
      clause == Spelled(words,
        {Rule(n, <<T("case"), lengths, T(":"), stmts>>, LAMBDA t : Case(t[2].v, t[4])),
         Rule(n, <<T("default"), T(":"), stmts>>, LAMBDA t : Default(t[3]))})
  IN [stmt |-> one, clause |-> clause,
      stmts |-> ListsOf(n, Append(stmt, one), <<>>, [k \in DOMAIN table |-> table[k].stmts]),
      clauses |-> ListsOf(n, Append([k \in DOMAIN table |-> table[k].clause], clause), <<>>,
                        [k \in DOMAIN table |-> table[k].clauses])]

\* expr and lvalue are languages; lengths are those of the literals that may
\* stand between brackets or after a case.
StmtTable(words, types, names, lengths, expr, lvalue, max) ==
  LET simple == Simple(words, lvalue, expr, max)
      decls == UNION {Rule(n, <<types, names, T("="), expr>>, LAMBDA t : VarDecl(t[1], t[2], <<t[4]>>)) :
                        n \in 1..max}
      forinit == Language(decls \cup UNION {simple[n] : n \in DOMAIN simple})
  IN FoldLeft(LAMBDA table, n :
                Append(table, LongerStmts(words, types, names, lengths, expr, simple, forinit, table, n)),
              <<>>, [n \in 1..max |-> n])
\* Statements, one after the other.
ListsIn(table) == OrNone([k \in DOMAIN table |-> table[k].stmts])
=============================================================================
