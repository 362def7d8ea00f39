------------------------------ MODULE FrontEnd ------------------------------
(***************************************************************************)
(* What the front end promises the rest of the compiler, and its user.     *)
(***************************************************************************)
EXTENDS Driver, Parser
LOCAL INSTANCE SequencesExt

CONSTANT Grammars   \* by name: the derivations <<tokens, tree>> of programs, all
                    \* there are over the tokens that the projects of that
                    \* grammar are made of, and their sentences (the tokens)

-----------------------------------------------------------------------------
\* The parts of expressions and statements.
SubExprs(e) ==
  CASE e.kind \in {"UNARY", "ADDR", "DEREF", "CAST"} -> <<e.expr>>
    [] e.kind = "BINARY" -> <<e.left, e.right>>
    [] e.kind = "CALL" -> e.args
    [] e.kind = "INDEX" -> <<e.arr, e.index>>
    [] e.kind = "MEMBER" -> <<e.of>>
    [] e.kind = "SIZEOF" -> e.expr
    [] OTHER -> <<>>

StmtExprs(s) ==
  CASE s.kind \in {"EXPR"} -> <<s.expr>>
    [] s.kind = "VARDECL" -> s.init
    [] s.kind = "ASSIGN" -> <<s.target, s.value>>
    [] s.kind \in {"IF", "WHILE"} -> <<s.cond>>
    [] s.kind = "FOR" -> s.cond
    [] s.kind = "SWITCH" -> <<s.subject>>
    [] s.kind = "RETURN" -> s.value
    [] OTHER -> <<>>

SubStmts(s) ==
  CASE s.kind = "IF" -> <<s.then>> \o s.else
    [] s.kind = "WHILE" -> <<s.body>>
    [] s.kind = "FOR" -> s.init \o s.update \o <<s.body>>
    [] s.kind = "SWITCH" -> FlattenSeq([k \in DOMAIN s.cases |-> s.cases[k].body])
    [] s.kind = "BLOCK" -> s.list
    [] OTHER -> <<>>

RECURSIVE ExprHasTypes(_), StmtHasTypes(_), JumpsLand(_, _, _)
ExprHasTypes(e) == e.ty # NoT /\ \A k \in DOMAIN SubExprs(e) : ExprHasTypes(SubExprs(e)[k])
StmtHasTypes(s) ==
  /\ \A k \in DOMAIN StmtExprs(s) : ExprHasTypes(StmtExprs(s)[k])
  /\ \A k \in DOMAIN SubStmts(s) : StmtHasTypes(SubStmts(s)[k])

\* Every break and continue in s has a loop or a switch to leave or repeat.
JumpsLand(s, inLoop, inSwitch) ==
  /\ s.kind = "BREAK" => inLoop \/ inSwitch
  /\ s.kind = "CONTINUE" => inLoop
  /\ \A k \in DOMAIN SubStmts(s) :
       JumpsLand(SubStmts(s)[k], inLoop \/ s.kind \in {"WHILE", "FOR"}, inSwitch \/ s.kind = "SWITCH")

Accepted == phase = "generate"
SyntaxErrors == {"expected token", "expected identifier", "expected type", "unexpected token",
                 "expected case"}
ParseFailed == phase = "exit 1" /\ Is(parser, "EOF") /\ parser.errors # <<>>

-----------------------------------------------------------------------------
\* Each variable has its type, and each pass reports in a list.
TypeOK ==
  /\ PassesReport
  /\ phase \in {"preprocess", "parse", "typecheck", "generate", "spins"} \cup Endings
  /\ \A k \in DOMAIN stack : stack[k].file \in DOMAIN files
  /\ \A n \in DOMAIN merged : merged[n].file \in DOMAIN files
  /\ parser.at \in DOMAIN parser.toks
  /\ \A k \in DOMAIN parser.errors : parser.errors[k].at \in DOMAIN parser.toks
  /\ IsPrefix(shown, diags)

\* The parser knows the language of the README's grammar: a program that comes
\* through to code generation is derived by it, and as the tree that has been
\* built (parse_expr, parse_stmt and what they call); and what is first said of
\* a program that it derives is never that it is malformed.
AcceptsTheGrammar ==
  project.grammar \in DOMAIN Grammars =>
    LET text == SubSeq(parser.toks, 1, Len(parser.toks) - 1)
        grammar == Grammars[project.grammar]
    IN /\ Accepted => <<text, Parsed(parser)>> \in grammar.derivations
       /\ ParseFailed /\ text \in grammar.sentences => parser.errors[1].why \notin SyntaxErrors

\* What is handed to code generation has a type on every expression:
\* codegen_expr_rvalue and what it calls read the type without looking (typecheck_stmt).
FullyTyped ==
  Accepted =>
    /\ \A k \in DOMAIN program.funcs : StmtHasTypes(program.funcs[k].body)
    /\ \A k \in DOMAIN program.globals :
         \A j \in DOMAIN program.globals[k].init : ExprHasTypes(program.globals[k].init[j])

\* A break or continue that gets through to code generation is inside of what
\* it leaves or repeats: add_break_patch takes the innermost loop without
\* looking whether there is one (parse_stmt_inner's counters, which every path
\* out of a loop body must restore).
JumpsHaveTargets ==
  Accepted => \A k \in DOMAIN program.funcs : JumpsLand(program.funcs[k].body, FALSE, FALSE)

\* Every way out of an expression, a statement, a loop or a switch gives back the
\* nesting it was entered with, the ways through a guard or an error included:
\* the next declaration starts at none, and may nest as deep as the first
\* (parse_expr, parse_stmt, parse_while, parse_for and parse_switch).
NestingComesBack ==
  phase = "parse" =>
    parser.depth = 0 /\ parser.stmtDepth = 0 /\ parser.loops = 0 /\ parser.switches = 0

\* The code of a function is left by its returns only: every jump goes to the
\* function it is in, and what is before the next function does not run into it
\* (patch_jump, the lists of add_break_patch, and the optimizer's dead code and
\* jumps to jumps).
CodeStaysInside ==
  phase = "run" =>
    LET code == bytecode.code
        entered(k) == {f \in DOMAIN bytecode.funcs : bytecode.funcs[f].entry <= k}
    IN /\ \A k \in DOMAIN code : code[k].op \in {"JMP", "JZ"} =>
            /\ code[k].to \in DOMAIN code
            /\ entered(code[k].to) = entered(k)
       /\ \A f \in DOMAIN bytecode.funcs :
            code[bytecode.funcs[f].entry - 1].op \in {"RET", "JMP", "HALT"}

\* Whatever the text, a declaration that the parser gives up on is behind it
\* when it takes the next one: each turn of parse_program consumes a token
\* (sync_to_toplevel, after whichever token was not expected).
TurnsAdvance == [][ParseTop => parser'.at > parser.at]_vars

\* The bytes the globals need, each where its alignment allows.
GlobalBytes == FoldLeft(LAMBDA n, g : n + ((-n) % g.ty.align) + g.ty.size, 0, program.globals)

\* Main ends: no chain of #includes and no text keeps it from an exit status,
\* or from the bytecode that is then run, except globals of more than 2^31
\* bytes, for which bc_data_alloc never has room (codegen.c:74; the texts have
\* no string literals, which would count with them).
Finishes == <>(phase \in Endings \/ (phase = "spins" /\ GlobalBytes > Radix ^ 4 \div 2))

\* "Never aborts: a malformed declaration is reported and the parser resyncs to
\* the next likely top-level boundary and keeps going" (parser.h, of
\* parse_program).
NeverAborts == phase # "crash"
=============================================================================
