------------------------------ MODULE Optimize ------------------------------
(***************************************************************************)
(* The optimizer (src/src/optimize.c): constant folding and dead-code      *)
(* removal on the AST, jump collapsing on the bytecode; and the two builds *)
(* the driver makes with and without it (src/src/main.c).                  *)
(***************************************************************************)
EXTENDS Typecheck, Codegen
LOCAL INSTANCE SequencesExt

IsConstLiteral(e) == e.kind = "LIT" /\ e.lit # "PTR"

\* A literal of kind lit, annotated with the type of what it replaces; the
\* folded number is an int64_t narrowed to that kind.
NumvalToLiteral(x, lit, t) ==
  [kind |-> "LIT", lit |-> lit, ty |-> t,
   v |-> IF lit = "BOOL" THEN BoolVal(x # 0).v ELSE Fit(lit, Signed(x, 8))]
WiderLiteralKind(a, b) == IF "LONG" \in {a, b} THEN "LONG" ELSE "INT"

FoldUnary(e) ==
  LET inner == e.expr
  IN IF ~IsConstLiteral(inner) THEN e
     ELSE IF e.op = "-" THEN NumvalToLiteral(-inner.v, inner.lit, e.ty)
     ELSE NumvalToLiteral(IF inner.v = 0 THEN 1 ELSE 0, "BOOL", e.ty)

\* The value of a comparison or of a logical operator on two numbers.
Truth(op, x, y) ==
  CASE op = "&&" -> x # 0 /\ y # 0
    [] op = "||" -> x # 0 \/ y # 0
    [] OTHER -> Compare(op, [tag |-> "LONG", v |-> x], [tag |-> "LONG", v |-> y])

\* A division by zero is left to the VM.  The least long divided by -1 traps
\* the compiler here; it is left too, and traps the VM.
LeftToVm(op, x, y) ==
  op \in {"DIV", "MOD"} /\ (y = 0 \/ (y = -1 /\ x = -(Radix ^ 8 \div 2)))

FoldedNumber(e, op, lit) ==
  NumvalToLiteral(Arith(op, Val("LONG", e.left.v), Val("LONG", e.right.v)).v, lit, e.ty)

FoldBinaryMutant(e) ==                    \* the kind of the left literal, not the wider
  LET op == ArithName(e.op)
  IN IF ~(IsConstLiteral(e.left) /\ IsConstLiteral(e.right)) THEN e
     ELSE IF LeftToVm(op, e.left.v, e.right.v) THEN e
     ELSE IF op \in {"ADD", "SUB", "MUL", "DIV", "MOD"} THEN FoldedNumber(e, op, e.left.lit)
     ELSE NumvalToLiteral(IF Truth(op, e.left.v, e.right.v) THEN 1 ELSE 0, "BOOL", e.ty)
FoldBinary(e) ==
  LET op == ArithName(e.op)
  IN IF ~(IsConstLiteral(e.left) /\ IsConstLiteral(e.right)) THEN e
     ELSE IF LeftToVm(op, e.left.v, e.right.v) THEN e
     ELSE IF op \in {"ADD", "SUB", "MUL", "DIV", "MOD"}
     THEN FoldedNumber(e, op, WiderLiteralKind(e.left.lit, e.right.lit))
     ELSE NumvalToLiteral(IF Truth(op, e.left.v, e.right.v) THEN 1 ELSE 0, "BOOL", e.ty)

RECURSIVE OptimizeExpr(_)
OptimizeExpr(e) ==
  CASE e.kind = "UNARY" -> FoldUnary([e EXCEPT !.expr = OptimizeExpr(@)])
    [] e.kind = "BINARY" ->
         FoldBinary([e EXCEPT !.left = OptimizeExpr(@), !.right = OptimizeExpr(@)])
    [] e.kind \in {"ADDR", "DEREF", "CAST"} -> [e EXCEPT !.expr = OptimizeExpr(@)]
    [] e.kind = "CALL" -> [e EXCEPT !.args = [k \in DOMAIN @ |-> OptimizeExpr(@[k])]]
    [] e.kind = "INDEX" -> [e EXCEPT !.arr = OptimizeExpr(@), !.index = OptimizeExpr(@)]
    [] e.kind = "MEMBER" -> [e EXCEPT !.of = OptimizeExpr(@)]
    [] e.kind = "SIZEOF" -> [e EXCEPT !.expr = [k \in DOMAIN @ |-> OptimizeExpr(@[k])]]
    [] OTHER -> e

\* What follows a return, break or continue in its list is dropped.
ReachableMutant(list) ==                  \* the jump goes with what follows it
  LET k == SelectInSeq(list, LAMBDA s : s.kind \in {"RETURN", "BREAK", "CONTINUE"})
  IN IF k = 0 THEN list ELSE SubSeq(list, 1, k - 1)
Reachable(list) ==
  LET k == SelectInSeq(list, LAMBDA s : s.kind \in {"RETURN", "BREAK", "CONTINUE"})
  IN IF k = 0 THEN list ELSE SubSeq(list, 1, k)

RECURSIVE OptimizeStmt(_)
OptimizeList(list) ==
  LET kept == Reachable(list) IN [k \in DOMAIN kept |-> OptimizeStmt(kept[k])]
OptimizeEach(exprs) == [k \in DOMAIN exprs |-> OptimizeExpr(exprs[k])]
OptimizeAll(stmts) == [k \in DOMAIN stmts |-> OptimizeStmt(stmts[k])]

OptimizeStmt(s) ==
  CASE s.kind = "EXPR" -> [s EXCEPT !.expr = OptimizeExpr(@)]
    [] s.kind = "VARDECL" -> [s EXCEPT !.init = OptimizeEach(@)]
    [] s.kind = "ASSIGN" -> [s EXCEPT !.target = OptimizeExpr(@), !.value = OptimizeExpr(@)]
    [] s.kind = "IF" ->
         [s EXCEPT !.cond = OptimizeExpr(@), !.then = OptimizeStmt(@), !.else = OptimizeAll(@)]
    [] s.kind = "WHILE" -> [s EXCEPT !.cond = OptimizeExpr(@), !.body = OptimizeStmt(@)]
    [] s.kind = "FOR" ->
         [s EXCEPT !.init = OptimizeAll(@), !.cond = OptimizeEach(@),
                   !.update = OptimizeAll(@), !.body = OptimizeStmt(@)]
    [] s.kind = "SWITCH" ->
         [s EXCEPT !.subject = OptimizeExpr(@),
                   !.cases = [k \in DOMAIN @ |-> [@[k] EXCEPT !.body = OptimizeList(@)]]]
    [] s.kind = "RETURN" -> [s EXCEPT !.value = OptimizeEach(@)]
    [] s.kind = "BLOCK" -> [s EXCEPT !.list = OptimizeList(@)]
    [] OTHER -> s

OptimizeAst(p) ==
  [p EXCEPT !.globals = [k \in DOMAIN @ |-> [@[k] EXCEPT !.init = OptimizeEach(@)]],
            !.funcs = [k \in DOMAIN @ |-> [@[k] EXCEPT !.body = OptimizeStmt(@)]]]

-----------------------------------------------------------------------------
\* A jump to a jump goes where that one goes, at most GuardMax times over (a
\* cycle of jumps has no end).  Jumps are rewritten in the order of the code.
GuardMax == 64
RECURSIVE Follow(_, _, _)
Follow(code, target, hops) ==
  IF hops > 0 /\ target \in DOMAIN code
  THEN IF code[target].op = "JMP" THEN Follow(code, code[target].to, hops - 1) ELSE target
  ELSE target

OptimizeBytecode(bc) ==
  LET collapse(code, k) ==
        IF code[k].op \in {"JMP", "JZ"}
        THEN [code EXCEPT ![k].to = Follow(code, @, GuardMax)] ELSE code
  IN [bc EXCEPT !.code = FoldLeft(collapse, @, [k \in DOMAIN @ |-> k])]

\* What the driver does with a program without errors, at -O0 and at -O1.
CodeFor(p, level) ==
  IF level = "O0" THEN Compile(p) ELSE OptimizeBytecode(Compile(OptimizeAst(p)))
Build(source, level) == CodeFor(TypecheckProgram(source).program, level)
=============================================================================
