----------------------------- MODULE Typecheck -----------------------------
(***************************************************************************)
(* The type checker (src/src/typecheck.c).  Each operator takes the        *)
(* environment env (TypeEnv) and returns the one after it, in which v is   *)
(* the expression or statement with its types filled in.  Diagnostics are  *)
(* named by what is wrong, in the order they are found.                    *)
(***************************************************************************)
EXTENDS Ast
LOCAL INSTANCE SequencesExt

\* register_natives
Sig(name, ret, params) == [name |-> name, ret |-> ret, params |-> params, variadic |-> FALSE]
NativeSigs ==
  << [Sig("print", VoidT, <<>>) EXCEPT !.variadic = TRUE],
     Sig("malloc", PointerTo(VoidT), <<LongT>>),
     Sig("free", VoidT, <<PointerTo(VoidT)>>),
     Sig("strlen", IntT, <<PointerTo(CharT)>>),
     Sig("strcmp", IntT, <<PointerTo(CharT), PointerTo(CharT)>>),
     Sig("strcpy", PointerTo(CharT), <<PointerTo(CharT), PointerTo(CharT)>>) >>

ErrorIf(env, bad, why) == IF bad THEN [env EXCEPT !.errors = Append(@, why)] ELSE env
WarnIf(env, odd, why) == IF odd THEN [env EXCEPT !.warnings = Append(@, why)] ELSE env

-----------------------------------------------------------------------------
\* Scopes: sequences of [name, ty, used], the innermost scope last.
Position(list, name) == SelectInSeq(list, LAMBDA b : b.name = name)

OpenScope(env) == [env EXCEPT !.scopes = Append(@, <<>>)]
CloseScope(env) ==
  LET unused == SelectSeq(Last(env.scopes), LAMBDA b : ~b.used)
  IN [env EXCEPT !.scopes = Front(@),
                 !.warnings = @ \o [k \in DOMAIN unused |-> "unused variable"]]

DeclareLocal(env, name, t, used) ==
  IF Position(Last(env.scopes), name) # 0 THEN ErrorIf(env, TRUE, "redeclaration")
  ELSE [env EXCEPT !.scopes[Len(env.scopes)] = Append(@, [name |-> name, ty |-> t, used |-> used])]

\* lookup_var: the scope that declares the name, 0 for the globals.
ScopeOf(env, name) == SelectLastInSeq(env.scopes, LAMBDA s : Position(s, name) # 0)

\* What e's type is once it is known.
Typed(env, e, t) == [env EXCEPT !.v = [e EXCEPT !.ty = t]]

\* One after the other; v is the list of what each became.  A set of one
\* element holds each environment: TLC then knows it before it is used.
InTurn(env, list, Check(_, _)) ==
  FoldLeft(LAMBDA before, x : CHOOSE after \in {Check(d, x) : d \in {before}} : TRUE, env, list)
Each(env, list, Check(_, _)) ==
  LET one(d, x) == LET r == Check(d, x) IN [r EXCEPT !.v = Append(d.v, r.v)]
  IN InTurn([env EXCEPT !.v = <<>>], list, one)

-----------------------------------------------------------------------------
RECURSIVE IsLvalue(_)
IsLvalue(e) ==
  \/ e.kind \in {"VAR", "DEREF", "INDEX"}
  \/ e.kind = "MEMBER" /\ (e.arrow \/ IsLvalue(e.of))

Decay(t) == IF IsPointer(t) THEN t ELSE PointerTo(Base(t))
Tests == {"EQ", "NE", "LT", "GT", "LE", "GE"}

BothNumeric(lt, rt) == IsNumeric(lt) /\ IsNumeric(rt)
Steps(p, i) == PtrLike(p) /\ IsInteger(i)       \* pointer arithmetic
Testable(t) == IsNumeric(t) \/ IsPointer(t)

OperandsFit(op, lt, rt) ==
  CASE op \in {"&&", "||"} -> Testable(lt) /\ Testable(rt)
    [] op \in Tests -> BothNumeric(lt, rt) \/ (IsPointer(lt) /\ IsPointer(rt))
    [] op = "+" -> BothNumeric(lt, rt) \/ Steps(lt, rt) \/ Steps(rt, lt)
    [] op = "-" -> BothNumeric(lt, rt) \/ Steps(lt, rt) \/ (PtrLike(lt) /\ PtrLike(rt))
    [] op \in {"*", "/", "%"} -> BothNumeric(lt, rt)

\* An expression in error is an int, or a bool if the operator says so.
BinaryType(op, lt, rt) ==
  IF op \in {"&&", "||"} \cup Tests THEN BoolT
  ELSE IF ~OperandsFit(op, lt, rt) THEN IntT
  ELSE IF BothNumeric(lt, rt) THEN UsualArith(lt, rt)
  ELSE IF PtrLike(lt) /\ PtrLike(rt) THEN LongT
  ELSE Decay(IF PtrLike(lt) THEN lt ELSE rt)

LiteralType(lit) ==
  CASE lit = "BOOL" -> BoolT [] lit = "CHAR" -> CharT [] lit = "INT" -> IntT
    [] lit = "LONG" -> LongT [] lit = "FLOAT" -> FloatT [] lit = "DOUBLE" -> DoubleT
    [] lit = "PTR" -> PointerTo(VoidT)

RECURSIVE TypecheckExpr(_, _)

CheckVar(env, e) ==
  LET k == ScopeOf(env, e.name)
      vars == IF k = 0 THEN env.globals ELSE env.scopes[k]
      i == Position(vars, e.name)
  IN IF i = 0 THEN Typed(ErrorIf(env, TRUE, "undeclared identifier"), e, IntT)
     ELSE Typed(IF k = 0 THEN env ELSE [env EXCEPT !.scopes[k][i].used = TRUE], e, vars[i].ty)

CheckUnary(env, e) ==
  LET d == TypecheckExpr(env, e.expr)
      t == d.v.ty
      u == [e EXCEPT !.expr = d.v]
  IN IF e.op = "-"
     THEN Typed(ErrorIf(d, ~IsNumeric(t), "invalid operand"), u,
                IF ~IsNumeric(t) \/ t.kind \in {"BOOL", "CHAR"} THEN IntT ELSE t)
     ELSE Typed(ErrorIf(d, ~Testable(t), "invalid operand"), u, BoolT)

CheckAddr(env, e) ==
  LET d == TypecheckExpr(env, e.expr)
      t == d.v.ty
  IN Typed(ErrorIf(d, ~IsLvalue(e.expr), "not an lvalue"), [e EXCEPT !.expr = d.v],
           PointerTo(IF ~IsLvalue(e.expr) THEN VoidT ELSE IF t.kind = "ARRAY" THEN Base(t) ELSE t))

CheckDeref(env, e) ==
  LET d == TypecheckExpr(env, e.expr)
      ok == IF IsPointer(d.v.ty) THEN Base(d.v.ty).kind # "VOID" ELSE FALSE
  IN Typed(ErrorIf(d, ~ok, "cannot dereference"), [e EXCEPT !.expr = d.v],
           IF ok THEN Base(d.v.ty) ELSE IntT)

CheckBinary(env, e) ==
  LET l == TypecheckExpr(env, e.left)
      r == TypecheckExpr(l, e.right)
      lt == l.v.ty
      rt == r.v.ty
      d == ErrorIf(ErrorIf(r, lt.kind = "VOID", "void value"), rt.kind = "VOID", "void value")
  IN Typed(ErrorIf(d, ~OperandsFit(e.op, lt, rt), "invalid operands"),
           [e EXCEPT !.left = l.v, !.right = r.v], BinaryType(e.op, lt, rt))

\* print takes any number of values but none.
CheckPrinted(env, args) ==
  LET one(d, a) ==
        LET r == TypecheckExpr(d, a)
        IN ErrorIf(ErrorIf(r, r.v.ty.kind = "VOID", "void value"),
                   r.v.ty.kind = "STRUCT", "struct printed")
  IN ErrorIf(Each(env, args, one), args = <<>>, "no argument")

CheckArgs(env, sig, args) ==
  LET one(d, i) ==
        LET r == TypecheckExpr(d, args[i])
            bad == i \in DOMAIN sig.params /\ ~Assignable(sig.params[i], r.v.ty)
        IN [ErrorIf(r, bad, "argument type") EXCEPT !.v = Append(d.v, r.v)]
      d == ErrorIf(env, Len(args) # Len(sig.params), "argument count")
  IN InTurn([d EXCEPT !.v = <<>>], [i \in DOMAIN args |-> i], one)

CheckCall(env, e) ==
  LET i == Position(env.funcs, e.name)
      sig == env.funcs[i]
      d == CASE i = 0 -> Each(ErrorIf(env, TRUE, "undeclared function"), e.args, TypecheckExpr)
             [] i # 0 -> IF sig.variadic THEN CheckPrinted(env, e.args)
                         ELSE CheckArgs(env, sig, e.args)
  IN Typed(d, [e EXCEPT !.args = d.v], IF i = 0 THEN IntT ELSE sig.ret)

CheckIndex(env, e) ==
  LET b == TypecheckExpr(env, e.arr)
      i == TypecheckExpr(b, e.index)
      d == ErrorIf(i, ~IsInteger(i.v.ty), "subscript type")
  IN Typed(ErrorIf(d, ~PtrLike(b.v.ty), "not subscriptable"),
           [e EXCEPT !.arr = b.v, !.index = i.v],
           IF PtrLike(b.v.ty) THEN Base(b.v.ty) ELSE IntT)

\* The struct is found even if `.` and `->` have been mixed up.
CheckMember(env, e) ==
  LET d == TypecheckExpr(env, e.of)
      t == d.v.ty
      through == IsPointer(t)
      st == IF through THEN Base(t) ELSE t
      found == IF st.kind = "STRUCT" THEN HasField(st, e.field) ELSE FALSE
      d1 == ErrorIf(d, st.kind # "STRUCT" \/ through # e.arrow, "not that kind of struct access")
  IN Typed(ErrorIf(d1, st.kind = "STRUCT" /\ ~found, "no such member"), [e EXCEPT !.of = d.v],
           IF found THEN FindField(st, e.field).ty ELSE IntT)

CheckCast(env, e) ==
  LET d == TypecheckExpr(env, e.expr)
  IN Typed(ErrorIf(d, ~Castable(e.target, d.v.ty), "invalid cast"), [e EXCEPT !.expr = d.v], e.target)

CheckSizeof(env, e) ==
  LET d == Each(env, e.expr, TypecheckExpr) IN Typed(d, [e EXCEPT !.expr = d.v], LongT)

TypecheckExpr(env, e) ==
  CASE e.kind = "LIT" -> Typed(env, e, LiteralType(e.lit))
    [] e.kind = "STRING_LIT" -> Typed(env, e, PointerTo(CharT))
    [] e.kind = "VAR" -> CheckVar(env, e)
    [] e.kind = "UNARY" -> CheckUnary(env, e)
    [] e.kind = "ADDR" -> CheckAddr(env, e)
    [] e.kind = "DEREF" -> CheckDeref(env, e)
    [] e.kind = "BINARY" -> CheckBinary(env, e)
    [] e.kind = "CALL" -> CheckCall(env, e)
    [] e.kind = "INDEX" -> CheckIndex(env, e)
    [] e.kind = "MEMBER" -> CheckMember(env, e)
    [] e.kind = "CAST" -> CheckCast(env, e)
    [] e.kind = "SIZEOF" -> CheckSizeof(env, e)

-----------------------------------------------------------------------------
\* Does a statement end in a return whichever way it goes?  A case falls
\* through to the next one unless its last statement is a break.
RECURSIVE AlwaysReturns(_)
ListReturns(list) == \E i \in DOMAIN list : AlwaysReturns(list[i])

SwitchReturns(s) ==
  LET n == Len(s.cases)
      entry[i \in 1..n + 1] ==
        IF i = n + 1 THEN FALSE
        ELSE LET body == s.cases[i].body
             IN \/ ListReturns(body)
                \/ entry[i + 1] /\ (IF body = <<>> THEN TRUE ELSE Last(body).kind # "BREAK")
  IN /\ \E i \in 1..n : s.cases[i].isDefault
     /\ \A i \in 1..n : entry[i]

AlwaysReturns(s) ==
  CASE s.kind = "RETURN" -> TRUE
    [] s.kind = "BLOCK" -> ListReturns(s.list)
    [] s.kind = "IF" -> AlwaysReturns(s.then) /\ s.else # <<>> /\ ListReturns(s.else)
    [] s.kind = "SWITCH" -> SwitchReturns(s)
    [] OTHER -> FALSE

-----------------------------------------------------------------------------
RECURSIVE TypecheckStmt(_, _)

CheckCondition(env, e) ==
  LET d == TypecheckExpr(env, e)
  IN ErrorIf(d, d.v.ty.kind \in {"STRUCT", "ARRAY", "VOID"}, "not a condition")

\* The name is declared after its initialiser has been checked.
CheckVarDecl(env, s) ==
  LET d1 == ErrorIf(env, s.ty.kind = "VOID", "void variable")
      d2 == ErrorIf(d1, s.init # <<>> /\ s.ty.kind = "ARRAY", "array initialiser")
      d3 == Each(d2, s.init, TypecheckExpr)
      fits == \A k \in DOMAIN d3.v : Assignable(s.ty, d3.v[k].ty)
      d4 == DeclareLocal(ErrorIf(d3, ~fits, "initialiser type"), s.name, s.ty, FALSE)
  IN [d4 EXCEPT !.v = [s EXCEPT !.init = d3.v]]

CheckAssign(env, s) ==
  LET t == TypecheckExpr(env, s.target)
      v == TypecheckExpr(t, s.value)
      d == IF ~IsLvalue(s.target) THEN ErrorIf(v, TRUE, "not assignable")
           ELSE ErrorIf(v, ~Assignable(t.v.ty, v.v.ty), "assigned type")
  IN [d EXCEPT !.v = [s EXCEPT !.target = t.v, !.value = v.v]]

CheckIf(env, s) ==
  LET c == CheckCondition(env, s.cond)
      t == TypecheckStmt(c, s.then)
      f == Each(t, s.else, TypecheckStmt)
  IN [f EXCEPT !.v = [s EXCEPT !.cond = c.v, !.then = t.v, !.else = f.v]]

CheckWhile(env, s) ==
  LET c == CheckCondition(env, s.cond)
      b == TypecheckStmt(c, s.body)
  IN [b EXCEPT !.v = [s EXCEPT !.cond = c.v, !.body = b.v]]

CheckForMutant(env, s) ==                 \* the update is not looked at
  LET i == Each(OpenScope(env), s.init, TypecheckStmt)
      c == Each(i, s.cond, CheckCondition)
      b == TypecheckStmt(c, s.body)
  IN [CloseScope(b) EXCEPT !.v = [s EXCEPT !.init = i.v, !.cond = c.v, !.body = b.v]]
CheckFor(env, s) ==
  LET i == Each(OpenScope(env), s.init, TypecheckStmt)
      c == Each(i, s.cond, CheckCondition)
      u == Each(c, s.update, TypecheckStmt)
      b == TypecheckStmt(u, s.body)
  IN [CloseScope(b) EXCEPT !.v = [s EXCEPT !.init = i.v, !.cond = c.v, !.update = u.v, !.body = b.v]]

\* The first statement after one that leaves the list cannot be reached.
CheckStmts(env, list) ==
  LET end == SelectInSeq(list, LAMBDA s : s.kind \in {"RETURN", "BREAK", "CONTINUE"})
      one(d, i) ==
        LET r == TypecheckStmt(WarnIf(d, end # 0 /\ i = end + 1, "unreachable code"), list[i])
        IN [r EXCEPT !.v = Append(d.v, r.v)]
  IN InTurn([env EXCEPT !.v = <<>>], [i \in DOMAIN list |-> i], one)

CheckBody(env, list) == CloseScope(CheckStmts(OpenScope(env), list))

CheckSwitch(env, s) ==
  LET subject == TypecheckExpr(env, s.subject)
      same(i, j) == /\ s.cases[i].isDefault = s.cases[j].isDefault
                    /\ s.cases[i].isDefault \/ s.cases[i].v = s.cases[j].v
      earlier(i) == SelectSeq([j \in 1..i - 1 |-> j], LAMBDA j : same(i, j))
      one(d, i) ==            \* a second default once, a value for each equal one
        LET n == IF s.cases[i].isDefault /\ earlier(i) # <<>> THEN 1 ELSE Len(earlier(i))
            e == [d EXCEPT !.errors = @ \o [k \in 1..n |-> "duplicate case"]]
            b == CheckBody(e, s.cases[i].body)
        IN [b EXCEPT !.v = Append(d.v, [s.cases[i] EXCEPT !.body = b.v])]
      d == InTurn([ErrorIf(subject, ~IsInteger(subject.v.ty), "switch subject") EXCEPT !.v = <<>>],
                  [i \in DOMAIN s.cases |-> i], one)
  IN [d EXCEPT !.v = [s EXCEPT !.subject = subject.v, !.cases = d.v]]

CheckReturn(env, s) ==
  LET d == Each(env, s.value, TypecheckExpr)
      void == env.returnType.kind = "VOID"
      why == CASE s.value = <<>> -> IF void THEN "none" ELSE "no value returned"
               [] s.value # <<>> -> IF void THEN "value returned"
                                    ELSE IF ~Assignable(env.returnType, d.v[1].ty) THEN "returned type"
                                    ELSE "none"
  IN [ErrorIf(d, why # "none", why) EXCEPT !.v = [s EXCEPT !.value = d.v]]

TypecheckStmt(env, s) ==
  CASE s.kind = "EXPR" -> LET d == TypecheckExpr(env, s.expr) IN [d EXCEPT !.v = ExprS(d.v)]
    [] s.kind = "VARDECL" -> CheckVarDecl(env, s)
    [] s.kind = "ASSIGN" -> CheckAssign(env, s)
    [] s.kind = "IF" -> CheckIf(env, s)
    [] s.kind = "WHILE" -> CheckWhile(env, s)
    [] s.kind = "FOR" -> CheckFor(env, s)
    [] s.kind = "SWITCH" -> CheckSwitch(env, s)
    [] s.kind \in {"BREAK", "CONTINUE"} -> [env EXCEPT !.v = s]
    [] s.kind = "RETURN" -> CheckReturn(env, s)
    [] s.kind = "BLOCK" -> LET d == CheckBody(env, s.list) IN [d EXCEPT !.v = Block(d.v)]

-----------------------------------------------------------------------------
\* typecheck_program: the signatures, the globals, their initialisers, then the
\* bodies.  What is declared twice keeps its first declaration.
DeclareFunc(env, f) ==
  IF Position(env.funcs, f.name) # 0 THEN ErrorIf(env, TRUE, "redefinition")
  ELSE [env EXCEPT !.funcs = Append(@, Sig(f.name, f.ret, [j \in DOMAIN f.params |-> f.params[j].ty]))]

CheckMain(env) ==
  LET i == Position(env.funcs, "main")
  IN IF i = 0 THEN ErrorIf(env, TRUE, "no main")
     ELSE ErrorIf(env, env.funcs[i].ret.kind = "STRUCT", "main returns a struct")

DeclareGlobal(env, g) ==
  IF Position(env.globals, g.name) # 0 \/ Position(env.funcs, g.name) # 0
  THEN ErrorIf(env, TRUE, "redefinition")
  ELSE [ErrorIf(env, g.ty.kind = "VOID", "void variable")
          EXCEPT !.globals = Append(@, [name |-> g.name, ty |-> g.ty, used |-> TRUE])]

CheckGlobal(env, g) ==
  LET d == Each(env, g.init, TypecheckExpr)
      fits == \A k \in DOMAIN d.v : Assignable(g.ty, d.v[k].ty)
  IN IF g.init # <<>> /\ g.ty.kind \in {"ARRAY", "STRUCT"}
     THEN [ErrorIf(env, TRUE, "aggregate initialiser") EXCEPT !.v = g]
     ELSE [ErrorIf(d, ~fits, "initialiser type") EXCEPT !.v = [g EXCEPT !.init = d.v]]

DeclareParam(env, p) ==
  IF p.ty.kind = "VOID" THEN ErrorIf(env, TRUE, "void parameter")
  ELSE DeclareLocal(env, p.name, p.ty, TRUE)

CheckFunc(env, f) ==
  LET d == FoldLeft(DeclareParam, OpenScope([env EXCEPT !.returnType = f.ret]), f.params)
      b == CheckStmts(d, f.body.list)
      falls == f.ret.kind # "VOID" /\ ~ListReturns(f.body.list)
  IN [CloseScope(WarnIf(b, falls, "control reaches the end")) EXCEPT
        !.v = [f EXCEPT !.body = Block(b.v)]]

TypecheckProgram(p) ==
  LET empty == [funcs |-> NativeSigs, globals |-> <<>>, scopes |-> <<>>, returnType |-> VoidT,
                errors |-> <<>>, warnings |-> <<>>, v |-> <<>>]
      d == FoldLeft(DeclareGlobal, CheckMain(FoldLeft(DeclareFunc, empty, p.funcs)), p.globals)
      globals == Each(d, p.globals, CheckGlobal)
      funcs == Each(globals, p.funcs, CheckFunc)
  IN [program |-> Source(globals.v, funcs.v), errors |-> funcs.errors, warnings |-> funcs.warnings]
=============================================================================
