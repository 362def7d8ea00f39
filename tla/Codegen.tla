------------------------------ MODULE Codegen ------------------------------
(***************************************************************************)
(* The code generator (src/src/codegen.c): Compile(source) is the bytecode *)
(* the VM runs.  Each operator takes the context c (CodegenCtx) and returns*)
(* the context after it: the code emitted so far, the data segment, the    *)
(* frame offsets in use, the scopes, and the jumps still to be patched.    *)
(*                                                                         *)
(* An instruction with its operands is one record, so positions count      *)
(* instructions where the code counts cells.                               *)
(***************************************************************************)
EXTENDS Ast, Values
LOCAL INSTANCE SequencesExt

\* value_tag_of: every type without a tag of its own has INT's.  (No program
\* here comes to code generation with a float or a double.)
ValueTagOf(t) ==
  CASE t.kind \in {"BOOL", "CHAR", "LONG"} -> t.kind
    [] t.kind = "POINTER" -> "PTR"
    [] OTHER -> "INT"

Natives == {"print", "malloc", "free", "strlen", "strcmp", "strcpy"}

-----------------------------------------------------------------------------
\* Emission and jumps.
Emit(c, ins) == [c EXCEPT !.code = Append(@, ins)]
Here(c) == Len(c.code) + 1
EmitJump(c, op) == Emit(c, [op |-> op, to |-> 0])
Site(c) == Len(c.code)                  \* of the jump just emitted
Patch(c, site, target) == [c EXCEPT !.code[site].to = target]
PatchAll(c, sites, target) == FoldLeft(LAMBDA d, s : Patch(d, s, target), c, sites)

Op(c, op) == Emit(c, [op |-> op])
PushVal(c, t, v) == Emit(c, [op |-> "PUSH", val |-> Val(t, v)])
PushConst(c, t, v) ==           \* a bool constant is normalised to 0 or 1
  IF t = "BOOL" THEN Emit(c, [op |-> "PUSH", val |-> BoolVal(v # 0)]) ELSE PushVal(c, t, v)
EmitLocal(c, off) == Emit(c, [op |-> "ADDR_LOCAL", off |-> off])
EmitTag(c, op, t) == Emit(c, [op |-> op, tag |-> ValueTagOf(t)])
EmitSize(c, op, size) == Emit(c, [op |-> op, size |-> size])
EmitZeroValueMutant(c, t) == PushVal(c, "INT", 0)   \* an int, whatever the type
EmitZeroValue(c, t) == PushVal(c, ValueTagOf(t), 0)

-----------------------------------------------------------------------------
\* Scopes, frame slots, and the break and continue jumps of loops.
PushScope(c) == [c EXCEPT !.scopes = Append(@, [vars |-> <<>>, saved |-> c.next])]
PopScope(c) == [c EXCEPT !.next = Last(c.scopes).saved, !.scopes = Front(@)]

\* The new slot is the last one below d.next.
AllocLocalMutant(c, size, align) ==        \* the frame is as large as it was before
  [c EXCEPT !.next = U32(AlignUp(c.next, align) + size), !.high = IF c.next > @ THEN c.next ELSE @]
AllocLocal(c, size, align) ==
  LET next == U32(AlignUp(c.next, align) + size)
  IN [c EXCEPT !.next = next, !.high = IF next > @ THEN next ELSE @]

Bind(c, name, off) ==
  [c EXCEPT !.scopes[Len(c.scopes)].vars = Append(@, [name |-> name, off |-> off])]

\* find_var_slot: innermost scope first, then the globals.
Named(vars, name) == SelectInSeq(vars, LAMBDA v : v.name = name)
PushVarAddr(c, name) ==
  LET i == SelectLastInSeq(c.scopes, LAMBDA s : Named(s.vars, name) # 0)
      g == Named(c.globals, name)
  IN IF i # 0 THEN EmitLocal(c, c.scopes[i].vars[Named(c.scopes[i].vars, name)].off)
     ELSE PushVal(c, "PTR", IF g # 0 THEN c.globals[g].addr ELSE 0)

PushLoop(c, isSwitch) ==
  [c EXCEPT !.loops = Append(@, [isSwitch |-> isSwitch, breaks |-> <<>>, continues |-> <<>>])]
PopLoop(c) == [c EXCEPT !.loops = Front(@)]
AddBreak(c) ==
  [c EXCEPT !.loops[Len(c.loops)].breaks = Append(@, Site(c))]
AddContinue(c) ==
  LET i == SelectLastInSeq(c.loops, LAMBDA l : ~l.isSwitch)
  IN IF i = 0 THEN c ELSE [c EXCEPT !.loops[i].continues = Append(@, Site(c))]

-----------------------------------------------------------------------------
\* The data segment: image is the buffer behind it, data_size what is in use.
\* The buffer's capacity is doubled from 4096 on until it is enough; past 2^31
\* it is 0, and bc_data_alloc spins for ever.
DataOff(c, align) == AlignUp(c.dataSize, align)
DataAlloc(c, size, align) ==
  LET new == U32(DataOff(c, align) + size)
  IN [c EXCEPT !.dataSize = new,
               !.image = [i \in 1..(IF new > Len(@) THEN new ELSE Len(@)) |->
                            IF i \in DOMAIN @ THEN @[i] ELSE 0],
               !.spins = @ \/ new > Radix ^ 4 \div 2]
DataWrite(c, off, cells) ==
  [c EXCEPT !.image =
     [i \in DOMAIN @ |-> IF i - off \in DOMAIN cells THEN cells[i - off] ELSE @[i]]]
InternString(c, text) ==
  LET off == DataOff(c, 1)
      d == DataAlloc(c, Len(text) + 1, 1)
  IN PushVal(DataWrite(d, off, Append(text, 0)), "PTR", DataBase + off)

-----------------------------------------------------------------------------
\* Expressions.
RECURSIVE Rvalue(_, _), AddrOf(_, _), EmitCall(_, _, _)

Promoted(c, e, t) ==
  LET d == Rvalue(c, e) IN IF e.ty.kind = t.kind THEN d ELSE EmitTag(d, "CAST", t)

And(c, e) ==
  LET c1 == EmitJump(Rvalue(c, e.left), "JZ")
      c2 == EmitJump(Rvalue(c1, e.right), "JZ")
      c3 == EmitJump(PushVal(c2, "BOOL", 1), "JMP")
      c4 == PatchAll(c3, <<Site(c1), Site(c2)>>, Here(c3))
      c5 == PushVal(c4, "BOOL", 0)
  IN Patch(c5, Site(c3), Here(c5))

Or(c, e) ==
  LET c1 == EmitJump(Rvalue(c, e.left), "JZ")
      c2 == EmitJump(PushVal(c1, "BOOL", 1), "JMP")
      c3 == EmitJump(Rvalue(Patch(c2, Site(c1), Here(c2)), e.right), "JZ")
      c4 == EmitJump(PushVal(c3, "BOOL", 1), "JMP")
      c5 == PushVal(Patch(c4, Site(c3), Here(c4)), "BOOL", 0)
  IN PatchAll(c5, <<Site(c2), Site(c4)>>, Here(c5))

\* The index of a pointer or array, as a byte offset.
ElemSize(t) == IF Base(t).kind = "VOID" THEN 1 ELSE Base(t).size
IntIndexMutant(c, e) == Rvalue(c, e)      \* a long index stays long
IntIndex(c, e) ==
  LET d == Rvalue(c, e) IN IF e.ty.kind = "LONG" THEN EmitTag(d, "CAST", IntT) ELSE d
Scaled(c, e, size) == Op(PushVal(IntIndex(c, e), "INT", size), "MUL")

ArithName(op) ==
  CASE op = "+" -> "ADD" [] op = "-" -> "SUB" [] op = "*" -> "MUL"
    [] op = "/" -> "DIV" [] op = "%" -> "MOD" [] OTHER -> op

PointerArith(c, e) ==
  LET l == e.left
      r == e.right
      p == IF PtrLike(l.ty) THEN l ELSE r
      i == IF PtrLike(l.ty) THEN r ELSE l
  IN IF e.op = "-" /\ PtrLike(l.ty) /\ PtrLike(r.ty)
     THEN Emit(Rvalue(Rvalue(c, l), r), [op |-> "PTR_DIFF", elem |-> ElemSize(l.ty)])
     ELSE Op(Scaled(Rvalue(c, p), i, ElemSize(p.ty)),
             IF e.op = "+" THEN "PTR_ADD" ELSE "PTR_SUB")

BinaryExpr(c, e) ==
  LET l == e.left
      r == e.right
      common == IF IsInteger(l.ty) /\ IsInteger(r.ty) THEN UsualArith(l.ty, r.ty) ELSE l.ty
  IN IF e.op = "&&" THEN And(c, e)
     ELSE IF e.op = "||" THEN Or(c, e)
     ELSE IF e.op \in {"+", "-"} /\ (PtrLike(l.ty) \/ PtrLike(r.ty)) THEN PointerArith(c, e)
     ELSE Op(Promoted(Promoted(c, l, common), r, common), ArithName(e.op))

IndexAddr(c, e) ==
  LET t == e.arr.ty
  IN IF t.kind = "ARRAY"
     THEN Emit(IntIndex(AddrOf(c, e.arr), e.index),
               [op |-> "ARR_ADDR", elem |-> Base(t).size, len |-> t.len])
     ELSE Op(Scaled(Rvalue(c, e.arr), e.index, ElemSize(t)), "PTR_ADD")

MemberOffset(c, e) ==
  LET t == IF e.arrow THEN Base(e.of.ty) ELSE e.of.ty
  IN Emit(IF e.arrow THEN Rvalue(c, e.of) ELSE AddrOf(c, e.of),
          [op |-> "MEMBER_ADDR", off |-> FindField(t, e.field).off])

\* codegen_addr_of: nothing is emitted for what is not an lvalue.
AddrOf(c, e) ==
  CASE e.kind = "VAR" -> PushVarAddr(c, e.name)
    [] e.kind = "DEREF" -> Rvalue(c, e.expr)
    [] e.kind = "INDEX" -> IndexAddr(c, e)
    [] e.kind = "MEMBER" -> MemberOffset(c, e)
    [] OTHER -> c

StructValueAddr(c, e) == IF e.kind = "CALL" THEN EmitCall(c, e, FALSE) ELSE AddrOf(c, e)

EmitArg(c, e, p) ==
  IF p.isStruct THEN StructValueAddr(c, e)
  ELSE LET d == Rvalue(c, e)
       IN IF ValueTagOf(e.ty) = p.tag THEN d ELSE Emit(d, [op |-> "CAST", tag |-> p.tag])

\* The destination of a struct result, below the arguments: the caller's own
\* when it is already pushed, a new slot of the frame otherwise.  It is
\* pushed twice, the second copy being what is left once the call is over.
PushDestBeyondMutant(c, f, pushed) ==     \* takes the next bytes, reserves none
  Op(IF pushed THEN c ELSE EmitLocal(c, AlignUp(c.next, f.returnAlign)), "DUP")
PushDestOnceMutant(c, f, pushed) ==       \* leaves nothing for after the call
  LET d == AllocLocal(c, f.returnSize, f.returnAlign)
  IN IF pushed THEN c ELSE EmitLocal(d, d.next - f.returnSize)
PushDest(c, f, pushed) ==
  LET d == AllocLocal(c, f.returnSize, f.returnAlign)
  IN Op(IF pushed THEN c ELSE EmitLocal(d, d.next - f.returnSize), "DUP")

EmitCall(c, e, destPushed) ==
  IF e.name \in Natives
  THEN Emit(FoldLeft(Rvalue, c, e.args),
            [op |-> "CALL_NATIVE", id |-> e.name, argc |-> Len(e.args)])
  ELSE LET i == SelectInSeq(c.names, LAMBDA n : n = e.name)
           f == c.funcs[i]
           c0 == IF f.returnsStruct THEN PushDest(c, f, destPushed) ELSE c
       IN Emit(FoldLeft(LAMBDA d, a : EmitArg(d, a[1], a[2]), c0, Zip(e.args, f.params)),
               [op |-> "CALL", f |-> i])

\* A value in memory: an array's value is its address.
Loaded(c, t) == IF t.kind = "ARRAY" THEN c ELSE EmitTag(c, "LOAD", t)

SizeofValue(e) == IF e.of # <<>> THEN e.of[1].size ELSE e.expr[1].ty.size

Rvalue(c, e) ==
  CASE e.kind = "LIT" -> PushConst(c, e.lit, e.v)
    [] e.kind = "STRING_LIT" -> InternString(c, e.text)
    [] e.kind \in {"VAR", "INDEX", "MEMBER"} -> Loaded(AddrOf(c, e), e.ty)
    [] e.kind = "DEREF" -> EmitTag(Rvalue(c, e.expr), "LOAD", e.ty)
    [] e.kind = "UNARY" -> Op(Rvalue(c, e.expr), IF e.op = "-" THEN "NEG" ELSE "NOT")
    [] e.kind = "ADDR" -> AddrOf(c, e.expr)
    [] e.kind = "BINARY" -> BinaryExpr(c, e)
    [] e.kind = "CALL" -> EmitCall(c, e, FALSE)
    [] e.kind = "CAST" -> EmitTag(Rvalue(c, e.expr), "CAST", e.ty)
    [] e.kind = "SIZEOF" -> PushVal(c, "LONG", SizeofValue(e))

-----------------------------------------------------------------------------
\* Statements.
RECURSIVE Statement(_, _), StatementList(_, _)

Optional(c, list, Gen(_, _)) == IF list = <<>> THEN c ELSE Gen(c, list[1])

\* A struct value: a call writes it to the address just pushed, anything else
\* is copied from where it lies.
StructInto(c, e, size) ==
  IF e.kind = "CALL" THEN Op(EmitCall(c, e, TRUE), "POP")
  ELSE EmitSize(AddrOf(c, e), "COPY", size)
ScalarInto(c, e, t) == EmitTag(Promoted(c, e, t), "STORE", t)
ValueInto(c, e, t) == IF t.kind = "STRUCT" THEN StructInto(c, e, t.size) ELSE ScalarInto(c, e, t)

ExprStatementMutant(c, e) ==              \* the address of a struct is not dropped
  IF e.ty.kind = "STRUCT" THEN StructValueAddr(c, e)
  ELSE IF e.ty.kind = "VOID" THEN Rvalue(c, e)
  ELSE Op(Rvalue(c, e), "POP")
ExprStatement(c, e) ==
  IF e.ty.kind = "STRUCT" THEN Op(StructValueAddr(c, e), "POP")
  ELSE IF e.ty.kind = "VOID" THEN Rvalue(c, e)
  ELSE Op(Rvalue(c, e), "POP")

VarDeclStatement(c, s) ==
  LET d == AllocLocal(c, s.ty.size, s.ty.align)
      off == d.next - s.ty.size
      bound == EmitLocal(Bind(d, s.name, off), off)
  IN IF s.init = <<>> THEN EmitSize(bound, "ZERO_MEM", s.ty.size)
     ELSE ValueInto(bound, s.init[1], s.ty)

AssignStatement(c, s) == ValueInto(AddrOf(c, s.target), s.value, s.target.ty)

IfStatement(c, s) ==
  LET c1 == EmitJump(Rvalue(c, s.cond), "JZ")
      c2 == Statement(c1, s.then)
      c3 == EmitJump(c2, "JMP")
      c4 == Statement(Patch(c3, Site(c1), Here(c3)), s.else[1])
  IN IF s.else = <<>> THEN Patch(c2, Site(c1), Here(c2)) ELSE Patch(c4, Site(c3), Here(c4))

\* The end of a loop: the jump back, and the jumps out of it.
CloseLoopMutant(c, start, exits) ==       \* a break goes where the loop starts
  LET d == Emit(c, [op |-> "JMP", to |-> start])
  IN PopLoop(PatchAll(PatchAll(d, exits, Here(d)), Last(d.loops).breaks, start))
CloseLoop(c, start, exits) ==
  LET d == Emit(c, [op |-> "JMP", to |-> start])
  IN PopLoop(PatchAll(d, exits \o Last(d.loops).breaks, Here(d)))
PatchContinuesMutant(c, target) == c      \* no continue is given a target
PatchContinues(c, target) == PatchAll(c, Last(c.loops).continues, target)

WhileStatement(c, s) ==
  LET c1 == EmitJump(Rvalue(c, s.cond), "JZ")
      c2 == Statement(PushLoop(c1, FALSE), s.body)
  IN CloseLoop(PatchContinues(c2, Here(c)), Here(c), <<Site(c1)>>)

ForStatement(c, s) ==
  LET c1 == Optional(PushScope(c), s.init, Statement)
      tests == s.cond # <<>>
      c2 == IF tests THEN EmitJump(Rvalue(c1, s.cond[1]), "JZ") ELSE c1
      c3 == Statement(PushLoop(c2, FALSE), s.body)
      c4 == Optional(PatchContinues(c3, Here(c3)), s.update, Statement)
  IN PopScope(CloseLoop(c4, Here(c1), IF tests THEN <<Site(c2)>> ELSE <<>>))

\* A switch stores its subject, tests each case in order, then jumps to the
\* default or past the end; the bodies follow one another.
PushMatching(c, t, v) ==
  PushConst(c, IF t.kind \in {"LONG", "CHAR", "BOOL"} THEN t.kind ELSE "INT", v)

SwitchTest(c, off, t, case) ==
  LET c1 == EmitTag(EmitLocal(c, off), "LOAD", t)
      c2 == EmitJump(Op(PushMatching(c1, t, case.v), "EQ"), "JZ")
      c3 == EmitJump(c2, "JMP")
  IN Patch(c3, Site(c2), Here(c3))

SwitchStatement(c, s) ==
  LET t == s.subject.ty
      n == Len(s.cases)
      c1 == AllocLocal(c, t.size, t.align)
      off == c1.next - t.size
      c2 == EmitTag(Rvalue(EmitLocal(c1, off), s.subject), "STORE", t)
      test[i \in 0..n] ==         \* the context, and where each body's jump is
        IF i = 0 THEN [c |-> c2, site |-> <<>>]
        ELSE IF s.cases[i].isDefault
        THEN [test[i - 1] EXCEPT !.site = Append(@, 0)]
        ELSE LET d == SwitchTest(test[i - 1].c, off, t, s.cases[i])
             IN [c |-> d, site |-> Append(test[i - 1].site, Site(d))]
      default == SelectLastInSeq(s.cases, LAMBDA case : case.isDefault)
      c3 == EmitJump(test[n].c, "JMP")
      site(i) == IF i = default THEN Site(c3) ELSE test[n].site[i]
      body[i \in 0..n] ==
        IF i = 0 THEN PushLoop(c3, TRUE)
        ELSE LET d == body[i - 1] IN StatementList(Patch(d, site(i), Here(d)), s.cases[i].body)
      exits == IF default = 0 THEN <<Site(c3)>> ELSE <<>>
  IN PopLoop(PatchAll(body[n], exits \o Last(body[n].loops).breaks, Here(body[n])))

\* The destination of the struct result, out of the function's own frame.
PushSret(c) == Emit(EmitLocal(c, 0), [op |-> "LOAD", tag |-> "PTR"])

ReturnStatement(c, s) ==
  LET t == c.returnType
      c1 == IF t.kind = "STRUCT"
            THEN Optional(c, s.value, LAMBDA d, e : StructInto(PushSret(d), e, t.size))
            ELSE IF t.kind = "VOID" THEN c
            ELSE IF s.value # <<>> THEN Promoted(c, s.value[1], t)
            ELSE EmitZeroValue(c, t)
  IN Op(c1, "RET")

\* Nothing more is emitted for a program that will not run.
Statement(c, s) ==
  IF c.errors # 0 THEN c
  ELSE CASE s.kind = "EXPR" -> ExprStatement(c, s.expr)
         [] s.kind = "VARDECL" -> VarDeclStatement(c, s)
         [] s.kind = "ASSIGN" -> AssignStatement(c, s)
         [] s.kind = "IF" -> IfStatement(c, s)
         [] s.kind = "WHILE" -> WhileStatement(c, s)
         [] s.kind = "FOR" -> ForStatement(c, s)
         [] s.kind = "SWITCH" -> SwitchStatement(c, s)
         [] s.kind = "BREAK" -> AddBreak(EmitJump(c, "JMP"))
         [] s.kind = "CONTINUE" -> AddContinue(EmitJump(c, "JMP"))
         [] s.kind = "RETURN" -> ReturnStatement(c, s)
         [] s.kind = "BLOCK" -> StatementList(c, s.list)

StatementList(c, list) == PopScope(FoldLeft(Statement, PushScope(c), list))

-----------------------------------------------------------------------------
\* Globals: laid out in order, then initialised from constant expressions
\* (codegen_eval_const); a division by zero is not a constant.
RECURSIVE EvalConst(_)
EvalConst(e) ==
  LET l == EvalConst(e.left)
      r == EvalConst(e.right)
      known(x) == [ok |-> TRUE, v |-> x]
      unknown == [ok |-> FALSE, v |-> 0]
  IN CASE e.kind = "LIT" -> known(e.v)
       [] e.kind = "SIZEOF" -> known(SizeofValue(e))
       [] e.kind = "UNARY" ->
            LET x == EvalConst(e.expr)
            IN IF ~x.ok THEN unknown
               ELSE known(IF e.op = "-" THEN -x.v ELSE IF x.v = 0 THEN 1 ELSE 0)
       [] e.kind = "BINARY" ->
            IF ~(l.ok /\ r.ok) THEN unknown
            ELSE CASE e.op = "+" -> known(l.v + r.v)
                   [] e.op = "-" -> known(l.v - r.v)
                   [] e.op = "*" -> known(l.v * r.v)
                   [] e.op = "/" /\ r.v # 0 -> known(Quot(l.v, r.v))
                   [] e.op = "%" /\ r.v # 0 -> known(Rem(l.v, r.v))
                   [] OTHER -> unknown
       [] OTHER -> unknown

\* codegen_write_const_bytes: no member of a struct or array is written.
ConstBytes(image, off, t, v) ==
  LET tag == ValueTagOf(t)
      x == IF tag = "BOOL" THEN BoolVal(v # 0).v ELSE Fit(tag, v)
  IN IF t.kind \in {"STRUCT", "ARRAY", "VOID"} THEN image
     ELSE PutU(image, off + 1, TagSize(tag), x)

LayoutGlobals(c, globals) ==
  LET layout(d, g) ==
        [DataAlloc(d, g.ty.size, g.ty.align) EXCEPT !.globals =
           Append(@, [name |-> g.name, addr |-> U32(DataBase + DataOff(d, g.ty.align))])]
      init(d, g) ==
        LET x == EvalConst(g.init[1])
            off == U32(d.globals[Named(d.globals, g.name)].addr - DataBase)
        IN IF g.init = <<>> THEN d
           ELSE IF ~x.ok THEN [d EXCEPT !.errors = @ + 1]
           ELSE [d EXCEPT !.image = ConstBytes(@, off, g.ty, x.v)]
  IN FoldLeft(init, FoldLeft(layout, c, globals), globals)

\* codegen_layout_func_params: the hidden result pointer, then the parameters.
\* declared is what the source says the function returns.
Signature(f) ==
  LET returnsStruct == f.ret.kind = "STRUCT"
      place(s, p) ==
        LET off == AlignUp(s.size, p.ty.align)
        IN [size |-> U32(off + p.ty.size),
            params |-> Append(s.params,
              [off |-> off, size |-> p.ty.size, isStruct |-> p.ty.kind = "STRUCT",
               tag |-> ValueTagOf(p.ty)])]
      s == FoldLeft(place, [size |-> IF returnsStruct THEN 4 ELSE 0, params |-> <<>>], f.params)
  IN [entry |-> 0, params |-> s.params, paramArea |-> s.size, frameSize |-> 0,
      returnsStruct |-> returnsStruct, returnTag |-> ValueTagOf(f.ret),
      returnSize |-> f.ret.size, returnAlign |-> IF f.ret.align = 0 THEN 1 ELSE f.ret.align,
      declared |-> CASE f.ret.kind = "VOID" -> "void"
                     [] f.ret.kind = "STRUCT" -> "struct"
                     [] OTHER -> "scalar"]

\* A function's code ends with a return of its own, of a zero value.
FunctionCode(c, f) ==
  LET i == SelectInSeq(c.names, LAMBDA n : n = f.name)
      sig == c.funcs[i]
      c1 == [c EXCEPT !.funcs[i].entry = Here(c), !.next = sig.paramArea,
                      !.high = sig.paramArea, !.returnType = f.ret, !.scopes = <<>>]
      c2 == FoldLeft(LAMBDA d, j : Bind(d, f.params[j].name, sig.params[j].off),
                     PushScope(c1), [j \in 1..Len(f.params) |-> j])
      c3 == PopScope(Statement(c2, f.body))
      c4 == IF sig.returnsStruct
            THEN EmitSize(PushSret(c3), "ZERO_MEM", sig.returnSize)
            ELSE IF sig.returnTag = "VOID" THEN c3
            ELSE EmitZeroValue(c3, f.ret)
      c5 == Op(c4, "RET")
  IN [c5 EXCEPT !.funcs[i].frameSize = c5.high]

\* codegen_program, codegen_finish: call main, discard its result, halt; then
\* the functions.  errors counts the diagnostics, and stops the compilation:
\* one for each initialiser that is not constant, and one for too much data.
\* spins says that bc_data_alloc has never returned, and nothing came after it.
DataSize == HeapBase - DataBase         \* DATA_SIZE
AddFunc(c, f) == [c EXCEPT !.names = Append(@, f.name), !.funcs = Append(@, Signature(f))]
Compile(p) ==
  LET empty == [code |-> <<>>, image |-> <<>>, dataSize |-> 0, spins |-> FALSE,
                globals |-> <<>>, errors |-> 0, names |-> <<>>, funcs |-> <<>>,
                next |-> 0, high |-> 0, scopes |-> <<>>, loops |-> <<>>, returnType |-> VoidT]
      c0 == FoldLeft(AddFunc, LayoutGlobals(empty, p.globals), p.funcs)
      main == SelectLastInSeq(c0.names, LAMBDA n : n = "main")
      c1 == Emit(c0, [op |-> "CALL", f |-> main])
      discards == c0.funcs[main].returnsStruct \/ c0.funcs[main].returnTag # "VOID"
      c2 == Op(IF discards THEN Op(c1, "POP") ELSE c1, "HALT")
      c3 == Op(FoldLeft(FunctionCode, c2, p.funcs), "HALT")
      full == c3.dataSize > DataSize
  IN [code |-> c3.code, funcs |-> c3.funcs, image |-> SubSeq(c3.image, 1, c3.dataSize),
      spins |-> c3.spins, errors |-> c3.errors + (IF full THEN 1 ELSE 0)]
=============================================================================
