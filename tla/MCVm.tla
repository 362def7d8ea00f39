-------------------------------- MODULE MCVm --------------------------------
(***************************************************************************)
(* Compiled programs on a scaled-down machine: Radix 4, so a char holds    *)
(* -2..1, an int -128..127, a pointer 0..255, and a 256-cell memory is the *)
(* whole address space.                                                    *)
(***************************************************************************)
EXTENDS Vm, Typecheck, Codegen

x == Var("x")
Inc(v) == Assign(v, Binary("+", v, I(1)))
Show(args) == ExprS(CallE("print", args))
Main(body) == Func(IntT, "main", <<>>, body)
CharP == PointerTo(CharT)
IntP == PointerTo(IntT)

-----------------------------------------------------------------------------
\* Every way a leaf leaves a branch of an if or switch inside a loop.
Leaves == <<Inc(x), Break, Continue, Return(<<x>>)>>
Branch(shape, a, b) ==
  CASE shape = "if" -> If(Binary("EQ", x, I(1)), a, <<b>>)
    [] shape = "switch" -> Switch(x, <<Case(2, <<a>>), Default(<<b>>), Case(1, <<>>)>>)
i == Var("i")
Loop(shape, b) ==
  CASE shape = "while" -> While(Binary("LT", x, I(3)), Block(<<Inc(x), b>>))
    [] shape = "for" ->
         For(<<VarDecl(IntT, "i", <<I(0)>>)>>, <<Binary("LT", i, I(3))>>, <<Inc(i)>>,
             Block(<<VarDecl(IntT, "y", <<i>>), b>>))
LoopProgram(l) ==
  Source(<<>>, <<Func(IntT, "f", <<Param(IntT, "x")>>, <<l, Inc(x)>>),
                 Main(<<Show(<<CallE("f", <<I(0)>>)>>)>>)>>)
LoopPrograms ==
  [k \in 1..64 |->
     LET n == k - 1
         branch == Branch(<<"if", "switch">>[((n \div 16) % 2) + 1],
                          Leaves[(n % 4) + 1], Leaves[((n \div 4) % 4) + 1])
     IN LoopProgram(Loop(<<"while", "for">>[(n \div 32) + 1], branch))]

-----------------------------------------------------------------------------
\* Struct values: returned, passed, copied, discarded, through pointers.
P == StructOf("P", << <<"c", CharT>>, <<"n", IntT>> >>)
p == Var("p")
q == Var("q")
r == Var("r")
a == Var("a")
Mk(e) == CallE("mk", <<e>>)
Twice(e) == CallE("twice", <<e>>)
StructFuncs ==
  << Func(P, "mk", <<Param(IntT, "a")>>,
       <<VarDecl(P, "p", <<>>), Assign(Dot(p, "c"), CastE(CharT, a)), Assign(Dot(p, "n"), a),
         Return(<<p>>)>>),
     Func(P, "twice", <<Param(P, "p")>>,
       <<Assign(Dot(p, "n"), Binary("+", Dot(p, "n"), Dot(p, "n"))),
         Return(<<Mk(Dot(p, "n"))>>)>>),
     Func(P, "none", <<>>, <<>>),
     Func(IntT, "sum", <<Param(P, "p"), Param(P, "q")>>,
       <<Return(<<Binary("+", Dot(p, "n"), Dot(q, "n"))>>)>>) >>
StructProgram(body) == Source(<<Global(P, "r", <<>>)>>, Append(StructFuncs, Main(body)))
StructPrograms ==
  << StructProgram(<<VarDecl(P, "q", <<Mk(I(3))>>), Assign(r, Twice(q)), ExprS(Mk(I(5))),
                    Show(<<CallE("sum", <<Mk(I(1)), Twice(r)>>), Dot(q, "n")>>)>>),
    StructProgram(<<VarDecl(P, "p", <<>>), Block(<<VarDecl(P, "q", <<p>>), Assign(r, q)>>),
                    VarDecl(PointerTo(P), "s", <<AddrOfE(r)>>),
                    Assign(Arrow(Var("s"), "n"), I(9)),
                    Assign(p, CallE("none", <<>>)),
                    Assign(r, Twice(Deref(Var("s")))),
                    Show(<<Dot(r, "n"), Dot(p, "n")>>)>>) >>

-----------------------------------------------------------------------------
\* Arrays, pointers, strings, the heap, conversions.
arr == Var("arr")
ptr == Var("ptr")
m == Var("m")
g == Var("g")
l == Var("l")
b == Var("b")
AB == StrLit(<<1, 2>>)
MemoryGlobals ==
  <<Global(CharT, "h", <<Unary("-", I(1))>>),
    Global(IntT, "g", <<Binary("-", Binary("*", I(2), I(3)), Unary("!", Lit("BOOL", 0)))>>)>>
MemoryProgram(body) == Source(MemoryGlobals, <<Main(body)>>)
MemoryPrograms ==
  << MemoryProgram(
      <<VarDecl(ArrayOf(IntT, 3), "arr", <<>>), VarDecl(IntP, "ptr", <<arr>>),
        Assign(Index(arr, I(2)), Binary("+", Index(arr, I(0)), g)),
        Assign(ptr, Binary("+", ptr, Lit("LONG", 1))), Assign(Deref(ptr), I(7)),
        Show(<<Index(arr, I(1)), Index(arr, I(2)), Deref(Binary("-", ptr, I(1)))>>)>>),
    MemoryProgram(
      <<VarDecl(ArrayOf(IntT, 3), "arr", <<>>), VarDecl(IntP, "ptr", <<AddrOfE(arr)>>),
        Assign(Index(ptr, I(1)), Binary("/", g, Unary("-", I(2)))),
        VarDecl(LongT, "l", <<Binary("-", AddrOfE(Index(arr, I(2))), ptr)>>),
        Show(<<l, Binary("%", g, I(2)), Index(arr, I(1))>>)>>),
    MemoryProgram(
      <<VarDecl(IntP, "ptr", <<NullLit>>), VarDecl(LongT, "l", <<>>),
        VarDecl(BoolT, "b", <<Binary("&&", Unary("!", Binary("LT", ptr, AddrOfE(g))),
                                     Binary("||", Binary("EQ", ptr, NullLit), Binary("GE", l, I(1))))>>),
        Assign(b, Binary("&&", Unary("!", ptr), Binary("||", b, Binary("GE", l, I(1))))),
        Show(<<b>>)>>),
    MemoryProgram(
      <<VarDecl(CharP, "m", <<CallE("malloc", <<SizeofT(IntT)>>)>>),
        ExprS(CallE("strcpy", <<m, AB>>)),
        Show(<<m, CallE("strlen", <<m>>),
               CallE("strcmp", <<m, StrLit(<<1, 3>>)>>)>>),
        ExprS(CallE("free", <<m>>)), ExprS(CallE("free", <<NullLit>>)),
        Assign(m, CallE("malloc", <<I(100)>>)),
        Show(<<Binary("EQ", m, NullLit), Var("h")>>)>>) >>

-----------------------------------------------------------------------------
\* Programs the VM stops, each for its own reason.
Bad(e) == MemoryProgram(<<VarDecl(ArrayOf(IntT, 3), "arr", <<>>), VarDecl(IntP, "ptr", <<>>),
                          VarDecl(LongT, "l", <<>>), e>>)
Endless(decls, e) ==
  Source(<<>>, <<Func(IntT, "f", <<>>, Append(decls, Return(<<e>>))), Main(<<ExprS(e)>>)>>)
FaultPrograms ==
  << Bad(Assign(Index(arr, g), I(1))),
    Bad(Assign(Deref(ptr), I(1))),
    Bad(Show(<<Deref(Binary("+", ptr, I(63)))>>)),
    Bad(Show(<<Binary("/", I(1), l)>>)),
    Bad(Show(<<Binary("/", Binary("-", Lit("LONG", -32767), I(1)), I(-1))>>)),
    Bad(ExprS(CallE("free", <<AddrOfE(g)>>))),
    Bad(ExprS(CallE("strlen", <<NullLit>>))),
    Bad(ExprS(CallE("strcpy", <<NullLit, AB>>))),
    Bad(ExprS(CallE("strcmp", <<AB, NullLit>>))),
    Endless(<<>>, CallE("f", <<>>)),
    Endless(<<>>, Binary("+", I(1), Binary("+", I(1), CallE("f", <<>>)))),
    Endless(<<VarDecl(ArrayOf(LongT, 6), "arr", <<>>)>>, CallE("f", <<>>)) >>

-----------------------------------------------------------------------------
\* A function declared void, called where its call leaves an operand behind.
VoidPrograms ==
  << Source(<<>>, <<Func(VoidT, "v", <<>>, <<>>),
                    Func(IntT, "g", <<>>, <<ExprS(CallE("v", <<>>)), Return(<<I(5)>>)>>),
                    Main(<<Show(<<Binary("+", I(1), CallE("g", <<>>))>>)>>)>>) >>

\* The negation of a char is an int to the type checker, a char to the VM.
c == Var("c")
NegatePrograms ==
  << Source(<<>>, <<Main(<<VarDecl(CharT, "c", <<I(1)>>),
                           Show(<<Binary("+", Unary("-", c), I(20))>>)>>)>>) >>

\* An index that is a char meets the size of an element, an int: the offset is
\* computed in a char, where that of arr[1] is 0.
IndexPrograms ==
  << Source(<<>>, <<Main(<<VarDecl(ArrayOf(IntT, 3), "arr", <<>>), VarDecl(CharT, "c", <<I(1)>>),
                           Assign(Index(arr, I(1)), I(7)), VarDecl(IntP, "ptr", <<arr>>),
                           Show(<<Index(ptr, c)>>)>>)>>) >>

-----------------------------------------------------------------------------
\* The VM runs whatever bytecode it is given: every three instructions of a
\* menu, with three frame sizes; a scalar result with no parameter, a struct
\* result (its address is a hidden parameter) with one, and no result.
Menu ==
  << [op |-> "PUSH", val |-> Val("INT", 1)], [op |-> "POP"], [op |-> "HALT"],
     [op |-> "CALL", f |-> 1], [op |-> "CALL", f |-> 2], [op |-> "CALL", f |-> 3],
     [op |-> "RET"], [op |-> "JMP", to |-> 1], [op |-> "JZ", to |-> 3] >>
MenuFuncs ==
  << [entry |-> 2, params |-> <<>>, frameSize |-> 40, returnsStruct |-> FALSE,
      returnTag |-> "INT", declared |-> "scalar"],
     [entry |-> 3, params |-> <<[off |-> 4, size |-> 4, tag |-> "INT", isStruct |-> FALSE]>>,
      frameSize |-> 8, returnsStruct |-> TRUE, returnTag |-> "INT", declared |-> "struct"],
     [entry |-> 1, params |-> <<>>, frameSize |-> 4, returnsStruct |-> FALSE,
      returnTag |-> "VOID", declared |-> "void"] >>
Assemble(w) == [code |-> [j \in 1..3 |-> Menu[w[j]]], funcs |-> MenuFuncs, image |-> <<>>]

-----------------------------------------------------------------------------
\* A function that falls off its end returns a zero of its own type.
EndPrograms ==
  << Source(<<>>, <<Func(LongT, "z", <<>>, <<>>),
                    Main(<<Show(<<Binary("+", CallE("z", <<>>), Lit("LONG", 1))>>)>>)>>) >>
MCSources == LoopPrograms \o StructPrograms \o MemoryPrograms \o FaultPrograms \o EndPrograms
CompileAll(sources) == [k \in DOMAIN sources |-> Compile(TypecheckProgram(sources[k]).program)]

\* Each is compiled once: TLC keeps the value of a definition without
\* parameters that another one refers to.  The LET keeps TLC's coverage
\* statistics to the VM: they would follow every call of the code generator.
All == CompileAll(MCSources)
WithVoid == CompileAll(VoidPrograms)
WithNegate == CompileAll(NegatePrograms)
WithIndex == CompileAll(IndexPrograms)
\* A compiled program is named by a sequence of one number, an assembled one
\* by its three.
MCCompiled == {<<k>> : k \in DOMAIN MCSources}
MCPrograms ==
  LET built(w) == IF Len(w) = 1 THEN All[w[1]] ELSE Assemble(w)
  IN [w \in MCCompiled \cup [1..3 -> DOMAIN Menu] |-> built(w)]
MCVoid == LET built(w) == WithVoid[w[1]] IN [w \in {<<1>>} |-> built(w)]
MCNegate == LET built(w) == WithNegate[w[1]] IN [w \in {<<1>>} |-> built(w)]
MCIndex == LET built(w) == WithIndex[w[1]] IN [w \in {<<1>>} |-> built(w)]
=============================================================================
