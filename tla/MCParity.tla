------------------------------ MODULE MCParity ------------------------------
(***************************************************************************)
(* At both levels: MCVm's programs, loops with code after their jumps, and *)
(* every constant expression of two binary operators over literals of each *)
(* type.                                                                   *)
(***************************************************************************)
EXTENDS MCVm, Parity, Optimize

\* A loop whose jumps are followed by code no path reaches, in a list of a
\* block or of a case.
DeadLoop(k) ==
  LET leaf(n) == Block(<<Leaves[(n % 4) + 1], Inc(x), Break>>)
      branch == Branch(<<"if", "switch">>[((k \div 16) % 2) + 1], leaf(k), leaf(k \div 4))
  IN LoopProgram(Loop(<<"while", "for">>[((k \div 32) % 2) + 1], branch))

ShowMain(args) == Source(<<>>, <<Main(<<Show(args)>>)>>)

\* Chars and longs near the ends of an int, where the width decides.
Literals == <<Lit("CHAR", 1), Lit("BOOL", 1), I(100), I(0), Lit("LONG", 120)>>
Operators == <<"+", "-", "*", "/", "%", "LT", "EQ", "&&", "||">>
Folded(k) ==
  LET lit(n) == Literals[(n % 5) + 1]
      op(n) == Operators[(n % 9) + 1]
      inner == Binary(op(k \div 5), lit(k), lit(k \div 45))
  IN ShowMain(<<Unary("!", inner), Binary(op(k \div 225), inner, lit(k \div 2025))>>)

\* Nothing to the left of the minus is a char or a bool (see VmNegate.cfg).
Negated(k) ==
  LET lit(n) == <<I(100), Lit("LONG", 120), I(0)>>[(n % 3) + 1]
  IN ShowMain(<<Binary(Operators[((k \div 3) % 9) + 1], Unary("-", lit(k)), lit(k \div 27))>>)

Forms == StructPrograms \o MemoryPrograms \o FaultPrograms

SourceOf(k) ==
  CASE k <= 18 -> Forms[k]
    [] k \in 19..82 -> DeadLoop(k)
    [] k \in 83..163 -> Negated(k)
    [] OTHER -> Folded(k)

\* Each source is built once at each level (see MCVm).
BuildAll(level) == [k \in 1..10288 |-> Build(SourceOf(k), level)]
Plain == BuildAll("O0")
Optimized == BuildAll("O1")
MCPairs ==
  LET built(n) == IF n[2] = "O0" THEN Plain[n[1]] ELSE Optimized[n[1]]
  IN [n \in (DOMAIN Plain) \X {"O0", "O1"} |-> built(n)]
=============================================================================
