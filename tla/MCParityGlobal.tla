--------------------------- MODULE MCParityGlobal ---------------------------
(***************************************************************************)
(* A global whose initialiser overflows an int on the way.                 *)
(***************************************************************************)
EXTENDS Parity, Optimize

Overflowing == Binary("/", Binary("+", I(127), I(1)), I(2))
Show(args) == ExprS(CallE("print", args))
GlobalSource ==
  Source(<<Global(IntT, "g", <<Overflowing>>)>>,
         <<Func(IntT, "main", <<>>, <<Show(<<Var("g")>>)>>)>>)

Plain == Build(GlobalSource, "O0")
Optimized == Build(GlobalSource, "O1")
MCPairs ==
  LET built(n) == IF n[2] = "O0" THEN Plain ELSE Optimized
  IN [n \in {1} \X {"O0", "O1"} |-> built(n)]
=============================================================================
