----------------------------- MODULE MCVerifier -----------------------------
EXTENDS MCVm, Verifier

\* Shapes found by following the code from the prologue and every function's
\* entry: forwards, and once more for what is only reached by a jump back.
Spread(k, sh, at) ==
  LET ins == Programs[k].code[at]
      f == sh[at].func
      s == sh[at].tags
      new == (Successors(ins, at) \cap DOMAIN Programs[k].code) \ DOMAIN sh
  IN IF at \in DOMAIN sh /\ AsListed(k, ins, s)
     THEN [j \in DOMAIN sh \cup new |-> IF j \in new THEN Shape(f, After(k, ins, s)) ELSE sh[j]]
     ELSE sh
RECURSIVE Walk(_, _, _, _)
Walk(k, sh, lo, hi) ==
  IF lo = hi THEN Spread(k, sh, lo)
  ELSE LET mid == (lo + hi) \div 2
           half == Walk(k, sh, lo, mid)
       IN IF DOMAIN half = {} THEN sh ELSE Walk(k, half, mid + 1, hi)
ShapesOf(k) ==
  LET n == Len(Programs[k].code)
      funcs == Programs[k].funcs
      entries == {funcs[f].entry : f \in DOMAIN funcs}
      start == [j \in {1} \cup entries |->
                  Shape(IF j = 1 THEN 0 ELSE CHOOSE f \in DOMAIN funcs : funcs[f].entry = j, <<>>)]
  IN Walk(k, Walk(k, start, 1, n), 1, n)
MCShapes == LET of(k) == ShapesOf(k) IN [k \in Compiled |-> of(k)]
=============================================================================
