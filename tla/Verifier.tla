------------------------------ MODULE Verifier ------------------------------
(***************************************************************************)
(* What bytecode has to be for the VM's own checks to be needless.  The VM *)
(* takes the operands of an instruction and their tags as it finds them.   *)
(* Bytecode is verified when each instruction has one shape of the operand *)
(* stack, the same on every path to it, and the rows of the table of       *)
(* opcodes (src/src/codegen.h) lead from each shape to the next.           *)
(*                                                                         *)
(* A shape is the function an instruction belongs to (0 for the prologue)  *)
(* and the tags of the operands pushed since that function was entered.    *)
(***************************************************************************)
EXTENDS Vm

CONSTANT Shapes   \* for each compiled program, the shapes of its instructions

Arithmetic == {"ADD", "SUB", "MUL", "DIV", "MOD"}
Comparison == {"LT", "GT", "LE", "GE", "EQ", "NE"}
OnPointers == {"PTR_ADD", "PTR_SUB", "PTR_DIFF", "ARR_ADDR"}

\* The tags of what a function is declared to return by value.
Returned(f) == IF f.declared = "scalar" THEN <<f.returnTag>> ELSE <<>>

\* BC_RET pops a value and pushes it back.
HasRetval(f) == ~f.returnsStruct /\ f.returnTag # "VOID"

\* How many operands an instruction takes.
Pops(p, ins) ==
  CASE ins.op \in {"POP", "DUP", "LOAD", "ZERO_MEM", "NEG", "NOT", "CAST", "MEMBER_ADDR", "JZ"} -> 1
    [] ins.op \in {"STORE", "COPY"} \cup OnPointers \cup Arithmetic \cup Comparison -> 2
    [] ins.op = "CALL" -> LET f == Programs[p].funcs[ins.f]
                          IN IF f.returnsStruct THEN Len(f.params) + 1 ELSE Len(f.params)
    [] ins.op = "CALL_NATIVE" -> CASE ins.id = "print" -> ins.argc
                                   [] ins.id \in {"strcmp", "strcpy"} -> 2
                                   [] OTHER -> 1
    [] OTHER -> 0

\* The tags of what it leaves, behind operands of the tags s.
Pushes(p, ins, s) ==
  CASE ins.op = "PUSH" -> <<ins.val.tag>>
    [] ins.op = "DUP" -> <<s[Len(s)], s[Len(s)]>>
    [] ins.op \in {"ADDR_LOCAL", "PTR_ADD", "PTR_SUB", "ARR_ADDR", "MEMBER_ADDR"} -> <<"PTR">>
    [] ins.op = "PTR_DIFF" -> <<"LONG">>
    [] ins.op \in {"LOAD", "CAST"} -> <<ins.tag>>
    [] ins.op \in Arithmetic -> <<s[Len(s) - 1]>>
    [] ins.op = "NEG" -> <<s[Len(s)]>>
    [] ins.op \in Comparison \cup {"NOT"} -> <<"BOOL">>
    [] ins.op = "CALL" -> Returned(Programs[p].funcs[ins.f])
    [] ins.op = "CALL_NATIVE" -> CASE ins.id \in {"malloc", "strcpy"} -> <<"PTR">>
                                   [] ins.id \in {"strlen", "strcmp"} -> <<"INT">>
                                   [] OTHER -> <<>>
    [] OTHER -> <<>>

After(p, ins, s) == SubSeq(s, 1, Len(s) - Pops(p, ins)) \o Pushes(p, ins, s)

\* The operands are there and have the tags the row asks for.
AsListed(p, ins, s) ==
  LET above == s[Len(s)]
      below == s[Len(s) - 1]
  IN /\ Pops(p, ins) <= Len(s)
     /\ ins.op \in {"LOAD", "ZERO_MEM", "MEMBER_ADDR"} => above = "PTR"
     /\ ins.op = "STORE" => below = "PTR" /\ above = ins.tag
     /\ ins.op \in {"COPY", "PTR_DIFF"} => below = "PTR" /\ above = "PTR"
     /\ ins.op \in {"PTR_ADD", "PTR_SUB", "ARR_ADDR"} => below = "PTR" /\ above = "INT"
     /\ ins.op \in Arithmetic \cup Comparison => below = above

\* Where control goes from instruction i within its function.
Successors(ins, i) ==
  CASE ins.op = "JMP" -> {ins.to}
    [] ins.op = "JZ" -> {i + 1, ins.to}
    [] ins.op \in {"RET", "HALT"} -> {}
    [] OTHER -> {i + 1}

-----------------------------------------------------------------------------
Shape(f, s) == [func |-> f, tags |-> s]
Has(sh, i, shape) == i \in DOMAIN sh /\ sh[i] = shape

\* The shapes sh, of the instructions that have one, fit the program p.
Consistent(p, sh) ==
  LET code == Programs[p].code
      funcs == Programs[p].funcs
  IN /\ DOMAIN sh \subseteq DOMAIN code
     /\ Has(sh, 1, Shape(0, <<>>))
     /\ \A f \in DOMAIN funcs : Has(sh, funcs[f].entry, Shape(f, <<>>))
     /\ \A i \in DOMAIN sh :
          LET ins == code[i]
              f == sh[i].func
              s == sh[i].tags
          IN /\ s \in Seq(Tags)
             /\ AsListed(p, ins, s)
             /\ \A j \in Successors(ins, i) : Has(sh, j, Shape(f, After(p, ins, s)))
             /\ ins.op = "HALT" => f = 0 /\ s = <<>>
             /\ ins.op = "RET" => f # 0 /\ s = Returned(funcs[f]) /\ (HasRetval(funcs[f]) => s # <<>>)

Verified(p) == Consistent(p, Shapes[p])
Fitting == {p \in Compiled : Verified(p)}

\* Every compiled program is verified: of programs that call no void function and
\* neither negate, index nor offset with a char or bool (see Vm).
CompiledVerified == prog \in Compiled => prog \in Fitting
=============================================================================
