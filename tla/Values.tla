------------------------------- MODULE Values -------------------------------
(***************************************************************************)
(* Runtime values (Value and ValueTag in src/src/codegen.h) and the        *)
(* arithmetic on them in src/src/vm.c, for the integer, bool, char and     *)
(* pointer tags.  Every width is a number of bytes of Memory's Radix, so a *)
(* scaled-down machine keeps the ratio of its widths, and its overflows.   *)
(*                                                                         *)
(* A value is [tag, v]: v is signed, except that a PTR holds an address,   *)
(* which the code always reads as a uint32_t.                              *)
(***************************************************************************)
EXTENDS HeapMemory

CONSTANT DataBase   \* GUARD_SIZE: addresses below are never valid

Tags == {"BOOL", "CHAR", "INT", "LONG", "PTR"}

\* value_tag_size
TagSize(t) == CASE t \in {"BOOL", "CHAR"} -> 1
                [] t \in {"INT", "PTR"} -> 4
                [] t = "LONG" -> 8

\* The number x stored in a union member of tag t and read back.
Fit(t, x) == IF t = "PTR" THEN Unsigned(x, 4) ELSE Signed(x, TagSize(t))

Val(t, x) == [tag |-> t, v |-> Fit(t, x)]
BoolVal(b) == [tag |-> "BOOL", v |-> IF b THEN 1 ELSE 0]

AsPtr(a) == Unsigned(a.v, 4)         \* (uint32_t)a.as.ptr
IsTruthy(a) == a.v # 0

\* cast_value; the conversion to bool is a test against zero.
CastValue(a, t) == IF t = "BOOL" THEN BoolVal(a.v # 0) ELSE Val(t, a.v)

\* arith: the result has the tag of the left operand.
Arith(op, a, b) ==
  LET z == CASE op = "ADD" -> a.v + b.v
             [] op = "SUB" -> a.v - b.v
             [] op = "MUL" -> a.v * b.v
             [] op = "DIV" -> Quot(a.v, b.v)
             [] op = "MOD" -> Rem(a.v, b.v)
  IN IF a.tag = "BOOL" THEN BoolVal(z # 0) ELSE Val(a.tag, z)

\* negate keeps the operand's tag.
Negate(a) == Val(a.tag, -a.v)

\* compare
Compare(op, a, b) ==
  LET x == IF a.tag = "PTR" THEN AsPtr(a) ELSE a.v
      y == IF a.tag = "PTR" THEN AsPtr(b) ELSE b.v
  IN CASE op = "LT" -> x < y [] op = "GT" -> x > y
       [] op = "LE" -> x <= y [] op = "GE" -> x >= y
       [] op = "EQ" -> x = y [] op = "NE" -> x # y

\* read_value and write_value, past their range check.  The member of the
\* union is the one the instruction names: a value of a narrower tag has
\* nothing defined above its own bytes, and junk is what is found there.
ReadValue(m, a, t) == Val(t, GetU(m, a, TagSize(t)))
WriteValue(m, a, t, x, junk) ==
  IF TagSize(t) <= TagSize(x.tag)
  THEN PutU(m, a, TagSize(t), x.v)
  ELSE PutU(PutU(m, a, TagSize(t), junk), a, TagSize(x.tag), x.v)
=============================================================================
