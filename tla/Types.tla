------------------------------- MODULE Types -------------------------------
(***************************************************************************)
(* The language's types (src/src/types.c): sizes, alignments, and the      *)
(* layout of structs.  Integer types are named by their width in bytes of  *)
(* Memory's Radix; sizes are uint32_t.                                     *)
(***************************************************************************)
EXTENDS Memory, Sequences
LOCAL INSTANCE SequencesExt

U32(x) == x % (Radix ^ 4)

\* types_init.  base is empty, or holds the one type pointed to or repeated.
Prim(kind, size, align) ==
  [kind |-> kind, size |-> size, align |-> align, base |-> <<>>, len |-> 0,
   name |-> "", fields |-> <<>>]

VoidT == Prim("VOID", 0, 1)
BoolT == Prim("BOOL", 1, 1)
CharT == Prim("CHAR", 1, 1)
IntT == Prim("INT", 4, 4)
LongT == Prim("LONG", 8, 8)
FloatT == Prim("FLOAT", 4, 4)
DoubleT == Prim("DOUBLE", 8, 8)
NoT == Prim("NONE", 0, 1)       \* of an expression that has no type yet (NULL)

PointerTo(t) == [Prim("POINTER", 4, 4) EXCEPT !.base = <<t>>]
ArrayOf(t, n) == [Prim("ARRAY", U32(t.size * n), t.align) EXCEPT !.base = <<t>>, !.len = n]
Base(t) == t.base[1]

\* align_up of types.c, align_up32 of codegen.c
AlignUp(off, align) ==
  IF align = 0 THEN off ELSE (U32(off + align - 1) \div align) * align

\* struct_define and type_struct: fields are <<name, type>> pairs, laid out in
\* order.  A struct's name is defined once, so it tells one type from another.
StructOf(name, fields) ==
  LET place(s, f) ==
        LET off == AlignUp(s.size, f[2].align)
        IN [size |-> U32(off + f[2].size),
            align |-> IF f[2].align > s.align THEN f[2].align ELSE s.align,
            fields |-> Append(s.fields, [name |-> f[1], ty |-> f[2], off |-> off])]
      s == FoldLeft(place, [size |-> 0, align |-> 1, fields |-> <<>>], fields)
      size == AlignUp(s.size, s.align)
  IN [Prim("STRUCT", IF size = 0 THEN s.align ELSE size, s.align)
        EXCEPT !.name = name, !.fields = s.fields]

\* struct_find_field; HasField is its test against NULL.
HasField(t, name) == \E i \in DOMAIN t.fields : t.fields[i].name = name
FindField(t, name) == t.fields[SelectInSeq(t.fields, LAMBDA f : f.name = name)]

IsInteger(t) == t.kind \in {"BOOL", "CHAR", "INT", "LONG"}
IsNumeric(t) == IsInteger(t) \/ t.kind \in {"FLOAT", "DOUBLE"}
IsPointer(t) == t.kind = "POINTER"
PtrLike(t) == t.kind \in {"POINTER", "ARRAY"}

\* type_assignable; two types are equal when their records are.
Assignable(dst, src) ==
  /\ dst.kind # "VOID" /\ src.kind # "VOID"
  /\ \/ dst = src
     \/ IsNumeric(dst) /\ IsNumeric(src)
     \/ IsPointer(dst) /\ IsPointer(src)
     \/ IsPointer(dst) /\ src.kind = "ARRAY" /\ (Base(dst) = Base(src) \/ Base(dst).kind = "VOID")

\* type_castable
Castable(dst, src) ==
  \/ Assignable(dst, src)
  \/ IsPointer(dst) /\ IsInteger(src)
  \/ IsInteger(dst) /\ IsPointer(src)

\* usual_arith: the wider of two numeric types, at least an int.
UsualArith(a, b) ==
  LET kinds == {a.kind, b.kind}
  IN CASE "DOUBLE" \in kinds -> DoubleT
       [] "DOUBLE" \notin kinds /\ "FLOAT" \in kinds -> FloatT
       [] kinds \cap {"DOUBLE", "FLOAT"} = {} /\ "LONG" \in kinds -> LongT
       [] OTHER -> IntT
=============================================================================
