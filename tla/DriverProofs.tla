---------------------------- MODULE DriverProofs ----------------------------
(***************************************************************************)
(* Whatever the passes compute, main ends as its diagnostics say and       *)
(* prints each of them once; and what holds of the preprocessor holds of   *)
(* it inside main.                                                         *)
(*                                                                         *)
(* EndsAsReported is about the last state only.  That it holds there is    *)
(* settled by each flush and each test on the way: what is printed is      *)
(* always the beginning of the one list, all of it behind a flush, and the *)
(* phase that follows says how the list was judged (Judged).               *)
(***************************************************************************)
EXTENDS Driver, IncludeProofs

\* One list is the beginning of another.
Begins(s, t) == Len(s) <= Len(t) /\ \A k \in 1..Len(s) : s[k] = t[k]

Printed == \E D : shown \in Seq(D) /\ diags \in Seq(D) /\ Begins(shown, diags)

\* What each phase knows of the list.
Judged ==
  /\ phase = "typecheck" => shown = diags
  /\ phase \in {"generate", "exit 0", "run"} => shown = diags /\ ~Fatal(diags)
  /\ phase = "exit 1" => shown = diags /\ Fatal(diags)

\* The inductive invariant.
DInv == Printed /\ Judged

-----------------------------------------------------------------------------
LEMMA InvariantEnds == DInv => EndsAsReported
<1> SUFFICES ASSUME DInv, phase \in Endings \ {"crash"}
             PROVE  /\ shown = diags
                    /\ (phase = "exit 1") <=>
                         \E k \in DOMAIN shown : project.werror \/ shown[k].why \notin WarningKinds
  BY DEF EndsAsReported
<1>1. shown = diags /\ ((phase = "exit 1") <=> Fatal(diags))
  BY DEF DInv, Judged, Endings
<1> QED BY <1>1 DEF Fatal, HasErrors, HasWarnings

\* A flush brings what is printed up to the end of the list (flush_diags).
LEMMA FlushedAll ==
  ASSUME NEW D, NEW list \in Seq(D), shown \in Seq(D), Begins(shown, list)
  PROVE  Flushed(list) = list
<1> DEFINE rest == SubSeq(list, Len(shown) + 1, Len(list))
<1>1. Len(shown) \in Nat /\ Len(list) \in Nat /\ Len(shown) <= Len(list)
  BY LenProperties DEF Begins
<1>2. \A i \in Len(shown) + 1..Len(list) : list[i] \in D
  BY <1>1, ElementOfSeq
<1>3. /\ rest \in Seq(D)
      /\ Len(rest) = Len(list) - Len(shown)
      /\ \A i \in 1..Len(list) - Len(shown) : rest[i] = list[Len(shown) + i]
  <2>1. Len(shown) + 1 \in Int /\ Len(list) \in Int BY <1>1
  <2>2. /\ rest \in Seq(D)
        /\ Len(rest) = IF Len(shown) + 1 <= Len(list) THEN Len(list) - (Len(shown) + 1) + 1 ELSE 0
        /\ \A i \in 1..Len(list) - (Len(shown) + 1) + 1 : rest[i] = list[Len(shown) + 1 + i - 1]
    BY <1>2, <2>1, SubSeqProperties
  <2> HIDE DEF rest
  <2> QED BY <1>1, <2>2
<1> HIDE DEF rest
<1>4. /\ shown \o rest \in Seq(D)
      /\ Len(shown \o rest) = Len(list)
      /\ \A i \in 1..Len(list) : (shown \o rest)[i] = IF i <= Len(shown) THEN shown[i]
                                                     ELSE rest[i - Len(shown)]
  BY <1>1, <1>3, ConcatProperties
<1>5. \A i \in 1..Len(list) : (shown \o rest)[i] = list[i]
  <2> SUFFICES ASSUME NEW i \in 1..Len(list) PROVE (shown \o rest)[i] = list[i] OBVIOUS
  <2>1. CASE i <= Len(shown)
    <3>1. i \in 1..Len(shown) BY <1>1, <2>1
    <3> QED BY <1>4, <2>1, <3>1 DEF Begins
  <2>2. CASE ~(i <= Len(shown))
    <3>1. i - Len(shown) \in 1..Len(list) - Len(shown) /\ Len(shown) + (i - Len(shown)) = i
      BY <1>1, <2>2
    <3> QED BY <1>3, <1>4, <2>2, <3>1
  <2> QED BY <2>1, <2>2
<1>6. shown \o rest = list BY <1>4, <1>5, SeqEqual
<1> QED BY <1>6 DEF Flushed, rest

\* A function from 1..n is a sequence of what it has as values.
LEMMA IsSeq ==
  ASSUME NEW n \in Nat, NEW f, f = [k \in 1..n |-> f[k]]
  PROVE  f \in Seq({f[k] : k \in 1..n})
<1>1. f \in [1..n -> {f[k] : k \in 1..n}] OBVIOUS
<1> QED BY <1>1, SeqDef

\* What is printed stays the beginning of a list that something is added to.
LEMMA AddedTo ==
  ASSUME Printed, NEW n \in Nat, NEW more, more = [k \in 1..n |-> more[k]]
  PROVE  \E D : shown \in Seq(D) /\ diags \o more \in Seq(D) /\ Begins(shown, diags \o more)
<1>1. PICK D : shown \in Seq(D) /\ diags \in Seq(D) /\ Begins(shown, diags) BY DEF Printed
<1> DEFINE E == D \cup {more[k] : k \in 1..n}
<1>2. more \in Seq({more[k] : k \in 1..n}) BY IsSeq
<1>3. shown \in Seq(E) /\ diags \in Seq(E) /\ more \in Seq(E) BY <1>1, <1>2, SeqMonotonic
<1> HIDE DEF E
<1>4. /\ diags \o more \in Seq(E)
      /\ Len(diags \o more) = Len(diags) + Len(more)
      /\ \A i \in 1..Len(diags) + Len(more) :
           (diags \o more)[i] = IF i <= Len(diags) THEN diags[i] ELSE more[i - Len(diags)]
  BY <1>3, ConcatProperties
<1>5. Len(diags) \in Nat /\ Len(more) \in Nat /\ Len(shown) \in Nat BY <1>3, LenProperties
<1>6. Begins(shown, diags \o more) BY <1>1, <1>4, <1>5 DEF Begins
<1> QED BY <1>3, <1>4, <1>6

\* A step that only adds to the list.
LEMMA AddedPrinted ==
  ASSUME Printed, NEW n \in Nat, NEW more, more = [k \in 1..n |-> more[k]],
         diags' = diags \o more, UNCHANGED shown
  PROVE  Printed'
BY AddedTo DEF Printed

\* A step that adds to the list and prints it.
LEMMA FlushedPrinted ==
  ASSUME NEW D, shown \in Seq(D), diags' \in Seq(D), Begins(shown, diags'),
         shown' = Flushed(diags')
  PROVE  Printed' /\ shown' = diags'
<1>1. shown' = diags' BY FlushedAll
<1>2. Len(diags') \in Nat BY LenProperties
<1>3. Begins(diags', diags') BY <1>2 DEF Begins
<1> QED BY <1>1, <1>3 DEF Printed

-----------------------------------------------------------------------------
LEMMA InitPrinted == Init => DInv
<1> SUFFICES ASSUME Init PROVE DInv OBVIOUS
<1>1. shown = <<>> /\ diags = <<>> /\ phase = "preprocess" BY DEF Init, IncludeInit
<1>2. Len(<<>>) = 0 /\ <<>> \in Seq({}) BY EmptySeq
<1>3. Begins(shown, diags) BY <1>1, <1>2 DEF Begins
<1>4. Printed BY <1>1, <1>2, <1>3 DEF Printed
<1> QED BY <1>1, <1>4 DEF DInv, Judged

\* A step of the preprocessor reports nothing, or one thing.
LEMMA PreprocessPrinted == DInv /\ Preprocess => DInv'
<1> SUFFICES ASSUME DInv, Preprocess PROVE DInv' OBVIOUS
<1>1. UNCHANGED <<phase, shown>> /\ phase = "preprocess" BY DEF Preprocess
<1>2. \/ UNCHANGED diags
      \/ \E d : diags' = Append(diags, d)
  BY DEF Preprocess, IncludeNext, Begin, IncludeLine, MalformedLine, TextLine, EndOfFile, Process
<1>3. CASE UNCHANGED diags BY <1>1, <1>3 DEF DInv, Printed, Judged
<1>4. ASSUME NEW d, diags' = Append(diags, d) PROVE Printed'
  <2>1. PICK D : shown \in Seq(D) /\ diags \in Seq(D) /\ Begins(shown, diags)
    BY DEF DInv, Printed
  <2> DEFINE E == D \cup {d}
  <2>2. shown \in Seq(E) /\ diags \in Seq(E) BY <2>1, SeqMonotonic
  <2> HIDE DEF E
  <2>3. d \in E BY DEF E
  <2>4. /\ Append(diags, d) \in Seq(E) /\ Len(Append(diags, d)) = Len(diags) + 1
        /\ \A i \in 1..Len(diags) : Append(diags, d)[i] = diags[i]
    BY <2>2, <2>3, AppendProperties
  <2>5. Len(diags) \in Nat /\ Len(shown) \in Nat BY <2>2, LenProperties
  <2>6. Begins(shown, Append(diags, d)) BY <2>1, <2>4, <2>5 DEF Begins
  <2> QED BY <1>1, <1>4, <2>2, <2>4, <2>6 DEF Printed
<1>5. Judged' BY <1>1 DEF Judged
<1> QED BY <1>2, <1>3, <1>4, <1>5 DEF DInv

\* Errors of the includes end the program, which has printed them.
LEMMA StopAtIncludesPrinted == DInv /\ StopAtIncludes => DInv'
<1> SUFFICES ASSUME DInv, StopAtIncludes PROVE DInv' OBVIOUS
<1>1. PICK D : shown \in Seq(D) /\ diags \in Seq(D) /\ Begins(shown, diags)
  BY DEF DInv, Printed
<1>2. UNCHANGED <<diags, project>> /\ HasErrors(diags) /\ phase' = "exit 1" /\ shown' = Flushed(diags')
  BY DEF StopAtIncludes, includeVars
<1>3. Printed' /\ shown' = diags' BY <1>1, <1>2, FlushedPrinted
<1>4. Judged' BY <1>2, <1>3 DEF Judged, Fatal
<1> QED BY <1>3, <1>4 DEF DInv

LEMMA StartParserPrinted == DInv /\ StartParser => DInv'
<1> SUFFICES ASSUME DInv, StartParser PROVE DInv' OBVIOUS
<1>1. PICK D : shown \in Seq(D) /\ diags \in Seq(D) /\ Begins(shown, diags)
  BY DEF DInv, Printed
<1>2. UNCHANGED diags /\ phase' = "parse" /\ shown' = Flushed(diags')
  BY DEF StartParser, includeVars
<1>3. Printed' BY <1>1, <1>2, FlushedPrinted
<1> QED BY <1>2, <1>3 DEF DInv, Judged

\* One turn of parse_program adds what the parser has to say.
LEMMA ParseTopPrinted == DInv /\ PassesReport /\ ParseTop => DInv'
<1> SUFFICES ASSUME DInv, PassesReport, ParseTop PROVE DInv' OBVIOUS
<1> DEFINE p == TopDecl(parser)
           new == SubSeq(p.errors, Len(parser.errors) + 1, Len(p.errors))
           more == [k \in DOMAIN new |-> Located(new[k])]
<1>1. /\ diags' = diags \o more /\ UNCHANGED shown
      /\ phase' = (IF p.crashed THEN "crash" ELSE phase) /\ phase = "parse" /\ ~AtEnd(parser)
  BY DEF ParseTop
<1>2. \E n \in Nat : DOMAIN new = 1..n
  <2>1. IsList(p.errors) /\ IsList(parser.errors) BY <1>1 DEF PassesReport
  <2>2. Len(parser.errors) + 1 \in Int /\ Len(p.errors) \in Int BY <2>1 DEF IsList
  <2> DEFINE S == {p.errors[i] : i \in Len(parser.errors) + 1..Len(p.errors)}
  <2>3. new \in Seq(S) BY <2>2, SubSeqProperties
  <2> QED BY <2>3, LenProperties
<1>3. PICK n \in Nat : DOMAIN new = 1..n BY <1>2
<1>4. more = [k \in 1..n |-> more[k]] BY <1>3
<1> HIDE DEF more
<1>5. Printed' BY <1>1, <1>4, AddedPrinted DEF DInv
<1>6. Judged' BY <1>1 DEF Judged
<1> QED BY <1>5, <1>6 DEF DInv

LEMMA EndOfTextPrinted == DInv /\ EndOfText => DInv'
<1> SUFFICES ASSUME DInv, EndOfText PROVE DInv' OBVIOUS
<1>1. PICK D : shown \in Seq(D) /\ diags \in Seq(D) /\ Begins(shown, diags)
  BY DEF DInv, Printed
<1>2. /\ UNCHANGED <<diags, project>> /\ shown' = Flushed(diags')
      /\ phase' = IF HasErrors(diags) THEN "exit 1" ELSE "typecheck"
  BY DEF EndOfText, includeVars
<1>3. Printed' /\ shown' = diags' BY <1>1, <1>2, FlushedPrinted
<1>4. Judged' BY <1>2, <1>3 DEF Judged, Fatal
<1> QED BY <1>3, <1>4 DEF DInv

\* The passes after the parser print what they add and test the whole list.
LEMMA PassPrinted ==
  ASSUME Printed, NEW n \in Nat, NEW more, more = [k \in 1..n |-> more[k]],
         diags' = diags \o more, shown' = Flushed(diags')
  PROVE  Printed' /\ shown' = diags'
BY AddedTo, FlushedPrinted

LEMMA TypecheckPrinted == DInv /\ PassesReport /\ Typecheck => DInv'
<1> SUFFICES ASSUME DInv, PassesReport, Typecheck PROVE DInv' OBVIOUS
<1> DEFINE c == Checked(program)
           errors == Unplaced(c.errors)
           warnings == Unplaced(c.warnings)
<1>1. /\ phase = "typecheck"
      /\ diags' = diags \o errors \o warnings
      /\ shown' = Flushed(diags') /\ UNCHANGED project
      /\ phase' = IF Fatal(diags') THEN "exit 1" ELSE "generate"
  BY DEF Typecheck
<1>2. IsList(c.errors) /\ IsList(c.warnings) BY <1>1 DEF PassesReport
<1>3. /\ errors = [k \in 1..Len(c.errors) |-> errors[k]]
      /\ warnings = [k \in 1..Len(c.warnings) |-> warnings[k]]
      /\ Len(c.errors) \in Nat /\ Len(c.warnings) \in Nat
  BY <1>2 DEF Unplaced, IsList
<1> HIDE DEF errors, warnings
<1>4. PICK D : shown \in Seq(D) /\ diags \in Seq(D) /\ Begins(shown, diags)
  BY DEF DInv, Printed
<1> DEFINE E == D \cup {errors[k] : k \in 1..Len(c.errors)} \cup {warnings[k] : k \in 1..Len(c.warnings)}
<1>5. shown \in Seq(E) /\ diags \in Seq(E) /\ errors \in Seq(E) /\ warnings \in Seq(E)
  BY <1>3, <1>4, IsSeq, SeqMonotonic
<1> HIDE DEF E, c
<1> DEFINE more == errors \o warnings
<1>6. diags' = diags \o more
  <2>1. (diags \o errors) \o warnings = diags \o (errors \o warnings)
    BY <1>5, ConcatAssociative
  <2> QED BY <1>1, <2>1
<1>7. more \in Seq(E) BY <1>5, ConcatProperties
<1>8. Len(more) \in Nat /\ more = [k \in 1..Len(more) |-> more[k]] BY <1>7, LenProperties
<1> HIDE DEF more
<1>9. Printed' /\ shown' = diags' BY <1>1, <1>6, <1>8, PassPrinted DEF DInv
<1>10. Judged' BY <1>1, <1>9 DEF Judged, Fatal
<1> QED BY <1>9, <1>10 DEF DInv

LEMMA GeneratePrinted == DInv /\ PassesReport /\ Generate => DInv'
<1> SUFFICES ASSUME DInv, PassesReport, Generate PROVE DInv' OBVIOUS
<1> DEFINE n == Built(program, project.level).errors
           more == Unplaced([k \in 1..n |-> "cannot be compiled"])
<1>1. /\ phase = "generate"
      /\ diags' = diags \o more
      /\ shown' = Flushed(diags') /\ UNCHANGED project
      /\ phase' = IF Fatal(diags') THEN "exit 1"
                  ELSE IF project.emit = "bytecode" THEN "exit 0" ELSE "run"
  BY DEF Generate
<1>2. n \in Nat BY <1>1 DEF PassesReport
<1>3. more = [k \in 1..n |-> more[k]] BY DEF Unplaced
<1> HIDE DEF more, n
<1>4. Printed' /\ shown' = diags' BY <1>1, <1>2, <1>3, PassPrinted DEF DInv
<1>5. Judged' BY <1>1, <1>4 DEF Judged, Fatal
<1> QED BY <1>4, <1>5 DEF DInv

LEMMA StepPrinted == DInv /\ PassesReport /\ [Next]_vars => DInv'
<1> SUFFICES ASSUME DInv, PassesReport, [Next]_vars PROVE DInv' OBVIOUS
<1>1. CASE UNCHANGED vars
  BY <1>1 DEF vars, includeVars, DInv, Printed, Judged, Fatal
<1>2. CASE DumpAst \/ GenerateSpins
  BY <1>2 DEF DumpAst, GenerateSpins, includeVars, DInv, Printed, Judged, Fatal
<1>3. CASE Ended BY <1>1, <1>3 DEF Ended
<1> QED
  BY <1>1, <1>2, <1>3, PreprocessPrinted, StopAtIncludesPrinted, StartParserPrinted,
     ParseTopPrinted, EndOfTextPrinted, TypecheckPrinted, GeneratePrinted DEF Next

\* Whatever the passes are, as long as each reports in a list, main has printed
\* each diagnostic once when it ends, and its exit status says whether one of
\* them is an error, or a warning under -Werror (EndsAsReported).
THEOREM AlwaysEndsAsReported == Spec /\ []PassesReport => []EndsAsReported
BY InitPrinted, StepPrinted, InvariantEnds, PTL DEF Spec

-----------------------------------------------------------------------------
\* The passes behind the preprocessor leave its stack and its map alone, though
\* they add to its list.
LEMMA IncludeKept == IInv /\ UNCHANGED <<project, begun, stack, files, merged>> => IInv'
BY DEF IInv, Typed, Apart, EnteredIn, MappedIn, CanRead, LinesOf, Files

LEMMA DriverInclude == IInv /\ [Next]_vars => IInv'
<1> SUFFICES ASSUME IInv, [Next]_vars PROVE IInv' OBVIOUS
<1>1. CASE Preprocess BY <1>1, NextInv DEF Preprocess
<1>2. CASE StopAtIncludes \/ StartParser \/ EndOfText \/ DumpAst \/ GenerateSpins
  BY <1>2, IncludeKept DEF StopAtIncludes, StartParser, EndOfText, DumpAst, GenerateSpins, includeVars
<1>3. CASE ParseTop \/ Typecheck \/ Generate
  BY <1>3, IncludeKept DEF ParseTop, Typecheck, Generate
<1>4. CASE Ended \/ UNCHANGED vars BY <1>4, IncludeKept DEF Ended, vars, includeVars
<1> QED BY <1>1, <1>2, <1>3, <1>4 DEF Next

LEMMA DriverInit == Init => IInv
BY InitInv DEF Init

\* No file is open twice while main runs the preprocessor (OpenOnce).
THEOREM DriverOpensOnce == Spec => []OpenOnce
BY DriverInit, DriverInclude, InvariantImplies, PTL DEF Spec

\* The map that every later diagnostic is placed with stays exact through all of
\* main: at each perror_at, a merged line resolves to where it stands.
THEOREM DriverMapsExactly == Spec => []SourceMapExact
BY DriverInit, DriverInclude, InvariantImplies, PTL DEF Spec

\* The inductive invariant of the expansion: later passes add to the list of
\* diagnostics, but only the preprocessor's own steps leave main in it.
ExpandInv == IInv /\ (phase = "preprocess" => SoFar)

LEMMA DriverExpandInv == ExpandInv /\ [Next]_vars => ExpandInv'
<1> SUFFICES ASSUME IInv, phase = "preprocess" => SoFar, [Next]_vars
             PROVE  phase' = "preprocess" => SoFar'
  BY DriverInclude DEF ExpandInv
<1>1. CASE Preprocess BY <1>1, NextSoFar DEF Preprocess
<1>2. CASE UNCHANGED vars
  <2>1. UNCHANGED includeVars /\ phase' = phase BY <1>2 DEF vars
  <2> QED BY <2>1, NextSoFar
<1>3. CASE Ended BY <1>2, <1>3 DEF Ended
<1>4. CASE ~Preprocess /\ ~UNCHANGED vars /\ ~Ended
  <2>1. \/ StopAtIncludes \/ StartParser \/ ParseTop \/ EndOfText
        \/ Typecheck \/ DumpAst \/ Generate \/ GenerateSpins
    BY <1>4 DEF Next
  <2>2. phase' # "preprocess"
    BY <2>1 DEF StopAtIncludes, StartParser, ParseTop, EndOfText, Typecheck, DumpAst, Generate,
               GenerateSpins
  <2> QED BY <2>2
<1> QED BY <1>1, <1>2, <1>3, <1>4

\* What main goes on with once preprocess_file has returned is the text the
\* project stands for: every text line along every chain of #includes, and a
\* diagnostic for every other line that was not followed (ExpandedAsWritten).
THEOREM DriverExpands == Spec => []ExpandedAsWritten
<1>1. Init => ExpandInv BY DriverInit, InitSoFar DEF Init, ExpandInv
<1>2. ExpandInv => ExpandedAsWritten BY AllRead DEF ExpandInv, ExpandedAsWritten
<1> QED BY <1>1, <1>2, DriverExpandInv, PTL DEF Spec
=============================================================================
