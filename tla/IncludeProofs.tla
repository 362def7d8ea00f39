--------------------------- MODULE IncludeProofs ---------------------------
(***************************************************************************)
(* Whatever the files include and however they are spelled, no file is     *)
(* open twice, every merged line resolves to where it came from, and the   *)
(* merged text is what Expansion says it is.                               *)
(*                                                                         *)
(* The first two are not inductive alone: what a line resolves to was      *)
(* settled when its file was entered, so the invariant also says that each *)
(* open file knows its place in the list of files and could be read        *)
(* (EnteredIn).                                                            *)
(*                                                                         *)
(* The third is about the end.  On the way there, the stack divides the    *)
(* places of Expansion into those that have been read and those that have  *)
(* yet to be (Unread): the merged text and the diagnostics list the first, *)
(* and each file is open because of the place below it (Linked).  A line   *)
(* takes just its own place from the unread, which comes after all those   *)
(* that are listed; the end of a file takes none.                          *)
(***************************************************************************)
EXTENDS Expansion, SequenceTheorems, FiniteSetTheorems, TLAPS

FrameSet(P, C) == [path : P, canonical : C, file : Nat, line : Nat \ {0}]
LineSet(T) == [text : T, file : Nat, line : Nat]

\* The values the variables have, for some paths, canonical paths and lines.
Typed(P, C, T) ==
  /\ stack \in Seq(FrameSet(P, C))
  /\ files \in Seq(P)
  /\ merged \in Seq(LineSet(T))

\* An open file can be read, and stands in the list of files entered.
EnteredIn(s, fs) ==
  \A k \in 1..Len(s) :
    /\ s[k].canonical = Canonical(s[k].path)
    /\ s[k].file \in 1..Len(fs) /\ fs[s[k].file] = s[k].path
    /\ CanRead(s[k].path)

\* A merged line stands where it came from.
MappedIn(m, fs) ==
  \A n \in 1..Len(m) :
    /\ m[n].file \in 1..Len(fs)
    /\ CanRead(fs[m[n].file])
    /\ m[n].line \in DOMAIN LinesOf(fs[m[n].file])
    /\ LinesOf(fs[m[n].file])[m[n].line] = m[n].text

Apart(s) ==
  /\ Len(s) <= MaxNesting
  /\ \A j, k \in 1..Len(s) : j # k => s[j].canonical # s[k].canonical

\* The inductive invariant.
IInv ==
  /\ project \in Projects
  /\ ~begun => stack = <<>>
  /\ \E P, C, T : Typed(P, C, T)
  /\ Apart(stack)
  /\ EnteredIn(stack, files)
  /\ MappedIn(merged, files)

-----------------------------------------------------------------------------
\* The invariant gives the two properties.
LEMMA InvariantImplies == IInv => OpenOnce /\ SourceMapExact
<1> SUFFICES ASSUME IInv PROVE OpenOnce /\ SourceMapExact OBVIOUS
<1>1. PICK P, C, T : Typed(P, C, T) BY DEF IInv
<1>2. OpenOnce BY DEF IInv, Apart, OpenOnce, Depth
<1>3. SourceMapExact
  <2> SUFFICES ASSUME NEW n \in DOMAIN merged
               PROVE  LET at == Resolve(n)
                      IN /\ CanRead(at.file) /\ at.line \in DOMAIN LinesOf(at.file)
                         /\ LinesOf(at.file)[at.line] = merged[n].text
    BY DEF SourceMapExact
  <2>1. n \in 1..Len(merged) BY <1>1 DEF Typed
  <2>2. Resolve(n) = [file |-> files[merged[n].file], line |-> merged[n].line] BY DEF Resolve
  <2>3. Resolve(n).file = files[merged[n].file] /\ Resolve(n).line = merged[n].line BY <2>2
  <2> QED BY <2>1, <2>3 DEF IInv, MappedIn
<1> QED BY <1>2, <1>3

\* Going past a line of the active file changes nothing else of the stack.
LEMMA AdvancedStack ==
  ASSUME NEW P, NEW C, stack \in Seq(FrameSet(P, C)), stack # <<>>
  PROVE  /\ Advanced \in Seq(FrameSet(P, C))
         /\ Len(Advanced) = Depth
         /\ \A k \in 1..Depth : /\ Advanced[k].path = stack[k].path
                                /\ Advanced[k].canonical = stack[k].canonical
                                /\ Advanced[k].file = stack[k].file
<1>1. Depth \in Nat \ {0} /\ Depth \in 1..Depth /\ DOMAIN stack = 1..Depth
  BY EmptySeq, LenProperties DEF Depth
<1>2. stack[Depth] \in FrameSet(P, C) BY <1>1 DEF Depth
<1> DEFINE moved == [stack[Depth] EXCEPT !.line = @ + 1]
<1>3. /\ moved \in FrameSet(P, C)
      /\ moved.path = stack[Depth].path /\ moved.canonical = stack[Depth].canonical
      /\ moved.file = stack[Depth].file
  BY <1>2 DEF FrameSet
<1>4. Advanced = [stack EXCEPT ![Depth] = moved] BY DEF Advanced
<1> HIDE DEF moved
<1>5. Advanced \in Seq(FrameSet(P, C)) /\ Len(Advanced) = Depth
  BY <1>1, <1>3, <1>4, ExceptSeq DEF Depth
<1>6. \A k \in 1..Depth : Advanced[k] = IF k = Depth THEN moved ELSE stack[k]
  BY <1>1, <1>3, <1>4, ExceptSeq DEF Depth
<1> QED BY <1>3, <1>5, <1>6

\* Entering a file, or reporting why not, keeps the invariant (process_file).
LEMMA ProcessInv ==
  ASSUME IInv, NEW path, NEW callers, NEW P, NEW C, NEW T, Typed(P, C, T),
         callers \in Seq(FrameSet(P, C)), Len(callers) = Depth,
         \A k \in 1..Depth : /\ callers[k].path = stack[k].path
                             /\ callers[k].canonical = stack[k].canonical
                             /\ callers[k].file = stack[k].file,
         Process(path, callers), begun', UNCHANGED <<project, merged>>
  PROVE  IInv'
<1>1. Depth \in Nat /\ Len(files) \in Nat /\ Len(merged) \in Nat
  BY LenProperties DEF Typed, Depth
<1>2. Apart(callers) /\ EnteredIn(callers, files)
  BY DEF IInv, Apart, EnteredIn, Depth
<1>3. CASE Refusal(path) = "none"
  <2> DEFINE f == Frame(path)
             Q == P \cup {path}
             D == C \cup {Canonical(path)}
  <2>1. stack' = Append(callers, f) /\ files' = Append(files, path) BY <1>3 DEF Process
  <2>2. CanRead(path) /\ ~IsOpen(path) /\ Depth < MaxNesting
    BY <1>1, <1>3, IncludeAssumption DEF Refusal
  <2>3. /\ f \in FrameSet(Q, D)
        /\ f.path = path /\ f.canonical = Canonical(path) /\ f.file = Len(files) + 1
    BY <1>1 DEF Frame, FrameSet
  <2>4. callers \in Seq(FrameSet(Q, D)) /\ files \in Seq(Q)
    <3>1. FrameSet(P, C) \subseteq FrameSet(Q, D) BY DEF FrameSet
    <3> QED BY <3>1, SeqMonotonic DEF Typed
  <2> HIDE DEF f, Q, D
  <2>5. stack' \in Seq(FrameSet(Q, D)) /\ Len(stack') = Depth + 1
    BY <2>1, <2>3, <2>4, AppendProperties
  <2>6. \A k \in 1..Depth + 1 : stack'[k] = IF k = Depth + 1 THEN f ELSE callers[k]
    BY <1>1, <2>1, <2>3, <2>4, AppendProperties
  <2>7. /\ files' \in Seq(Q) /\ Len(files') = Len(files) + 1
        /\ \A k \in 1..Len(files) : files'[k] = files[k]
        /\ files'[Len(files) + 1] = path
    BY <1>1, <2>1, <2>4, AppendProperties DEF Q
  <2>8. Typed(Q, D, T)' BY <2>5, <2>7 DEF Typed
  <2>9. Apart(stack)'
    <3>1. \A k \in 1..Depth : callers[k].canonical # Canonical(path)
      BY <2>2 DEF IsOpen
    <3>2. \A j, k \in 1..Depth : j # k => callers[j].canonical # callers[k].canonical
      BY <1>2 DEF Apart
    <3>3. \A j, k \in 1..Depth + 1 : j # k => stack'[j].canonical # stack'[k].canonical
      BY <1>1, <2>3, <2>6, <3>1, <3>2
    <3>4. Depth + 1 <= MaxNesting BY <1>1, <2>2, IncludeAssumption
    <3> QED BY <2>5, <3>3, <3>4 DEF Apart
  <2>10. EnteredIn(stack, files)'
    <3>1. \A k \in 1..Depth : /\ callers[k].canonical = Canonical(callers[k].path)
                              /\ callers[k].file \in 1..Len(files)
                              /\ files[callers[k].file] = callers[k].path
                              /\ CanRead(callers[k].path)
      BY <1>2 DEF EnteredIn
    <3>2. ASSUME NEW k \in 1..Depth + 1
          PROVE  /\ stack'[k].canonical = Canonical(stack'[k].path)
                 /\ stack'[k].file \in 1..Len(files')
                 /\ files'[stack'[k].file] = stack'[k].path
                 /\ CanRead(stack'[k].path)
      <4>1. CASE k = Depth + 1
        <5>1. stack'[k] = f BY <2>6, <4>1
        <5>2. Len(files) + 1 \in 1..Len(files') BY <1>1, <2>7
        <5> QED BY <2>2, <2>3, <2>7, <5>1, <5>2
      <4>2. CASE k # Depth + 1
        <5>1. k \in 1..Depth BY <1>1, <4>2
        <5>2. stack'[k] = callers[k] BY <2>6, <4>2
        <5>3. \A j \in 1..Len(files) : j \in 1..Len(files') BY <1>1, <2>7
        <5> QED BY <2>7, <3>1, <5>1, <5>2, <5>3
      <4> QED BY <4>1, <4>2
    <3>3. Files' = Files BY DEF Files
    <3>4. \A p : CanRead(p) => CanRead(p)' BY <3>3 DEF CanRead
    <3> QED BY <2>5, <3>2, <3>3 DEF EnteredIn, CanRead
  <2>11. MappedIn(merged, files)'
    BY <1>1, <2>7 DEF IInv, MappedIn, CanRead, LinesOf, Files
  <2> QED BY <2>8, <2>9, <2>10, <2>11 DEF IInv
<1>4. CASE Refusal(path) # "none"
  <2>1. stack' = callers /\ UNCHANGED files BY <1>4 DEF Process
  <2>2. Typed(P, C, T)' BY <2>1 DEF Typed
  <2>3. Apart(stack)' /\ EnteredIn(stack, files)'
    BY <1>2, <2>1 DEF Apart, EnteredIn, CanRead, Files
  <2>4. MappedIn(merged, files)'
    BY <2>1 DEF IInv, MappedIn, CanRead, LinesOf, Files
  <2> QED BY <2>2, <2>3, <2>4 DEF IInv
<1> QED BY <1>3, <1>4

-----------------------------------------------------------------------------
LEMMA InitInv == IncludeInit => IInv
<1> SUFFICES ASSUME IncludeInit PROVE IInv OBVIOUS
<1>1. Typed({}, {}, {}) BY EmptySeq DEF IncludeInit, Typed
<1>2. Len(stack) = 0 /\ Len(merged) = 0 BY EmptySeq DEF IncludeInit
<1>3. Apart(stack) /\ EnteredIn(stack, files) /\ MappedIn(merged, files)
  BY <1>2, IncludeAssumption DEF Apart, EnteredIn, MappedIn
<1> QED BY <1>1, <1>3 DEF IInv, IncludeInit

\* preprocess_file, on the entry file.
LEMMA BeginInv == IInv /\ Begin => IInv'
<1> SUFFICES ASSUME IInv, Begin PROVE IInv' OBVIOUS
<1>1. PICK P, C, T : Typed(P, C, T) BY DEF IInv
<1>2. stack = <<>> BY DEF IInv, Begin
<1>3. <<>> \in Seq(FrameSet(P, C)) /\ Len(<<>>) = Depth /\ Depth = 0
  BY <1>2, EmptySeq DEF Depth
<1>4. Process(Entry, <<>>) /\ begun' /\ UNCHANGED <<project, merged>> BY DEF Begin
<1>5. \A k \in 1..Depth : FALSE BY <1>3
<1> QED BY <1>1, <1>3, <1>4, <1>5, ProcessInv

LEMMA IncludeLineInv == IInv /\ IncludeLine => IInv'
<1> SUFFICES ASSUME IInv, IncludeLine PROVE IInv' OBVIOUS
<1>1. PICK P, C, T : Typed(P, C, T) BY DEF IInv
<1>2. stack # <<>> /\ begun' BY DEF IncludeLine, AtLine, InFile, IInv
<1>3. Process(Child(Active.path, Line.path), Advanced) /\ UNCHANGED <<project, merged>>
  BY DEF IncludeLine
<1>4. /\ Advanced \in Seq(FrameSet(P, C)) /\ Len(Advanced) = Depth
      /\ \A k \in 1..Depth : /\ Advanced[k].path = stack[k].path
                             /\ Advanced[k].canonical = stack[k].canonical
                             /\ Advanced[k].file = stack[k].file
  BY <1>1, <1>2, AdvancedStack DEF Typed
<1> QED BY <1>1, <1>2, <1>3, <1>4, ProcessInv

\* A line that only moves the active file on, and leaves the list of files.
LEMMA LineInv ==
  ASSUME IInv, NEW P, NEW C, NEW T, Typed(P, C, T), stack # <<>>,
         stack' = Advanced, UNCHANGED <<project, begun, files>>,
         merged' \in Seq(LineSet(T)), MappedIn(merged', files)
  PROVE  IInv'
<1>1. /\ Advanced \in Seq(FrameSet(P, C)) /\ Len(Advanced) = Depth
      /\ \A k \in 1..Depth : /\ Advanced[k].path = stack[k].path
                             /\ Advanced[k].canonical = stack[k].canonical
                             /\ Advanced[k].file = stack[k].file
  BY AdvancedStack DEF Typed
<1>2. Typed(P, C, T)' BY <1>1 DEF Typed
<1>3. Apart(stack)' BY <1>1 DEF IInv, Apart, Depth
<1>4. EnteredIn(stack, files)' BY <1>1 DEF IInv, EnteredIn, Depth, CanRead, Files
<1>5. MappedIn(merged, files)' BY DEF MappedIn, CanRead, LinesOf, Files
<1> QED BY <1>2, <1>3, <1>4, <1>5 DEF IInv

LEMMA MalformedLineInv == IInv /\ MalformedLine => IInv'
<1> SUFFICES ASSUME IInv, MalformedLine PROVE IInv' OBVIOUS
<1>1. PICK P, C, T : Typed(P, C, T) BY DEF IInv
<1>2. merged' \in Seq(LineSet(T)) /\ MappedIn(merged', files)
  BY <1>1 DEF MalformedLine, Typed, IInv
<1> QED BY <1>1, <1>2, LineInv DEF MalformedLine, AtLine, InFile

\* The line is copied from where its number says (the loop of process_file).
LEMMA TextLineInv == IInv /\ TextLine => IInv'
<1> SUFFICES ASSUME IInv, TextLine PROVE IInv' OBVIOUS
<1>1. PICK P, C, T : Typed(P, C, T) BY DEF IInv
<1>2. stack # <<>> /\ Active.line <= Len(LinesOf(Active.path))
  BY DEF TextLine, AtLine, InFile
<1>3. Depth \in 1..Depth /\ Len(merged) \in Nat /\ Len(files) \in Nat
  BY <1>1, <1>2, EmptySeq, LenProperties DEF Typed, Depth
<1>4. Active \in FrameSet(P, C) BY <1>1, <1>3, ElementOfSeq DEF Typed, Active, Depth
<1>5. Active.line \in Nat \ {0} /\ Active.file \in Nat BY <1>4 DEF FrameSet
<1>6. Active.file \in 1..Len(files) /\ files[Active.file] = Active.path /\ CanRead(Active.path)
  BY <1>3 DEF IInv, EnteredIn, Active, Depth
<1>7. Active.line \in DOMAIN LinesOf(Active.path)
  <2>1. DOMAIN LinesOf(Active.path) = 1..Len(LinesOf(Active.path))
    BY <1>6, IncludeAssumption DEF IInv, CanRead, LinesOf, Files
  <2> QED BY <1>2, <1>5, <2>1
<1> DEFINE U == T \cup {Line}
<1>8. CopyLine \in LineSet(U) BY <1>5 DEF CopyLine, LineSet
<1>9. CopyLine.text = Line /\ CopyLine.file = Active.file /\ CopyLine.line = Active.line
  BY DEF CopyLine
<1>10. merged \in Seq(LineSet(U))
  <2>1. LineSet(T) \subseteq LineSet(U) BY DEF LineSet
  <2> QED BY <1>1, <2>1, SeqMonotonic DEF Typed
<1> HIDE DEF U
<1>11. merged' = Append(merged, CopyLine) BY DEF TextLine
<1>12. /\ merged' \in Seq(LineSet(U)) /\ Len(merged') = Len(merged) + 1
       /\ \A n \in 1..Len(merged) : merged'[n] = merged[n]
       /\ merged'[Len(merged) + 1] = CopyLine
  BY <1>8, <1>10, <1>11, AppendProperties
<1>13. MappedIn(merged', files)
  <2> SUFFICES ASSUME NEW n \in 1..Len(merged) + 1
               PROVE  /\ merged'[n].file \in 1..Len(files)
                      /\ CanRead(files[merged'[n].file])
                      /\ merged'[n].line \in DOMAIN LinesOf(files[merged'[n].file])
                      /\ LinesOf(files[merged'[n].file])[merged'[n].line] = merged'[n].text
    BY <1>12 DEF MappedIn
  <2>1. CASE n = Len(merged) + 1
    BY <2>1, <1>6, <1>7, <1>9, <1>12 DEF Line
  <2>2. CASE n \in 1..Len(merged)
    BY <2>2, <1>12 DEF IInv, MappedIn
  <2> QED BY <1>3, <2>1, <2>2
<1>14. Typed(P, C, U) BY <1>1, <1>10 DEF Typed
<1> QED BY <1>2, <1>12, <1>13, <1>14, LineInv DEF TextLine

\* The active file is closed, and the one that included it goes on.
LEMMA EndOfFileInv == IInv /\ EndOfFile => IInv'
<1> SUFFICES ASSUME IInv, EndOfFile PROVE IInv' OBVIOUS
<1>1. PICK P, C, T : Typed(P, C, T) BY DEF IInv
<1>2. Depth \in Nat /\ Depth >= 1
  BY <1>1, EmptySeq, LenProperties DEF EndOfFile, Typed, Depth
<1>3. stack' = SubSeq(stack, 1, Depth - 1) /\ UNCHANGED <<project, begun, files, merged>>
  BY DEF EndOfFile, LeaveFile
<1>4. /\ stack' \in Seq(FrameSet(P, C)) /\ Len(stack') = Depth - 1
      /\ \A k \in 1..Depth - 1 : stack'[k] = stack[k]
  <2>1. \A k \in 1..Depth - 1 : stack[k] \in FrameSet(P, C)
    BY <1>1, <1>2, ElementOfSeq DEF Typed, Depth
  <2>2. Depth - 1 \in Int BY <1>2
  <2>3. /\ SubSeq(stack, 1, Depth - 1) \in Seq(FrameSet(P, C))
        /\ Len(SubSeq(stack, 1, Depth - 1)) = IF 1 <= Depth - 1 THEN Depth - 1 - 1 + 1 ELSE 0
        /\ \A k \in 1..Depth - 1 - 1 + 1 : SubSeq(stack, 1, Depth - 1)[k] = stack[1 + k - 1]
    BY <2>1, <2>2, SubSeqProperties
  <2> QED BY <1>2, <1>3, <2>3
<1>5. Typed(P, C, T)' BY <1>1, <1>3, <1>4 DEF Typed
<1>6. Apart(stack)' BY <1>2, <1>4, IncludeAssumption DEF IInv, Apart, Depth
<1>7. EnteredIn(stack, files)'
  BY <1>2, <1>3, <1>4 DEF IInv, EnteredIn, Depth, CanRead, Files
<1>8. MappedIn(merged, files)' BY <1>3 DEF IInv, MappedIn, CanRead, LinesOf, Files
<1>9. ~begun' => stack' = <<>> BY <1>3 DEF EndOfFile, IInv
<1> QED BY <1>3, <1>5, <1>6, <1>7, <1>8, <1>9 DEF IInv

LEMMA NextInv == IInv /\ [IncludeNext]_includeVars => IInv'
<1> SUFFICES ASSUME IInv, [IncludeNext]_includeVars PROVE IInv' OBVIOUS
<1>1. CASE UNCHANGED includeVars
  BY <1>1 DEF includeVars, IInv, Typed, Apart, EnteredIn, MappedIn, CanRead, LinesOf, Files
<1> QED
  BY <1>1, BeginInv, IncludeLineInv, MalformedLineInv, TextLineInv, EndOfFileInv DEF IncludeNext

\* A file that is open is refused however it is spelled, and no error path
\* leaves the stack of open files otherwise than it found it (OpenOnce).
THEOREM AlwaysOpenOnce == IncludeSpec => []OpenOnce
BY InitInv, NextInv, InvariantImplies, PTL DEF IncludeSpec

\* A diagnostic on a merged line shows the file, the number and the text the
\* line came from (SourceMapExact).
THEOREM SourceMapAlwaysExact == IncludeSpec => []SourceMapExact
BY InitInv, NextInv, InvariantImplies, PTL DEF IncludeSpec
-----------------------------------------------------------------------------
\* The places of Expansion, while the project is read.
\*
\* The line the k-th open file has come to: the files below the active one are
\* past the #include that opened the next.
Come(st, k) == IF k = Len(st) THEN st[k].line ELSE st[k].line - 1
Reached(st, k) == [at |-> [j \in 1..k |-> Come(st, j)], open |-> [j \in 1..k |-> st[j].path]]

\* The places that have yet to be read, and what has been read that is copied
\* or reported.
Unread(st, s) ==
  \E k \in 1..Len(st) :
    /\ k <= Len(s.at) /\ s.at[k] >= st[k].line
    /\ \A j \in 1..k - 1 : s.at[j] = st[j].line - 1
ReadTexts(st) == {s \in AllPlaces : ~Unread(st, s) /\ LineAt(s).kind = "text"}
ReadWrongs(st) == {s \in AllPlaces : ~Unread(st, s) /\ Wrong(s) # "none"}

Followed(s) == LineAt(s).kind = "include" /\ Wrong(s) = "none"

\* Each file is open because of the place that the one below it has come to.
Linked(st) ==
  \A k \in 1..Len(st) :
    IF k = 1 THEN st[k].path = Entry
    ELSE /\ Reached(st, k - 1) \in PlacesAt[k - 1] /\ Followed(Reached(st, k - 1))
         /\ st[k].path = Included(Reached(st, k - 1))

\* Lists, with what is said of each place as a function.
ListsOf(out, places, w) ==
  /\ Len(out) = Cardinality(places)
  /\ \A s \in places : out[1 + Cardinality({t \in places : Before(t, s)})] = w[s]

\* The diagnostic that process_file gives a place that is wrong.
Placed(s) ==
  IF Wrong(s) = "malformed" THEN Diag(LastOf(s.open), LastOf(s.at), "malformed")
  ELSE Diag(Included(s), 0, Wrong(s))

Listed(st, m, fs, ds) ==
  /\ IsFiniteSet(ReadTexts(st)) /\ Lists(InNames(m, fs), ReadTexts(st), Copied)
  /\ IsFiniteSet(ReadWrongs(st)) /\ Lists(ds, ReadWrongs(st), Placed)
  /\ \E V : ds \in Seq(V)

\* The inductive invariant, beside IInv.
SoFar ==
  IF begun /\ CanRead(Entry)
  THEN Linked(stack) /\ Listed(stack, merged, files, diags)
  ELSE /\ stack = <<>> /\ merged = <<>>
       /\ diags = IF begun THEN <<Diag(Entry, 0, "cannot open")>> ELSE <<>>

LEMMA Nesting == MaxNesting \in Nat \ {0}
BY IncludeAssumption

\* A set of numbers with an element has a least one.
LEMMA Least ==
  ASSUME NEW T \in SUBSET Nat, T # {}
  PROVE  \E x \in T : \A y \in T : x <= y
<1> DEFINE R == OpToRel(<, Nat)
<1>1. IsWellFoundedOn(R, Nat) BY NatLessThanWellFounded
<1>2. PICK x \in T : \A y \in T : ~(<<y, x>> \in R) BY <1>1, WFMin
<1>3. \A y \in T : ~(y < x)
  <2> TAKE y \in T
  <2>1. x \in Nat /\ y \in Nat OBVIOUS
  <2> QED BY <1>2, <2>1 DEF OpToRel
<1>4. \A y \in T : x <= y
  <2> TAKE y \in T
  <2>1. x \in Nat /\ y \in Nat OBVIOUS
  <2> QED BY <1>3, <2>1
<1> QED BY <1>4

\* A set that has 1, and with each number below n the next one, has all up to n.
LEMMA UpTo ==
  ASSUME NEW n \in Nat, NEW S, n > 0 => 1 \in S, \A k \in 1..n - 1 : k \in S => k + 1 \in S
  PROVE  \A k \in 1..n : k \in S
<1> DEFINE T == {k \in 1..n : k \notin S}
<1>1. SUFFICES ASSUME T # {} PROVE FALSE OBVIOUS
<1>2. PICK x \in T : \A y \in T : x <= y
  <2>1. T \in SUBSET Nat OBVIOUS
  <2> HIDE DEF T
  <2> QED BY <1>1, <2>1, Least
<1>3. x \in 1..n /\ n > 0 OBVIOUS
<1>4. x # 1 BY <1>3
<1>5. x - 1 \in 1..n - 1 /\ x - 1 \in 1..n /\ ~(x <= x - 1) BY <1>3, <1>4
<1>6. x - 1 \in S BY <1>2, <1>5
<1>7. x - 1 + 1 \in S BY <1>5, <1>6
<1>8. x - 1 + 1 = x BY <1>3
<1> QED BY <1>7, <1>8

\* A sequence of n things, whatever they are, and one more.
IsTuple(f, n) == f = [k \in 1..n |-> f[k]]
Longer(f, n, x) == [k \in 1..n + 1 |-> IF k = n + 1 THEN x ELSE f[k]]

LEMMA AnyAppend ==
  ASSUME NEW n \in Nat, NEW f, IsTuple(f, n), NEW x
  PROVE  Len(f) = n /\ Append(f, x) = Longer(f, n, x)
<1> DEFINE V == {f[k] : k \in 1..n} \cup {x}
<1>1. f \in Seq(V)
  <2>1. f \in [1..n -> V] BY DEF IsTuple
  <2> HIDE DEF V
  <2> QED BY <2>1
<1>2. x \in V OBVIOUS
<1> HIDE DEF V
<1>3. Len(f) = n
  <2>1. DOMAIN f = 1..n BY DEF IsTuple
  <2>2. DOMAIN f = 1..Len(f) /\ Len(f) \in Nat BY <1>1, LenProperties
  <2> QED BY <2>1, <2>2
<1>4. /\ Append(f, x) \in Seq(V) /\ Len(Append(f, x)) = n + 1
      /\ \A i \in 1..n : Append(f, x)[i] = f[i]
      /\ Append(f, x)[n + 1] = x
  BY <1>1, <1>2, <1>3, AppendProperties
<1>5. Append(f, x) = [k \in 1..n + 1 |-> Append(f, x)[k]]
  <2> DEFINE h == Append(f, x)
  <2>1. DOMAIN h = 1..n + 1 /\ h = [k \in DOMAIN h |-> h[k]]
    <3>1. h \in Seq(V) /\ Len(h) = n + 1 BY <1>4
    <3> HIDE DEF h
    <3> QED BY <3>1, LenProperties
  <2> QED BY <2>1
<1>6. \A k \in 1..n + 1 : Append(f, x)[k] = IF k = n + 1 THEN x ELSE f[k]
  <2> TAKE k \in 1..n + 1
  <2>1. k = n + 1 \/ k \in 1..n OBVIOUS
  <2> QED BY <1>4, <2>1
<1>7. [k \in 1..n + 1 |-> Append(f, x)[k]] = [k \in 1..n + 1 |-> IF k = n + 1 THEN x ELSE f[k]]
  BY <1>6
<1> QED BY <1>3, <1>5, <1>7 DEF Longer

-----------------------------------------------------------------------------
\* The places with n files open come from those with one less.
FirstPlaces == IF CanRead(Entry) THEN Places(<<>>, <<Entry>>) ELSE {}
PlacesFrom(Q) ==
  UNION {Places(s.at, Append(s.open, Included(s))) :
           s \in {t \in Q : LineAt(t).kind = "include" /\ Wrong(t) = "none"}}
Stepwise(f, n) == \A k \in 1..n : f[k] = IF k = 1 THEN FirstPlaces ELSE PlacesFrom(f[k - 1])

\* The recursion of PlacesAt has a solution up to each n, and so defines it.
LEMMA PlacesExist ==
  ASSUME NEW n \in Nat PROVE \E f : IsTuple(f, n) /\ Stepwise(f, n)
<1> DEFINE S == {m \in 1..n : \E f : IsTuple(f, m) /\ Stepwise(f, m)}
<1>1. CASE n = 0
  <2>1. IsTuple([k \in 1..0 |-> 0], 0) /\ Stepwise([k \in 1..0 |-> 0], 0) BY DEF IsTuple, Stepwise
  <2> QED BY <1>1, <2>1
<1>2. CASE n > 0
  <2>1. 1 \in S
    <3> DEFINE f == [k \in 1..1 |-> FirstPlaces]
    <3>1. IsTuple(f, 1) /\ Stepwise(f, 1) BY DEF IsTuple, Stepwise
    <3> HIDE DEF f
    <3> QED BY <1>2, <3>1
  <2>2. ASSUME NEW m \in 1..n - 1, m \in S PROVE m + 1 \in S
    <3>1. PICK f : IsTuple(f, m) /\ Stepwise(f, m) BY <2>2
    <3> DEFINE g == [k \in 1..m + 1 |-> IF k = m + 1 THEN PlacesFrom(f[m]) ELSE f[k]]
    <3>2. m \in Nat /\ m >= 1 /\ m + 1 \in 1..n BY <2>2
    <3>3. IsTuple(g, m + 1) BY DEF IsTuple
    <3>4. Stepwise(g, m + 1)
      <4> SUFFICES ASSUME NEW k \in 1..m + 1
                   PROVE  g[k] = IF k = 1 THEN FirstPlaces ELSE PlacesFrom(g[k - 1])
        BY DEF Stepwise
      <4>1. CASE k = m + 1
        <5>1. k # 1 /\ k - 1 = m /\ m \in 1..m + 1 /\ m # m + 1 BY <3>2, <4>1
        <5>2. g[m] = f[m] /\ g[k] = PlacesFrom(f[m]) BY <4>1, <5>1
        <5> QED BY <5>1, <5>2
      <4>2. CASE k \in 1..m
        <5>1. k # m + 1 /\ (k # 1 => k - 1 \in 1..m + 1 /\ k - 1 # m + 1) BY <3>2, <4>2
        <5>2. g[k] = f[k] /\ (k # 1 => g[k - 1] = f[k - 1]) BY <5>1
        <5> HIDE DEF g
        <5> QED BY <3>1, <4>2, <5>2 DEF Stepwise
      <4> QED BY <3>2, <4>1, <4>2
    <3> HIDE DEF g
    <3> QED BY <3>2, <3>3, <3>4
  <2>3. \A k \in 1..n : k \in S
    <3>1. \A k \in 1..n - 1 : k \in S => k + 1 \in S BY <2>2
    <3> HIDE DEF S
    <3> QED BY <2>1, <3>1, UpTo
  <2> QED BY <1>2, <2>3
<1> QED BY <1>1, <1>2

LEMMA PlacesUnfold == Stepwise(PlacesAt, MaxNesting)
<1> DEFINE F(g) == [n \in 1..MaxNesting |-> IF n = 1 THEN FirstPlaces ELSE PlacesFrom(g[n - 1])]
           P(g) == g = F(g)
<1>1. MaxNesting \in Nat BY Nesting
<1>2. PICK f : IsTuple(f, MaxNesting) /\ Stepwise(f, MaxNesting) BY <1>1, PlacesExist
<1>3. P(f)
  <2>1. \A n \in 1..MaxNesting : f[n] = IF n = 1 THEN FirstPlaces ELSE PlacesFrom(f[n - 1])
    BY <1>2 DEF Stepwise
  <2>2. [n \in 1..MaxNesting |-> f[n]] = F(f) BY <2>1
  <2> QED BY <1>2, <2>2 DEF IsTuple
<1>4. PlacesAt = CHOOSE g : P(g) BY DEF PlacesAt, FirstPlaces, PlacesFrom
<1> HIDE DEF P
<1>5. P(CHOOSE g : P(g)) BY <1>3
<1>6. PlacesAt = F(PlacesAt) BY <1>4, <1>5 DEF P
<1> HIDE DEF F
<1>7. \A n \in 1..MaxNesting : F(PlacesAt)[n] = IF n = 1 THEN FirstPlaces ELSE PlacesFrom(PlacesAt[n - 1])
  BY DEF F
<1> QED BY <1>6, <1>7 DEF Stepwise

\* A place that comes after all those in a list adds to it at the end.
LEMMA ListsOneMore ==
  ASSUME NEW V, NEW out \in Seq(V), NEW S, IsFiniteSet(S), NEW x, x \notin S,
         NEW w, w[x] \in V, ListsOf(out, S, w),
         \A t \in S : Before(t, x) /\ ~Before(x, t) /\ ~Before(t, t), ~Before(x, x)
  PROVE  ListsOf(Append(out, w[x]), S \cup {x}, w)
<1> DEFINE T == S \cup {x}
           more == Append(out, w[x])
           N == Cardinality(S)
<1>1. N \in Nat /\ Cardinality(T) = N + 1 BY FS_CardinalityType, FS_AddElement
<1>2. /\ Len(more) = N + 1 /\ more[N + 1] = w[x]
      /\ \A i \in 1..N : more[i] = out[i]
  BY <1>1, AppendProperties DEF ListsOf
<1>3. ASSUME NEW s \in S PROVE more[1 + Cardinality({t \in T : Before(t, s)})] = w[s]
  <2> DEFINE B == {t \in S : Before(t, s)}
  <2>1. {t \in T : Before(t, s)} = B OBVIOUS
  <2>2. B \in SUBSET S /\ s \notin B OBVIOUS
  <2>3. out[1 + Cardinality(B)] = w[s] BY DEF ListsOf
  <2> HIDE DEF B, more, N
  <2>4. Cardinality(B) \in Nat /\ Cardinality(B) < N
    <3>1. IsFiniteSet(B) /\ Cardinality(B) <= N /\ (N = Cardinality(B) => S = B)
      BY <2>2, FS_Subset DEF N
    <3>2. Cardinality(B) \in Nat BY <3>1, FS_CardinalityType
    <3> QED BY <1>1, <2>2, <3>1, <3>2
  <2>5. 1 + Cardinality(B) \in 1..N BY <1>1, <2>4
  <2> QED BY <1>2, <2>1, <2>3, <2>5
<1>4. more[1 + Cardinality({t \in T : Before(t, x)})] = w[x]
  <2>1. {t \in T : Before(t, x)} = S OBVIOUS
  <2>2. Cardinality({t \in T : Before(t, x)}) = N BY <2>1
  <2> HIDE DEF T, more, N
  <2> QED BY <1>1, <1>2, <2>2
<1>5. \A s \in T : more[1 + Cardinality({t \in T : Before(t, s)})] = w[s] BY <1>3, <1>4
<1>6. Len(more) = Cardinality(T) BY <1>1, <1>2
<1> HIDE DEF T, more
<1>7. ListsOf(more, T, w) BY <1>5, <1>6 DEF ListsOf
<1> QED BY <1>7 DEF T, more

\* The place that is open below s with k files, and what a place with n is like:
\* those below it are #includes that are followed, each to the next file.
Outer(s, k) == [at |-> [j \in 1..k |-> s.at[j]], open |-> [j \in 1..k |-> s.open[j]]]
WellPlaced(s, n) ==
  /\ s = [at |-> s.at, open |-> s.open]
  /\ IsTuple(s.at, n) /\ IsTuple(s.open, n)
  /\ \A j \in 1..n : s.at[j] \in Nat \ {0}
  /\ s.open[1] = Entry /\ CanRead(Entry)
  /\ s.at[n] \in DOMAIN LinesOf(s.open[n])
  /\ \A k \in 1..n - 1 :
       Outer(s, k) \in PlacesAt[k] /\ Followed(Outer(s, k)) /\ s.open[k + 1] = Included(Outer(s, k))
Distinct(Q) == \A s, t \in Q : s.at = t.at => s = t

LEMMA LineNumbers ==
  ASSUME project \in Projects, NEW path, CanRead(path)
  PROVE  DOMAIN LinesOf(path) \subseteq Nat \ {0}
<1>1. DOMAIN LinesOf(path) = 1..Len(LinesOf(path))
  BY IncludeAssumption DEF CanRead, LinesOf, Files
<1> DEFINE n == Len(LinesOf(path))
<1> HIDE DEF n
<1>2. DOMAIN LinesOf(path) = 1..n BY <1>1 DEF n
<1> QED BY <1>2

LEMMA FollowedCanRead ==
  ASSUME NEW t, Followed(t) PROVE CanRead(Included(t))
BY DEF Followed, Wrong

\* Line l of the file that place t includes.
Continues(s, t, l) ==
  /\ Followed(t) /\ l \in DOMAIN LinesOf(Included(t))
  /\ s = [at |-> Append(t.at, l), open |-> Append(t.open, Included(t))]

LEMMA Deeper ==
  ASSUME project \in Projects, NEW n \in Nat \ {0}, NEW t, WellPlaced(t, n), t \in PlacesAt[n],
         NEW l, NEW s, Continues(s, t, l)
  PROVE  WellPlaced(s, n + 1) /\ Outer(s, n) = t /\ s.at[n + 1] = l
<1>1. /\ s.at = [k \in 1..n + 1 |-> IF k = n + 1 THEN l ELSE t.at[k]]
      /\ s.open = [k \in 1..n + 1 |-> IF k = n + 1 THEN Included(t) ELSE t.open[k]]
  <2>1. IsTuple(t.at, n) /\ IsTuple(t.open, n) BY DEF WellPlaced
  <2>2. /\ Append(t.at, l) = [k \in 1..n + 1 |-> IF k = n + 1 THEN l ELSE t.at[k]]
        /\ Append(t.open, Included(t)) = [k \in 1..n + 1 |-> IF k = n + 1 THEN Included(t) ELSE t.open[k]]
    <3>1. n \in Nat OBVIOUS
    <3>2. Append(t.at, l) = Longer(t.at, n, l) BY <2>1, <3>1, AnyAppend
    <3>3. Append(t.open, Included(t)) = Longer(t.open, n, Included(t)) BY <2>1, <3>1, AnyAppend
    <3> QED BY <3>2, <3>3 DEF Longer
  <2>3. s.at = Append(t.at, l) /\ s.open = Append(t.open, Included(t)) BY DEF Continues
  <2> QED BY <2>2, <2>3
<1>2. ASSUME NEW k \in 1..n PROVE s.at[k] = t.at[k] /\ s.open[k] = t.open[k]
  <2>1. k \in 1..n + 1 /\ k # n + 1 OBVIOUS
  <2> QED BY <1>1, <2>1
<1>3. s.at[n + 1] = l /\ s.open[n + 1] = Included(t) BY <1>1
<1>4. ASSUME NEW k \in 1..n PROVE Outer(s, k) = Outer(t, k)
  <2>1. \A j \in 1..k : s.at[j] = t.at[j] /\ s.open[j] = t.open[j]
    <3> TAKE j \in 1..k
    <3>1. j \in 1..n OBVIOUS
    <3> QED BY <1>2, <3>1
  <2>2. [j \in 1..k |-> s.at[j]] = [j \in 1..k |-> t.at[j]] BY <2>1
  <2>3. [j \in 1..k |-> s.open[j]] = [j \in 1..k |-> t.open[j]] BY <2>1
  <2> QED BY <2>2, <2>3 DEF Outer
<1>5. Outer(t, n) = t BY DEF WellPlaced, Outer, IsTuple
<1>6. l \in Nat \ {0} BY FollowedCanRead, LineNumbers DEF Continues
<1>7. WellPlaced(s, n + 1)
  <2>1. s = [at |-> s.at, open |-> s.open] BY DEF Continues
  <2>2. IsTuple(s.at, n + 1) /\ IsTuple(s.open, n + 1) BY <1>1 DEF IsTuple
  <2>3. \A j \in 1..n + 1 : s.at[j] \in Nat \ {0}
    <3> TAKE j \in 1..n + 1
    <3>1. j = n + 1 \/ j \in 1..n OBVIOUS
    <3> QED BY <1>2, <1>3, <1>6, <3>1 DEF WellPlaced
  <2>4. s.open[1] = Entry /\ CanRead(Entry) BY <1>2 DEF WellPlaced
  <2>5. s.at[n + 1] \in DOMAIN LinesOf(s.open[n + 1]) BY <1>3 DEF Continues
  <2>6. ASSUME NEW k \in 1..n + 1 - 1
        PROVE  Outer(s, k) \in PlacesAt[k] /\ Followed(Outer(s, k)) /\ s.open[k + 1] = Included(Outer(s, k))
    <3>1. k = n \/ (k \in 1..n - 1 /\ k + 1 \in 1..n) OBVIOUS
    <3>2. CASE k = n
      <4>1. Outer(s, n) = t /\ s.open[n + 1] = Included(t)
        <5>1. n \in 1..n OBVIOUS
        <5> QED BY <1>3, <1>4, <1>5, <5>1
      <4> QED BY <3>2, <4>1 DEF Continues
    <3>3. CASE k \in 1..n - 1 /\ k + 1 \in 1..n
      <4>1. Outer(s, k) = Outer(t, k) /\ s.open[k + 1] = t.open[k + 1]
        <5>1. k \in 1..n BY <3>3
        <5>2. \A j \in 1..n : s.open[j] = t.open[j] BY <1>2
        <5> QED BY <1>4, <3>3, <5>1, <5>2
      <4> QED BY <3>3, <4>1 DEF WellPlaced
    <3> QED BY <3>1, <3>2, <3>3
  <2>7. \A k \in 1..n + 1 - 1 :
          Outer(s, k) \in PlacesAt[k] /\ Followed(Outer(s, k)) /\ s.open[k + 1] = Included(Outer(s, k))
    BY <2>6
  <2> QED BY <2>1, <2>2, <2>3, <2>4, <2>5, <2>7 DEF WellPlaced
<1>8. Outer(s, n) = t
  <2>1. n \in 1..n OBVIOUS
  <2> QED BY <1>4, <1>5, <2>1
<1> QED BY <1>3, <1>7, <1>8

LEMMA FirstFile ==
  ASSUME project \in Projects, CanRead(Entry), NEW l \in DOMAIN LinesOf(Entry),
         NEW s, s = [at |-> Append(<<>>, l), open |-> <<Entry>>]
  PROVE  WellPlaced(s, 1) /\ s.at[1] = l
<1>1. IsTuple(<<>>, 0) BY DEF IsTuple
<1>2. Append(<<>>, l) = Longer(<<>>, 0, l) BY <1>1, AnyAppend
<1>3. s.at = [k \in 1..1 |-> l] BY <1>2 DEF Longer
<1>4. s.open = [k \in 1..1 |-> Entry] OBVIOUS
<1>5. l \in Nat \ {0} BY LineNumbers
<1>6. \A k \in 1..1 - 1 : FALSE OBVIOUS
<1> QED BY <1>3, <1>4, <1>5, <1>6 DEF WellPlaced, IsTuple

\* Every place of PlacesAt is like that, and no two have the same lines.
LEMMA PlacesFacts ==
  ASSUME project \in Projects
  PROVE  \A n \in 1..MaxNesting : Distinct(PlacesAt[n]) /\ \A s \in PlacesAt[n] : WellPlaced(s, n)
<1> DEFINE S == {n \in 1..MaxNesting : Distinct(PlacesAt[n]) /\ \A s \in PlacesAt[n] : WellPlaced(s, n)}
<1>1. 1 \in S
  <2>1. 1 \in 1..MaxNesting BY Nesting
  <2>2. PlacesAt[1] = FirstPlaces BY <2>1, PlacesUnfold DEF Stepwise
  <2>3. ASSUME NEW s \in PlacesAt[1]
        PROVE  \E l \in DOMAIN LinesOf(Entry) :
                 s = [at |-> Append(<<>>, l), open |-> <<Entry>>] /\ CanRead(Entry)
    BY <2>2 DEF FirstPlaces, Places
  <2>4. \A s \in PlacesAt[1] : WellPlaced(s, 1) BY <2>3, FirstFile
  <2>5. ASSUME NEW s \in PlacesAt[1], NEW t \in PlacesAt[1], s.at = t.at PROVE s = t
    BY <2>3, <2>5
  <2> QED BY <2>1, <2>4, <2>5 DEF Distinct
<1>2. ASSUME NEW n \in 1..MaxNesting - 1, n \in S PROVE n + 1 \in S
  <2>1. n \in Nat \ {0} /\ n + 1 \in 1..MaxNesting /\ n + 1 # 1 /\ n + 1 - 1 = n
    BY Nesting
  <2>2. PlacesAt[n + 1] = PlacesFrom(PlacesAt[n]) BY <2>1, PlacesUnfold DEF Stepwise
  <2>3. ASSUME NEW s \in PlacesAt[n + 1]
        PROVE  \E t \in PlacesAt[n] : \E l : Continues(s, t, l)
    <3>1. PICK t \in PlacesAt[n] : Followed(t) /\ s \in Places(t.at, Append(t.open, Included(t)))
      BY <2>2 DEF PlacesFrom, Followed
    <3>2. IsTuple(t.open, n) BY <1>2 DEF WellPlaced
    <3> DEFINE open == Append(t.open, Included(t))
    <3>3. open[Len(open)] = Included(t)
      <4>1. open = [k \in 1..n + 1 |-> IF k = n + 1 THEN Included(t) ELSE t.open[k]]
        BY <2>1, <3>2, AnyAppend DEF Longer
      <4>2. IsTuple(open, n + 1) BY <4>1 DEF IsTuple
      <4>3. open[n + 1] = Included(t) BY <2>1, <4>1
      <4> HIDE DEF open
      <4>4. Len(open) = n + 1 BY <2>1, <4>2, AnyAppend
      <4> QED BY <4>3, <4>4
    <3>4. PICK l \in DOMAIN LinesOf(Included(t)) : s = [at |-> Append(t.at, l), open |-> open]
      BY <3>1, <3>3 DEF Places
    <3> QED BY <3>1, <3>4 DEF Continues
  <2>4. ASSUME NEW s \in PlacesAt[n + 1] PROVE WellPlaced(s, n + 1)
    BY <1>2, <2>1, <2>3, Deeper
  <2>5. ASSUME NEW s \in PlacesAt[n + 1], NEW t \in PlacesAt[n + 1], s.at = t.at PROVE s = t
    <3>1. PICK s0 \in PlacesAt[n] : \E l : Continues(s, s0, l) BY <2>3
    <3>2. PICK l : Continues(s, s0, l) BY <3>1
    <3>3. PICK t0 \in PlacesAt[n] : \E m : Continues(t, t0, m) BY <2>3
    <3>4. PICK m : Continues(t, t0, m) BY <3>3
    <3>5. Outer(s, n) = s0 /\ s.at[n + 1] = l BY <1>2, <2>1, <3>2, Deeper
    <3>6. Outer(t, n) = t0 /\ t.at[n + 1] = m BY <1>2, <2>1, <3>4, Deeper
    <3>7. Outer(s, n).at = Outer(t, n).at BY <2>5 DEF Outer
    <3>8. s0 = t0 BY <1>2, <3>5, <3>6, <3>7 DEF Distinct
    <3>9. l = m BY <2>5, <3>5, <3>6
    <3> QED BY <3>2, <3>4, <3>8, <3>9 DEF Continues
  <2> QED BY <2>1, <2>4, <2>5 DEF Distinct
<1>3. MaxNesting \in Nat BY Nesting
<1>4. \A n \in 1..MaxNesting : n \in S
  <2>1. \A n \in 1..MaxNesting - 1 : n \in S => n + 1 \in S BY <1>2
  <2> HIDE DEF S
  <2> QED BY <1>1, <1>3, <2>1, UpTo
<1> QED BY <1>4

LEMMA PlaceDepth ==
  ASSUME project \in Projects, NEW s \in AllPlaces
  PROVE  \E n \in 1..MaxNesting : s \in PlacesAt[n] /\ WellPlaced(s, n)
BY PlacesFacts DEF AllPlaces

LEMMA LengthAt ==
  ASSUME NEW n \in 1..MaxNesting, NEW s, WellPlaced(s, n)
  PROVE  Len(s.at) = n /\ Len(s.open) = n /\ DOMAIN s.at = 1..n /\ DOMAIN s.open = 1..n
<1>1. IsTuple(s.at, n) /\ IsTuple(s.open, n) BY DEF WellPlaced
<1>2. n \in Nat BY Nesting
<1>3. Len(s.at) = n BY <1>1, <1>2, AnyAppend
<1>4. Len(s.open) = n BY <1>1, <1>2, AnyAppend
<1>5. DOMAIN s.at = 1..n /\ DOMAIN s.open = 1..n BY <1>1 DEF IsTuple
<1> QED BY <1>3, <1>4, <1>5

\* The lines alone tell one place from another.
LEMMA SamePlace ==
  ASSUME project \in Projects, NEW n \in 1..MaxNesting,
         NEW s \in PlacesAt[n], NEW t \in PlacesAt[n], \A j \in 1..n : s.at[j] = t.at[j]
  PROVE  s = t
<1>1. WellPlaced(s, n) /\ WellPlaced(t, n) /\ Distinct(PlacesAt[n]) BY PlacesFacts
<1>2. s.at = [j \in 1..n |-> s.at[j]] /\ t.at = [j \in 1..n |-> t.at[j]]
  BY <1>1 DEF WellPlaced, IsTuple
<1>3. [j \in 1..n |-> s.at[j]] = [j \in 1..n |-> t.at[j]] OBVIOUS
<1>4. s.at = t.at BY <1>2, <1>3
<1> QED BY <1>1, <1>4 DEF Distinct

\* No place is before itself, and none both before and after another.
LEMMA Asymmetric ==
  ASSUME project \in Projects, NEW s \in AllPlaces, NEW t \in AllPlaces, Before(s, t)
  PROVE  ~Before(t, s)
<1>1. PICK n \in 1..MaxNesting : WellPlaced(s, n) BY PlaceDepth
<1>2. PICK m \in 1..MaxNesting : WellPlaced(t, m) BY PlaceDepth
<1>3. DOMAIN s.at = 1..n /\ DOMAIN t.at = 1..m BY <1>1, <1>2, LengthAt
<1>4. /\ \A j \in 1..n : s.at[j] \in Nat
      /\ \A j \in 1..m : t.at[j] \in Nat
  BY <1>1, <1>2 DEF WellPlaced
<1>5. PICK k \in 1..n \cap 1..m : s.at[k] < t.at[k] /\ \A j \in 1..k - 1 : s.at[j] = t.at[j]
  BY <1>3 DEF Before
<1>6. ASSUME Before(t, s) PROVE FALSE
  <2>1. PICK i \in 1..n \cap 1..m : t.at[i] < s.at[i] /\ \A j \in 1..i - 1 : t.at[j] = s.at[j]
    BY <1>3, <1>6 DEF Before
  <2>2. CASE i < k
    <3>1. i \in 1..k - 1 BY <2>2
    <3> QED BY <1>4, <1>5, <2>1, <3>1
  <2>3. CASE k < i
    <3>1. k \in 1..i - 1 BY <2>3
    <3> QED BY <1>4, <1>5, <2>1, <3>1
  <2>4. CASE i = k BY <1>4, <1>5, <2>1, <2>4
  <2> QED BY <2>2, <2>3, <2>4
<1> QED BY <1>6

LEMMA Irreflexive ==
  ASSUME project \in Projects, NEW s \in AllPlaces
  PROVE  ~Before(s, s)
BY Asymmetric

-----------------------------------------------------------------------------
Lined(st) == Len(st) \in Nat /\ \A k \in 1..Len(st) : st[k].line \in Nat \ {0}

\* The active file has gone past its line, and may have opened another one.
Passed(st, nx) ==
  LET d == Len(st)
  IN /\ Len(nx) = d \/ (Len(nx) = d + 1 /\ nx[d + 1].line = 1)
     /\ nx[d].line = st[d].line + 1
     /\ \A k \in 1..d - 1 : nx[k].line = st[k].line

LEMMA ReachedLines ==
  ASSUME NEW st, Lined(st), NEW d, d = Len(st), d > 0
  PROVE  /\ Reached(st, d).at[d] = st[d].line
         /\ \A n \in 1..d : \A j \in 1..n : j < d => Reached(st, n).at[j] = st[j].line - 1
<1>1. d \in Nat BY DEF Lined
<1>2. d \in 1..d BY <1>1
<1>3. \A n \in 1..d : \A j \in 1..n : Reached(st, n).at[j] = Come(st, j) BY DEF Reached
<1>4. Reached(st, d).at[d] = Come(st, d) BY <1>2, <1>3
<1>5. Come(st, d) = st[d].line BY DEF Come
<1>6. ASSUME NEW n \in 1..d, NEW j \in 1..n, j < d PROVE Reached(st, n).at[j] = st[j].line - 1
  <2>1. Come(st, j) = st[j].line - 1 BY <1>1, <1>6 DEF Come
  <2> QED BY <1>3, <2>1
<1> QED BY <1>4, <1>5, <1>6

LEMMA ReachedLine ==
  ASSUME NEW st, Lined(st), NEW d, d = Len(st), d > 0,
         NEW n \in 1..d, NEW j \in 1..n, j < d
  PROVE  Reached(st, n).at[j] = st[j].line - 1
<1>1. d \in Nat BY DEF Lined
<1>2. Come(st, j) = st[j].line - 1 BY <1>1 DEF Come
<1>3. Reached(st, n).at[j] = Come(st, j) BY DEF Reached
<1> QED BY <1>2, <1>3

\* Of what was to be read, going past a line takes the place it is at.
LEMMA OneRead ==
  ASSUME project \in Projects, NEW st, NEW nx, NEW d \in 1..MaxNesting, d = Len(st), Lined(st),
         NEW h, h = Reached(st, d), h \in PlacesAt[d], Passed(st, nx), Len(nx) = d => ~Followed(h)
  PROVE  /\ \A s \in AllPlaces : Unread(st, s) <=> Unread(nx, s) \/ s = h
         /\ ~Unread(nx, h)
<1>1. d \in Nat /\ d >= 1 BY Nesting
<1>2. h.at[d] = st[d].line /\ \A j \in 1..d - 1 : h.at[j] = st[j].line - 1
  <2>1. d \in 1..d /\ \A j \in 1..d - 1 : j \in 1..d /\ j < d BY <1>1
  <2> QED BY <1>1, <2>1, ReachedLines
<1>3. WellPlaced(h, d) /\ Len(h.at) = d
  <2>1. WellPlaced(h, d) BY PlacesFacts
  <2> QED BY <2>1, LengthAt
<1>4. \A k \in 1..d : st[k].line \in Nat \ {0} BY DEF Lined
<1>5. /\ Len(nx) = d \/ (Len(nx) = d + 1 /\ nx[d + 1].line = 1)
      /\ nx[d].line = st[d].line + 1
      /\ \A k \in 1..d - 1 : nx[k].line = st[k].line
  BY DEF Passed
<1>6. Unread(st, h)
  <2>1. d \in 1..Len(st) /\ h.at[d] >= st[d].line BY <1>1, <1>2, <1>4
  <2> QED BY <1>1, <1>2, <1>3, <2>1 DEF Unread
<1>7. ASSUME Unread(nx, h) PROVE FALSE
  <2>1. PICK k \in 1..Len(nx) : /\ k <= Len(h.at) /\ h.at[k] >= nx[k].line
                                /\ \A j \in 1..k - 1 : h.at[j] = nx[j].line - 1
    BY <1>7 DEF Unread
  <2>2. k \in 1..d BY <1>1, <1>3, <1>5, <2>1
  <2>3. CASE k = d BY <1>2, <1>4, <1>5, <2>1, <2>2, <2>3
  <2>4. CASE k # d
    <3>1. k \in 1..d - 1 BY <1>1, <2>2, <2>4
    <3> QED BY <1>2, <1>4, <1>5, <2>1, <2>2, <3>1
  <2> QED BY <2>3, <2>4
<1>8. ASSUME NEW s \in AllPlaces, Unread(nx, s) PROVE Unread(st, s)
  <2>1. PICK k \in 1..Len(nx) : /\ k <= Len(s.at) /\ s.at[k] >= nx[k].line
                                /\ \A j \in 1..k - 1 : s.at[j] = nx[j].line - 1
    BY <1>8 DEF Unread
  <2>2. PICK n \in 1..MaxNesting : WellPlaced(s, n) BY PlaceDepth
  <2>3. Len(s.at) = n /\ n \in Nat /\ \A j \in 1..n : s.at[j] \in Nat
    BY <2>2, LengthAt, Nesting DEF WellPlaced
  <2>4. k \in 1..n /\ k \in 1..d + 1 BY <1>1, <1>5, <2>1, <2>3
  <2>5. CASE k \in 1..d - 1
    <3>1. s.at[k] >= st[k].line BY <1>5, <2>1, <2>5
    <3>2. \A j \in 1..k - 1 : s.at[j] = st[j].line - 1
      <4> TAKE j \in 1..k - 1
      <4>1. j \in 1..d - 1 BY <1>1, <2>5
      <4> QED BY <1>5, <2>1, <4>1
    <3>3. k \in 1..Len(st) BY <1>1, <2>5
    <3> QED BY <2>1, <3>1, <3>2, <3>3 DEF Unread
  <2>6. CASE k = d
    <3>1. s.at[d] >= st[d].line BY <1>1, <1>4, <1>5, <2>1, <2>3, <2>4, <2>6
    <3>2. \A j \in 1..d - 1 : s.at[j] = st[j].line - 1 BY <1>5, <2>1, <2>6
    <3>3. d \in 1..Len(st) /\ d <= Len(s.at) BY <1>1, <2>1, <2>6
    <3> QED BY <3>1, <3>2, <3>3 DEF Unread
  <2>7. CASE k = d + 1
    <3>1. d \in 1..k - 1 /\ \A j \in 1..d - 1 : j \in 1..k - 1 BY <1>1, <2>7
    <3>2. s.at[d] >= st[d].line BY <1>1, <1>4, <1>5, <2>1, <3>1
    <3>3. \A j \in 1..d - 1 : s.at[j] = st[j].line - 1 BY <1>5, <2>1, <3>1
    <3>4. d \in 1..Len(st) /\ d <= Len(s.at) BY <1>1, <2>3, <2>4, <2>7
    <3> QED BY <3>2, <3>3, <3>4 DEF Unread
  <2> QED BY <1>1, <2>4, <2>5, <2>6, <2>7
<1>9. ASSUME NEW s \in AllPlaces, Unread(st, s), s # h PROVE Unread(nx, s)
  <2>1. PICK k \in 1..d : /\ k <= Len(s.at) /\ s.at[k] >= st[k].line
                          /\ \A j \in 1..k - 1 : s.at[j] = st[j].line - 1
    BY <1>9 DEF Unread
  <2>2. PICK n \in 1..MaxNesting : s \in PlacesAt[n] /\ WellPlaced(s, n) BY PlaceDepth
  <2>3. Len(s.at) = n /\ n \in Nat /\ \A j \in 1..n : s.at[j] \in Nat \ {0}
    BY <2>2, LengthAt, Nesting DEF WellPlaced
  <2>4. CASE k # d
    <3>1. k \in 1..d - 1 /\ k \in 1..Len(nx) BY <1>1, <1>5, <2>4
    <3>2. s.at[k] >= nx[k].line BY <1>5, <2>1, <3>1
    <3>3. \A j \in 1..k - 1 : s.at[j] = nx[j].line - 1
      <4> TAKE j \in 1..k - 1
      <4>1. j \in 1..d - 1 BY <1>1, <3>1
      <4> QED BY <1>5, <2>1, <4>1
    <3> QED BY <2>1, <3>1, <3>2, <3>3 DEF Unread
  <2>5. CASE k = d /\ s.at[d] # st[d].line
    <3>1. s.at[d] >= nx[d].line
      <4>1. d \in 1..n BY <1>1, <2>1, <2>3, <2>5
      <4>2. s.at[d] >= st[d].line /\ s.at[d] \in Nat BY <2>1, <2>3, <2>5, <4>1
      <4>3. nx[d].line = st[d].line + 1 /\ st[d].line \in Nat BY <1>1, <1>4, <1>5
      <4> QED BY <2>5, <4>2, <4>3
    <3>2. \A j \in 1..d - 1 : s.at[j] = nx[j].line - 1 BY <1>5, <2>1, <2>5
    <3>3. d \in 1..Len(nx) /\ d <= Len(s.at) BY <1>1, <1>5, <2>1, <2>5
    <3> QED BY <3>1, <3>2, <3>3 DEF Unread
  <2>6. CASE k = d /\ s.at[d] = st[d].line
    <3>1. \A j \in 1..d : s.at[j] = h.at[j]
      <4> TAKE j \in 1..d
      <4>1. j = d \/ j \in 1..d - 1 BY <1>1
      <4> QED BY <1>2, <2>1, <2>6, <4>1
    <3>2. n # d BY <1>9, <2>2, <3>1, SamePlace
    <3>3. n > d /\ d \in 1..n - 1 BY <1>1, <2>1, <2>3, <2>6, <3>2
    <3>4. Outer(s, d) \in PlacesAt[d] /\ Followed(Outer(s, d)) BY <2>2, <3>3 DEF WellPlaced
    <3>5. \A j \in 1..d : Outer(s, d).at[j] = h.at[j] BY <3>1 DEF Outer
    <3>6. Outer(s, d) = h BY <3>4, <3>5, SamePlace
    <3>7. Len(nx) = d + 1 /\ nx[d + 1].line = 1 BY <1>5, <3>4, <3>6
    <3>8. \A j \in 1..d + 1 - 1 : s.at[j] = nx[j].line - 1
      <4> TAKE j \in 1..d + 1 - 1
      <4>1. j = d \/ j \in 1..d - 1 BY <1>1
      <4>2. CASE j = d
        <5>1. d \in 1..d BY <1>1
        <5> QED BY <1>4, <1>5, <2>6, <4>2, <5>1
      <4>3. CASE j \in 1..d - 1 BY <1>5, <2>1, <2>6, <4>3
      <4> QED BY <4>1, <4>2, <4>3
    <3>9. d + 1 \in 1..n /\ d + 1 \in 1..Len(nx) /\ d + 1 <= Len(s.at) BY <1>1, <2>3, <3>3, <3>7
    <3>10. s.at[d + 1] >= nx[d + 1].line BY <2>3, <3>7, <3>9
    <3> QED BY <3>8, <3>9, <3>10 DEF Unread
  <2> QED BY <2>4, <2>5, <2>6
<1> QED BY <1>6, <1>7, <1>8, <1>9

\* The files below the active one stay as they are when it is left, and the
\* places of theirs that have been reached.
LEMMA NoneLeft ==
  ASSUME project \in Projects, NEW st, NEW nx, NEW d \in 1..MaxNesting, d = Len(st), Lined(st), Linked(st),
         CanRead(st[d].path), st[d].line > Len(LinesOf(st[d].path)),
         Len(nx) = d - 1, \A k \in 1..d - 1 : nx[k].line = st[k].line
  PROVE  \A s \in AllPlaces : Unread(st, s) <=> Unread(nx, s)
<1>1. d \in Nat /\ d >= 1 /\ \A k \in 1..d : st[k].line \in Nat \ {0}
  BY Nesting DEF Lined
<1>2. ASSUME NEW s \in AllPlaces, Unread(nx, s) PROVE Unread(st, s)
  <2>1. PICK k \in 1..d - 1 : /\ k <= Len(s.at) /\ s.at[k] >= nx[k].line
                              /\ \A j \in 1..k - 1 : s.at[j] = nx[j].line - 1
    BY <1>2 DEF Unread
  <2>2. k \in 1..Len(st) /\ s.at[k] >= st[k].line BY <1>1, <2>1
  <2>3. \A j \in 1..k - 1 : s.at[j] = st[j].line - 1
    <3> TAKE j \in 1..k - 1
    <3>1. j \in 1..d - 1 BY <1>1, <2>1
    <3> QED BY <2>1, <3>1
  <2> QED BY <2>1, <2>2, <2>3 DEF Unread
<1>3. ASSUME NEW s \in AllPlaces, Unread(st, s) PROVE Unread(nx, s)
  <2>1. PICK k \in 1..d : /\ k <= Len(s.at) /\ s.at[k] >= st[k].line
                          /\ \A j \in 1..k - 1 : s.at[j] = st[j].line - 1
    BY <1>3 DEF Unread
  <2>2. PICK n \in 1..MaxNesting : s \in PlacesAt[n] /\ WellPlaced(s, n) BY PlaceDepth
  <2>3. Len(s.at) = n /\ n \in Nat /\ \A j \in 1..n : s.at[j] \in Nat \ {0}
    <3>1. Len(s.at) = n BY <2>2, LengthAt
    <3> QED BY <2>2, <3>1, Nesting DEF WellPlaced
  <2>4. CASE k # d
    <3>1. k \in 1..d - 1 /\ k \in 1..Len(nx) BY <1>1, <2>4
    <3>2. \A j \in 1..k - 1 : s.at[j] = nx[j].line - 1
      <4> TAKE j \in 1..k - 1
      <4>1. j \in 1..d - 1 BY <1>1, <3>1
      <4> QED BY <2>1, <4>1
    <3> QED BY <2>1, <3>1, <3>2 DEF Unread
  <2>5. CASE k = d
    <3>1. n >= d /\ d \in 1..n BY <1>1, <2>1, <2>3, <2>5
    <3>2. s.open[d] = st[d].path
      <4>1. CASE d = 1
        <5>1. 1 \in 1..Len(st) BY <4>1
        <5> QED BY <2>2, <4>1, <5>1 DEF WellPlaced, Linked
      <4>2. CASE d # 1
        <5>1. d - 1 \in 1..n - 1 /\ d - 1 \in 1..MaxNesting /\ d \in 1..Len(st) /\ d - 1 + 1 = d
          BY <1>1, <2>3, <3>1, <4>2, Nesting
        <5>2. /\ Outer(s, d - 1) \in PlacesAt[d - 1]
              /\ s.open[d] = Included(Outer(s, d - 1))
          BY <2>2, <5>1 DEF WellPlaced
        <5>3. /\ Reached(st, d - 1) \in PlacesAt[d - 1]
              /\ st[d].path = Included(Reached(st, d - 1))
          BY <4>2, <5>1 DEF Linked
        <5>4. \A j \in 1..d - 1 : Outer(s, d - 1).at[j] = Reached(st, d - 1).at[j]
          <6> TAKE j \in 1..d - 1
          <6>1. Outer(s, d - 1).at[j] = s.at[j] BY DEF Outer
          <6>2. d - 1 \in 1..d /\ j < d /\ d > 0 BY <1>1, <4>2
          <6>3. Reached(st, d - 1).at[j] = st[j].line - 1 BY <6>2, ReachedLine
          <6> QED BY <2>1, <2>5, <6>1, <6>3
        <5>5. Outer(s, d - 1) = Reached(st, d - 1) BY <5>1, <5>2, <5>3, <5>4, SamePlace
        <5> QED BY <5>2, <5>3, <5>5
      <4> QED BY <4>1, <4>2
    <3>3. s.at[d] \in DOMAIN LinesOf(s.open[d])
      <4>1. CASE n = d BY <2>2, <4>1 DEF WellPlaced
      <4>2. CASE n # d
        <5>1. d \in 1..n - 1 BY <1>1, <2>3, <3>1, <4>2
        <5>2. WellPlaced(Outer(s, d), d) BY <2>2, <5>1, PlacesFacts DEF WellPlaced
        <5>3. d \in 1..d BY <1>1
        <5>4. Outer(s, d).at[d] = s.at[d] /\ Outer(s, d).open[d] = s.open[d] BY <5>3 DEF Outer
        <5> QED BY <5>2, <5>4 DEF WellPlaced
      <4> QED BY <4>1, <4>2
    <3>4. /\ Len(LinesOf(st[d].path)) \in Nat
          /\ DOMAIN LinesOf(st[d].path) = 1..Len(LinesOf(st[d].path))
      BY IncludeAssumption DEF CanRead, LinesOf, Files
    <3> DEFINE N == Len(LinesOf(st[d].path))
    <3>5. N \in Nat /\ s.at[d] \in 1..N BY <3>2, <3>3, <3>4
    <3>6. s.at[d] >= st[d].line /\ st[d].line > N /\ st[d].line \in Nat BY <1>1, <2>1, <2>5
    <3> HIDE DEF N
    <3> QED BY <3>5, <3>6
  <2> QED BY <2>4, <2>5
<1> QED BY <1>2, <1>3

\* What has been read, and is not an #include that is being followed, comes
\* before what is read next.
LEMMA ReadBefore ==
  ASSUME project \in Projects, NEW st, NEW d \in 1..MaxNesting, d = Len(st), Lined(st), Linked(st),
         NEW h, h = Reached(st, d), h \in PlacesAt[d],
         NEW s \in AllPlaces, ~Unread(st, s), ~Followed(s)
  PROVE  Before(s, h)
<1>1. d \in Nat /\ d >= 1 /\ \A k \in 1..d : st[k].line \in Nat \ {0}
  BY Nesting DEF Lined
<1>2. h.at[d] = st[d].line /\ \A j \in 1..d - 1 : h.at[j] = st[j].line - 1
  <2>1. d \in 1..d /\ \A j \in 1..d - 1 : j \in 1..d /\ j < d BY <1>1
  <2> QED BY <1>1, <2>1, ReachedLines
<1>3. WellPlaced(h, d) BY PlacesFacts
<1>4. DOMAIN h.at = 1..d /\ \A j \in 1..d : h.at[j] \in Nat
  BY <1>3, LengthAt DEF WellPlaced
<1>5. PICK n \in 1..MaxNesting : s \in PlacesAt[n] /\ WellPlaced(s, n) BY PlaceDepth
<1>6. Len(s.at) = n /\ DOMAIN s.at = 1..n /\ n \in Nat /\ n >= 1 /\ \A j \in 1..n : s.at[j] \in Nat
  BY <1>5, LengthAt, Nesting DEF WellPlaced
<1>7. \A k \in 1..d : ~(/\ k <= n /\ s.at[k] >= st[k].line
                        /\ \A j \in 1..k - 1 : s.at[j] = st[j].line - 1)
  BY <1>6 DEF Unread
<1> DEFINE T == {j \in 1..n : j <= d /\ s.at[j] # h.at[j]}
<1>8. CASE T # {}
  <2>1. PICK m \in T : \A j \in T : m <= j
    <3>1. T \in SUBSET Nat BY <1>6
    <3> HIDE DEF T
    <3> QED BY <1>8, <3>1, Least
  <2>2. m \in 1..n /\ m \in 1..d /\ s.at[m] # h.at[m] BY <1>1, <1>6
  <2>3. \A j \in 1..m - 1 : s.at[j] = h.at[j]
    <3> TAKE j \in 1..m - 1
    <3>1. j \in 1..n /\ j <= d /\ ~(m <= j) BY <1>1, <1>6, <2>2
    <3> QED BY <2>1, <3>1
  <2> HIDE DEF T
  <2>4. \A j \in 1..m - 1 : s.at[j] = st[j].line - 1
    <3> TAKE j \in 1..m - 1
    <3>1. j \in 1..d - 1 BY <1>1, <2>2
    <3> QED BY <1>2, <2>3, <3>1
  <2>5. ~(s.at[m] >= st[m].line) BY <1>1, <1>6, <1>7, <2>2, <2>4
  <2>6. s.at[m] < h.at[m]
    <3>1. s.at[m] \in Nat /\ h.at[m] \in Nat /\ st[m].line \in Nat BY <1>1, <1>4, <1>6, <2>2
    <3>2. CASE m = d BY <1>2, <2>5, <3>1, <3>2
    <3>3. CASE m # d
      <4>1. m \in 1..d - 1 BY <1>1, <2>2, <3>3
      <4> QED BY <1>2, <2>2, <2>5, <3>1, <4>1
    <3> QED BY <3>2, <3>3
  <2>7. m \in DOMAIN s.at \cap DOMAIN h.at BY <1>4, <1>6, <2>2
  <2> QED BY <2>3, <2>6, <2>7 DEF Before
<1>9. CASE T = {}
  <2>1. \A j \in 1..n : j <= d => s.at[j] = h.at[j] BY <1>9
  <2> HIDE DEF T
  <2>2. CASE n >= d
    <3>1. s.at[d] = st[d].line BY <1>1, <1>2, <1>6, <2>1, <2>2
    <3>2. \A j \in 1..d - 1 : s.at[j] = st[j].line - 1
      <4> TAKE j \in 1..d - 1
      <4>1. j \in 1..n /\ j <= d BY <1>1, <1>6, <2>2
      <4> QED BY <1>2, <2>1, <4>1
    <3>3. d \in 1..d /\ d <= n /\ s.at[d] >= st[d].line BY <1>1, <1>6, <2>2, <3>1
    <3> QED BY <1>7, <3>2, <3>3
  <2>3. CASE ~(n >= d)
    <3>1. n + 1 \in 1..Len(st) /\ n + 1 # 1 /\ n + 1 - 1 = n /\ n \in 1..d BY <1>1, <1>6, <2>3
    <3>2. Reached(st, n) \in PlacesAt[n] /\ Followed(Reached(st, n)) BY <3>1 DEF Linked
    <3>3. \A j \in 1..n : s.at[j] = Reached(st, n).at[j]
      <4> TAKE j \in 1..n
      <4>1. j < d /\ j <= d /\ j \in 1..d - 1 /\ d > 0 BY <1>1, <1>6, <2>3
      <4>2. Reached(st, n).at[j] = st[j].line - 1 BY <3>1, <4>1, ReachedLines
      <4> QED BY <1>2, <2>1, <4>1, <4>2
    <3>4. s = Reached(st, n) BY <1>5, <3>2, <3>3, SamePlace
    <3> QED BY <3>2, <3>4
  <2> QED BY <2>2, <2>3
<1> QED BY <1>8, <1>9

\* The line the active file has come to is at a place of its own.
LEMMA ReachedPlace ==
  ASSUME project \in Projects, NEW st, NEW d \in 1..MaxNesting, d = Len(st), Lined(st), Linked(st),
         CanRead(Entry), st[d].line \in DOMAIN LinesOf(st[d].path)
  PROVE  /\ Reached(st, d) \in PlacesAt[d]
         /\ LastOf(Reached(st, d).at) = st[d].line
         /\ LastOf(Reached(st, d).open) = st[d].path
<1> DEFINE h == Reached(st, d)
           l == st[d].line
           path == st[d].path
<1>1. d \in Nat /\ d >= 1 /\ d \in 1..d BY Nesting
<1>2. /\ h = [at |-> h.at, open |-> h.open]
      /\ h.at = [j \in 1..d |-> Come(st, j)] /\ h.open = [j \in 1..d |-> st[j].path]
  BY DEF Reached
<1>3. Come(st, d) = l BY DEF Come
<1>4. IsTuple(h.at, d) /\ IsTuple(h.open, d) BY <1>2 DEF IsTuple
<1>5. h.at[d] = l /\ h.open[d] = path BY <1>1, <1>2, <1>3
<1> HIDE DEF h, l, path
<1>6. Len(h.at) = d /\ Len(h.open) = d BY <1>1, <1>4, AnyAppend
<1>7. h \in PlacesAt[d]
  <2>1. CASE d = 1
    <3>1. PlacesAt[1] = Places(<<>>, <<Entry>>) BY <2>1, PlacesUnfold DEF Stepwise, FirstPlaces
    <3>2. 1 \in 1..Len(st) BY <2>1
    <3>3. path = Entry BY <2>1, <3>2 DEF Linked, path
    <3>4. IsTuple(<<>>, 0) BY DEF IsTuple
    <3>5. Append(<<>>, l) = Longer(<<>>, 0, l) BY <3>4, AnyAppend
    <3>6. h.at = Append(<<>>, l) BY <1>2, <1>3, <2>1, <3>5 DEF Longer
    <3>7. h.open = <<Entry>> BY <1>2, <2>1, <3>3 DEF path
    <3>8. l \in DOMAIN LinesOf(<<Entry>>[Len(<<Entry>>)]) BY <3>3 DEF l, path
    <3> QED BY <1>2, <2>1, <3>1, <3>6, <3>7, <3>8 DEF Places
  <2>2. CASE d # 1
    <3> DEFINE t == Reached(st, d - 1)
    <3>1. d - 1 \in Nat /\ d - 1 >= 1 /\ d - 1 \in 1..MaxNesting /\ d - 1 + 1 = d
      BY <1>1, <2>2, Nesting
    <3>2. t \in PlacesAt[d - 1] /\ Followed(t) /\ path = Included(t)
      BY <1>1, <2>2 DEF Linked, path
    <3>3. PlacesAt[d] = PlacesFrom(PlacesAt[d - 1]) BY <2>2, PlacesUnfold DEF Stepwise
    <3>4. t.at = [j \in 1..d - 1 |-> Come(st, j)] /\ t.open = [j \in 1..d - 1 |-> st[j].path]
      BY DEF Reached
    <3> HIDE DEF t
    <3>5. IsTuple(t.at, d - 1) /\ IsTuple(t.open, d - 1) BY <3>4 DEF IsTuple
    <3>6. Append(t.at, l) = Longer(t.at, d - 1, l) BY <3>1, <3>5, AnyAppend
    <3>7. Append(t.open, path) = Longer(t.open, d - 1, path) BY <3>1, <3>5, AnyAppend
    <3>8. h.at = Append(t.at, l)
      <4>1. \A j \in 1..d : Come(st, j) = IF j = d THEN l ELSE t.at[j]
        <5> TAKE j \in 1..d
        <5>1. j = d \/ j \in 1..d - 1 BY <1>1
        <5> QED BY <1>3, <3>4, <5>1
      <4>2. [j \in 1..d |-> Come(st, j)] = [j \in 1..d |-> IF j = d THEN l ELSE t.at[j]] BY <4>1
      <4> QED BY <1>2, <3>1, <3>6, <4>2 DEF Longer
    <3>9. h.open = Append(t.open, path)
      <4>1. \A j \in 1..d : st[j].path = IF j = d THEN path ELSE t.open[j]
        <5> TAKE j \in 1..d
        <5>1. j = d \/ j \in 1..d - 1 BY <1>1
        <5> QED BY <3>4, <5>1 DEF path
      <4>2. [j \in 1..d |-> st[j].path] = [j \in 1..d |-> IF j = d THEN path ELSE t.open[j]] BY <4>1
      <4> QED BY <1>2, <3>1, <3>7, <4>2 DEF Longer
    <3>10. h.open[Len(h.open)] = path BY <1>5, <1>6
    <3>11. h \in Places(t.at, Append(t.open, path))
      BY <1>2, <3>8, <3>9, <3>10 DEF Places, l, path
    <3> QED BY <3>2, <3>3, <3>11 DEF PlacesFrom, Followed
  <2> QED BY <2>1, <2>2
<1> QED BY <1>5, <1>6, <1>7 DEF h, l, path, LastOf

-----------------------------------------------------------------------------
\* What a project means does not change while it is read.
LEMMA ProjectStays ==
  ASSUME project' = project, NEW st, NEW m, NEW fs, NEW ds
  PROVE  /\ CanRead(Entry)' <=> CanRead(Entry)
         /\ Linked(st)' <=> Linked(st)
         /\ Listed(st, m, fs, ds)' <=> Listed(st, m, fs, ds)
<1>1. PlacesAt' = PlacesAt
  BY DEF PlacesAt, Places, Wrong, Entry, LineAt, Included, LastOf, LinesOf, Files, CanRead, Child
<1>2. AllPlaces' = AllPlaces BY <1>1 DEF AllPlaces
<1>3. CanRead(Entry)' <=> CanRead(Entry) BY DEF CanRead, Entry, Files
<1>4. Linked(st)' <=> Linked(st)
  BY <1>1 DEF Linked, Followed, Entry, Wrong, LineAt, Included, LastOf, LinesOf, Files, CanRead, Child
<1>5. ReadTexts(st)' = ReadTexts(st) BY <1>2 DEF ReadTexts, LineAt, Included, LastOf, LinesOf, Files, CanRead, Child
<1>6. ReadWrongs(st)' = ReadWrongs(st) BY <1>2 DEF ReadWrongs, Wrong, LineAt, Included, LastOf, LinesOf, Files, CanRead, Child
<1>7. ASSUME NEW out, NEW S
      PROVE  /\ Lists(out, S, Copied)' <=> Lists(out, S, Copied)
             /\ Lists(out, S, Placed)' <=> Lists(out, S, Placed)
  BY DEF Lists, Copied, Placed, Wrong, LineAt, Included, LastOf, LinesOf, Files, CanRead, Child
<1>8. Listed(st, m, fs, ds)' <=> Listed(st, m, fs, ds)
  <2> DEFINE T == ReadTexts(st)
             W == ReadWrongs(st)
             out == InNames(m, fs)
  <2>1. Lists(out, T, Copied)' <=> Lists(out, T, Copied)
    <3>1. PICK S : S = T OBVIOUS
    <3> QED BY <1>5, <1>7, <3>1
  <2>2. Lists(ds, W, Placed)' <=> Lists(ds, W, Placed)
    <3>1. PICK S : S = W OBVIOUS
    <3> QED BY <1>6, <1>7, <3>1
  <2> QED BY <1>5, <1>6, <2>1, <2>2 DEF Listed
<1> QED BY <1>3, <1>4, <1>8

\* The invariant holds after a step if it holds of the values after it.
LEMMA SoFarNext ==
  ASSUME project' = project, begun', CanRead(Entry),
         NEW st, st = stack', NEW m, m = merged', NEW fs, fs = files', NEW ds, ds = diags',
         Linked(st), Listed(st, m, fs, ds)
  PROVE  SoFar'
<1>1. CanRead(Entry)' /\ Linked(st)' /\ Listed(st, m, fs, ds)' BY ProjectStays
<1>2. Linked(stack)' BY <1>1
<1>3. Listed(stack, merged, files, diags)' BY <1>1
<1> QED BY <1>1, <1>2, <1>3 DEF SoFar

\* What is under the active file stays linked.
LEMMA LinkedNext ==
  ASSUME NEW st, NEW nx, Lined(st), Linked(st), Len(nx) \in 0..Len(st) + 1,
         \A k \in 1..Len(nx) : k <= Len(st) => nx[k].path = st[k].path,
         \A k \in 1..Len(nx) - 1 : nx[k].line = IF k = Len(st) THEN st[k].line + 1 ELSE st[k].line,
         Len(nx) = Len(st) + 1 =>
           LET d == Len(st)
           IN /\ d > 0 /\ nx[d + 1].path = Included(Reached(st, d))
              /\ Reached(st, d) \in PlacesAt[d] /\ Followed(Reached(st, d))
  PROVE  Linked(nx)
<1> DEFINE d == Len(st)
           e == Len(nx)
<1>1. d \in Nat /\ e \in Nat /\ e <= d + 1 /\ \A k \in 1..d : st[k].line \in Nat BY DEF Lined
<1>2. ASSUME NEW k \in 1..e - 1 PROVE Reached(nx, k) = Reached(st, k)
  <2>1. ASSUME NEW j \in 1..k PROVE Come(nx, j) = Come(st, j) /\ nx[j].path = st[j].path
    <3>1. j \in 1..Len(nx) - 1 /\ j \in 1..Len(nx) /\ j # Len(nx) /\ j <= Len(st) /\ j \in 1..d
      BY <1>1
    <3>2. nx[j].path = st[j].path BY <3>1
    <3>3. Come(nx, j) = nx[j].line - 1 BY <3>1 DEF Come
    <3>4. CASE j = Len(st)
      <4>1. nx[j].line = st[j].line + 1 /\ Come(st, j) = st[j].line BY <3>1, <3>4 DEF Come
      <4>2. st[j].line \in Nat BY <1>1, <3>1
      <4> QED BY <3>2, <3>3, <4>1, <4>2
    <3>5. CASE j # Len(st)
      <4>1. nx[j].line = st[j].line /\ Come(st, j) = st[j].line - 1 BY <3>1, <3>5 DEF Come
      <4> QED BY <3>2, <3>3, <4>1
    <3> QED BY <3>4, <3>5
  <2>2. [j \in 1..k |-> Come(nx, j)] = [j \in 1..k |-> Come(st, j)] BY <2>1
  <2>3. [j \in 1..k |-> nx[j].path] = [j \in 1..k |-> st[j].path] BY <2>1
  <2> QED BY <2>2, <2>3 DEF Reached
<1>3. ASSUME NEW k \in 1..e
      PROVE  IF k = 1 THEN nx[k].path = Entry
             ELSE /\ Reached(nx, k - 1) \in PlacesAt[k - 1] /\ Followed(Reached(nx, k - 1))
                  /\ nx[k].path = Included(Reached(nx, k - 1))
  <2>1. k # 1 => k - 1 \in 1..e - 1 BY <1>1
  <2>2. CASE k <= d
    <3>1. k \in 1..Len(st) /\ nx[k].path = st[k].path BY <1>1, <2>2
    <3> QED BY <1>2, <2>1, <3>1 DEF Linked
  <2>3. CASE ~(k <= d)
    <3>1. k = d + 1 /\ e = d + 1 /\ k - 1 = d BY <1>1, <2>3
    <3>2. /\ d > 0 /\ nx[d + 1].path = Included(Reached(st, d))
          /\ Reached(st, d) \in PlacesAt[d] /\ Followed(Reached(st, d))
      BY <3>1
    <3>3. k # 1
      <4>1. d > 0 /\ d \in Nat BY <1>1, <3>2
      <4> HIDE DEF d, e
      <4> QED BY <3>1, <4>1
    <3> QED BY <1>2, <2>1, <3>1, <3>2, <3>3
  <2> QED BY <2>2, <2>3
<1> QED BY <1>3 DEF Linked

\* What is listed once a place has been read.
LEMMA ReadMore ==
  ASSUME NEW st, NEW nx, NEW h \in AllPlaces,
         \A s \in AllPlaces : Unread(st, s) <=> Unread(nx, s) \/ s = h, ~Unread(nx, h)
  PROVE  /\ h \notin ReadTexts(st) /\ h \notin ReadWrongs(st)
         /\ ReadTexts(nx) = IF LineAt(h).kind = "text" THEN ReadTexts(st) \cup {h} ELSE ReadTexts(st)
         /\ ReadWrongs(nx) = IF Wrong(h) # "none" THEN ReadWrongs(st) \cup {h} ELSE ReadWrongs(st)
BY DEF ReadTexts, ReadWrongs

\* The next place in the order adds to a list at its end.
LEMMA ListsGrow ==
  ASSUME project \in Projects, NEW V, NEW out \in Seq(V), NEW S \in SUBSET AllPlaces, IsFiniteSet(S),
         NEW h \in AllPlaces, h \notin S, \A t \in S : Before(t, h),
         NEW w, ListsOf(out, S, w)
  PROVE  /\ IsFiniteSet(S \cup {h}) /\ ListsOf(Append(out, w[h]), S \cup {h}, w)
         /\ \E U : Append(out, w[h]) \in Seq(U)
<1>1. \A t \in S : Before(t, h) /\ ~Before(h, t) /\ ~Before(t, t) BY Asymmetric, Irreflexive
<1>2. ~Before(h, h) BY Irreflexive
<1> DEFINE U == V \cup {w[h]}
<1>3. out \in Seq(U) BY SeqMonotonic
<1>4. w[h] \in U OBVIOUS
<1> HIDE DEF U
<1>5. ListsOf(Append(out, w[h]), S \cup {h}, w) BY <1>1, <1>2, <1>3, <1>4, ListsOneMore
<1>6. Append(out, w[h]) \in Seq(U) BY <1>3, <1>4, AppendProperties
<1>7. IsFiniteSet(S \cup {h}) BY FS_AddElement
<1> QED BY <1>5, <1>6, <1>7

LEMMA TextsGrow ==
  ASSUME project \in Projects, NEW V, NEW out \in Seq(V), NEW S \in SUBSET AllPlaces, IsFiniteSet(S),
         NEW h \in AllPlaces, h \notin S, \A t \in S : Before(t, h), Lists(out, S, Copied)
  PROVE  IsFiniteSet(S \cup {h}) /\ Lists(Append(out, Copied(h)), S \cup {h}, Copied)
<1> DEFINE w == [s \in AllPlaces |-> Copied(s)]
<1>1. w[h] = Copied(h) /\ \A s \in S \cup {h} : w[s] = Copied(s) OBVIOUS
<1> HIDE DEF w
<1>2. ListsOf(out, S, w) BY <1>1 DEF Lists, ListsOf
<1>3. IsFiniteSet(S \cup {h}) /\ ListsOf(Append(out, w[h]), S \cup {h}, w) BY <1>2, ListsGrow
<1> QED BY <1>1, <1>3 DEF Lists, ListsOf

LEMMA WrongsGrow ==
  ASSUME project \in Projects, NEW V, NEW out \in Seq(V), NEW S \in SUBSET AllPlaces, IsFiniteSet(S),
         NEW h \in AllPlaces, h \notin S, \A t \in S : Before(t, h), Lists(out, S, Placed)
  PROVE  /\ IsFiniteSet(S \cup {h}) /\ Lists(Append(out, Placed(h)), S \cup {h}, Placed)
         /\ \E U : Append(out, Placed(h)) \in Seq(U)
<1> DEFINE w == [s \in AllPlaces |-> Placed(s)]
<1>1. w[h] = Placed(h) /\ \A s \in S \cup {h} : w[s] = Placed(s) OBVIOUS
<1> HIDE DEF w
<1>2. ListsOf(out, S, w) BY <1>1 DEF Lists, ListsOf
<1>3. /\ IsFiniteSet(S \cup {h}) /\ ListsOf(Append(out, w[h]), S \cup {h}, w)
      /\ \E U : Append(out, w[h]) \in Seq(U)
  BY <1>2, ListsGrow
<1> QED BY <1>1, <1>3 DEF Lists, ListsOf

-----------------------------------------------------------------------------
\* One step of process_file at a time.
LEMMA AdvancedLines ==
  ASSUME NEW P, NEW C, stack \in Seq(FrameSet(P, C)), stack # <<>>
  PROVE  /\ Lined(stack) /\ Depth \in Nat \ {0} /\ Len(Advanced) = Depth
         /\ Advanced[Depth].line = stack[Depth].line + 1
         /\ \A k \in 1..Depth : Advanced[k].path = stack[k].path
         /\ \A k \in 1..Depth - 1 : Advanced[k].line = stack[k].line
<1>1. Depth \in Nat \ {0} /\ DOMAIN stack = 1..Depth
  BY EmptySeq, LenProperties DEF Depth
<1>2. \A k \in 1..Depth : stack[k] \in FrameSet(P, C) BY ElementOfSeq DEF Depth
<1>3. Lined(stack) BY <1>1, <1>2 DEF Lined, FrameSet, Depth
<1> DEFINE moved == [stack[Depth] EXCEPT !.line = @ + 1]
<1>4. Depth \in 1..Depth BY <1>1
<1>5. moved.line = stack[Depth].line + 1 BY <1>2, <1>4 DEF FrameSet
<1>6. Advanced = [stack EXCEPT ![Depth] = moved] BY DEF Advanced
<1> HIDE DEF moved
<1>7. \A k \in 1..Depth : Advanced[k] = IF k = Depth THEN moved ELSE stack[k] BY <1>1, <1>6
<1>8. Advanced[Depth].line = stack[Depth].line + 1 BY <1>4, <1>5, <1>7
<1>9. \A k \in 1..Depth - 1 : Advanced[k].line = stack[k].line
  <2> TAKE k \in 1..Depth - 1
  <2>1. k \in 1..Depth /\ k # Depth BY <1>1
  <2> QED BY <1>7, <2>1
<1>10. Len(Advanced) = Depth /\ \A k \in 1..Depth : Advanced[k].path = stack[k].path
  BY AdvancedStack
<1> QED BY <1>1, <1>3, <1>8, <1>9, <1>10

\* The place the active file has come to, h, and the line there.
ActivePlace(h) ==
  /\ h = Reached(stack, Depth) /\ h \in PlacesAt[Depth] /\ h \in AllPlaces
  /\ LineAt(h) = Line /\ LastOf(h.open) = Active.path /\ LastOf(h.at) = Active.line
\* What is known while a file is open.
Reading ==
  /\ project \in Projects /\ begun /\ CanRead(Entry) /\ stack # <<>>
  /\ Depth \in 1..MaxNesting /\ Lined(stack) /\ Linked(stack) /\ CanRead(Active.path)
  /\ Listed(stack, merged, files, diags)
  /\ Len(Advanced) = Depth
  /\ Advanced[Depth].line = stack[Depth].line + 1
  /\ \A k \in 1..Depth : Advanced[k].path = stack[k].path
  /\ \A k \in 1..Depth - 1 : Advanced[k].line = stack[k].line

LEMMA IsReading ==
  ASSUME IInv, SoFar, stack # <<>>
  PROVE  Reading
<1>1. PICK P, C, T : Typed(P, C, T) BY DEF IInv
<1>2. begun /\ CanRead(Entry) BY DEF SoFar
<1>3. Linked(stack) /\ Listed(stack, merged, files, diags) BY <1>2 DEF SoFar
<1>4. /\ Lined(stack) /\ Depth \in Nat \ {0} /\ Len(Advanced) = Depth
      /\ Advanced[Depth].line = stack[Depth].line + 1
      /\ \A k \in 1..Depth : Advanced[k].path = stack[k].path
      /\ \A k \in 1..Depth - 1 : Advanced[k].line = stack[k].line
  BY <1>1, AdvancedLines DEF Typed
<1>5. Depth \in 1..MaxNesting BY <1>4, Nesting DEF IInv, Apart, Depth
<1>6. CanRead(Active.path) BY <1>4 DEF IInv, EnteredIn, Active, Depth
<1> QED BY <1>2, <1>3, <1>4, <1>5, <1>6 DEF Reading, IInv

LEMMA IsActive ==
  ASSUME Reading, InFile
  PROVE  ActivePlace(Reached(stack, Depth))
<1> DEFINE d == Depth
           h == Reached(stack, d)
<1>1. d \in 1..MaxNesting /\ d = Len(stack) /\ d \in Nat /\ d \in 1..d BY Nesting DEF Reading, Depth
<1>2. stack[d].line \in DOMAIN LinesOf(stack[d].path)
  <2>1. /\ Len(LinesOf(Active.path)) \in Nat
        /\ DOMAIN LinesOf(Active.path) = 1..Len(LinesOf(Active.path))
    BY IncludeAssumption DEF Reading, CanRead, LinesOf, Files
  <2>2. Active.line \in Nat \ {0} BY <1>1 DEF Reading, Lined, Active
  <2>3. Active.line <= Len(LinesOf(Active.path)) BY DEF InFile
  <2> DEFINE N == Len(LinesOf(Active.path))
  <2> HIDE DEF N
  <2>4. Active.line \in DOMAIN LinesOf(Active.path) BY <2>1, <2>2, <2>3 DEF N
  <2> QED BY <2>4 DEF Active
<1>3. h \in PlacesAt[d] /\ LastOf(h.at) = stack[d].line /\ LastOf(h.open) = stack[d].path
  BY <1>1, <1>2, ReachedPlace DEF Reading
<1>4. h \in AllPlaces BY <1>1, <1>3 DEF AllPlaces
<1>5. LineAt(h) = Line BY <1>3 DEF LineAt, Line, Active
<1> QED BY <1>3, <1>4, <1>5 DEF ActivePlace, Active

LEMMA NextRead ==
  ASSUME Reading, NEW h, ActivePlace(h), NEW nx, Passed(stack, nx), Len(nx) = Depth => ~Followed(h)
  PROVE  /\ h \notin ReadTexts(stack) /\ h \notin ReadWrongs(stack)
         /\ ReadTexts(nx) = IF LineAt(h).kind = "text" THEN ReadTexts(stack) \cup {h} ELSE ReadTexts(stack)
         /\ ReadWrongs(nx) = IF Wrong(h) # "none" THEN ReadWrongs(stack) \cup {h} ELSE ReadWrongs(stack)
         /\ \A t \in ReadTexts(stack) \cup ReadWrongs(stack) : t \in AllPlaces /\ Before(t, h)
<1> DEFINE d == Depth
<1>1. /\ project \in Projects /\ d \in 1..MaxNesting /\ d = Len(stack) /\ Lined(stack) /\ Linked(stack)
      /\ h = Reached(stack, d) /\ h \in PlacesAt[d] /\ h \in AllPlaces /\ (Len(nx) = d => ~Followed(h))
  BY DEF Reading, ActivePlace, Depth
<1> HIDE DEF d
<1>2. /\ \A s \in AllPlaces : Unread(stack, s) <=> Unread(nx, s) \/ s = h
      /\ ~Unread(nx, h)
  BY <1>1, OneRead
<1>3. ASSUME NEW t \in ReadTexts(stack) \cup ReadWrongs(stack) PROVE t \in AllPlaces /\ Before(t, h)
  <2>1. t \in AllPlaces /\ ~Unread(stack, t) /\ ~Followed(t) BY DEF ReadTexts, ReadWrongs, Followed
  <2> QED BY <1>1, <2>1, ReadBefore
<1> QED BY <1>1, <1>2, <1>3, ReadMore

\* process_file gives up on an #include for what is wrong with its place.
LEMMA WrongAsRefused ==
  ASSUME IInv, Reading, NEW h, ActivePlace(h), Line.kind = "include"
  PROVE  /\ Included(h) = Child(Active.path, Line.path)
         /\ Wrong(h) = Refusal(Included(h)) /\ Wrong(h) # "malformed"
<1>1. Depth \in 1..MaxNesting /\ WellPlaced(h, Depth)
  BY PlacesFacts DEF Reading, ActivePlace
<1>2. Len(h.open) = Depth /\ DOMAIN h.open = 1..Depth BY <1>1, LengthAt
<1>3. \A k \in 1..Depth : h.open[k] = stack[k].path BY DEF ActivePlace, Reached
<1>4. Included(h) = Child(Active.path, Line.path) BY DEF ActivePlace, Included
<1> DEFINE path == Included(h)
<1>5. IsOpen(path) <=> \E k \in DOMAIN h.open : Canonical(h.open[k]) = Canonical(path)
  BY <1>2, <1>3 DEF IsOpen, IInv, EnteredIn, Depth
<1>6. Depth >= MaxNesting <=> Len(h.open) = MaxNesting BY <1>1, <1>2, Nesting
<1>7. LineAt(h).kind = "include" BY DEF ActivePlace
<1> HIDE DEF path
<1>8. Wrong(h) = IF IsOpen(path) THEN "cycle"
                 ELSE IF ~CanRead(path) THEN "cannot open"
                 ELSE IF Depth >= MaxNesting THEN "too deep"
                 ELSE "none"
  BY <1>5, <1>6, <1>7 DEF Wrong, path
<1> QED BY <1>4, <1>8 DEF Refusal, path

\* The names of the merged lines stay as they are while files are entered, and
\* a line that is copied gets that of the active file.
LEMMA NamesStay ==
  ASSUME NEW m, NEW T, m \in Seq(LineSet(T)), NEW fs, NEW gs, MappedIn(m, fs),
         \A k \in 1..Len(fs) : gs[k] = fs[k]
  PROVE  InNames(m, gs) = InNames(m, fs)
<1>1. DOMAIN m = 1..Len(m) BY LenProperties
<1>2. ASSUME NEW n \in DOMAIN m PROVE [m[n] EXCEPT !.file = gs[@]] = [m[n] EXCEPT !.file = fs[@]]
  <2>1. m[n].file \in 1..Len(fs) BY <1>1 DEF MappedIn
  <2>2. gs[m[n].file] = fs[m[n].file] BY <2>1
  <2> QED BY <2>2
<1> QED BY <1>2 DEF InNames

LEMMA NamesGrow ==
  ASSUME NEW m, NEW T, m \in Seq(LineSet(T)), NEW fs, NEW line, line \in LineSet(T)
  PROVE  /\ InNames(Append(m, line), fs) = Append(InNames(m, fs), [line EXCEPT !.file = fs[@]])
         /\ \E V : InNames(m, fs) \in Seq(V)
<1> DEFINE n == Len(m)
           r == [line EXCEPT !.file = fs[@]]
           more == Append(m, line)
           named == InNames(m, fs)
<1>1. n \in Nat /\ DOMAIN m = 1..n BY LenProperties
<1>2. /\ more \in Seq(LineSet(T)) /\ Len(more) = n + 1 /\ more[n + 1] = line
      /\ \A k \in 1..n : more[k] = m[k]
  BY AppendProperties
<1>3. DOMAIN more = 1..n + 1 BY <1>2, LenProperties
<1>4. named = [k \in 1..n |-> [m[k] EXCEPT !.file = fs[@]]] BY <1>1 DEF InNames
<1> HIDE DEF n, r, named, more
<1>5. IsTuple(named, n) BY <1>4 DEF IsTuple
<1>6. Append(named, r) = Longer(named, n, r) BY <1>1, <1>5, AnyAppend
<1>7. \A k \in 1..n + 1 : [more[k] EXCEPT !.file = fs[@]] = IF k = n + 1 THEN r ELSE named[k]
  <2> TAKE k \in 1..n + 1
  <2>1. CASE k = n + 1 BY <1>2, <2>1 DEF r
  <2>2. CASE k # n + 1
    <3>1. k \in 1..n BY <1>1, <2>2
    <3> QED BY <1>2, <1>4, <2>2, <3>1
  <2> QED BY <2>1, <2>2
<1>8. InNames(more, fs) = [k \in 1..n + 1 |-> [more[k] EXCEPT !.file = fs[@]]] BY <1>3 DEF InNames
<1>9. InNames(more, fs) = Append(named, r) BY <1>6, <1>7, <1>8 DEF Longer
<1>10. named \in Seq({named[k] : k \in 1..n})
  <2> DEFINE R == {named[k] : k \in 1..n}
  <2>1. named \in [1..n -> R] BY <1>5 DEF IsTuple
  <2> HIDE DEF R
  <2>2. Seq(R) = UNION {[1..k -> R] : k \in Nat} BY SeqDef
  <2>3. [1..n -> R] \in {[1..k -> R] : k \in Nat} BY <1>1, Zenon
  <2>4. named \in Seq(R) BY <2>1, <2>2, <2>3, Zenon
  <2> QED BY <2>4 DEF R
<1> QED BY <1>9, <1>10 DEF r, named, more

\* A line that is left behind leaves the files below as they were.
LEMMA LinkedPast ==
  ASSUME Reading PROVE Linked(Advanced) /\ Passed(stack, Advanced)
<1> DEFINE d == Depth
<1>1. d \in Nat \ {0} /\ d = Len(stack) /\ Len(Advanced) = d BY Nesting DEF Reading, Depth
<1>2. \A k \in 1..Len(Advanced) : k <= Len(stack) => Advanced[k].path = stack[k].path
  BY <1>1 DEF Reading
<1>3. \A k \in 1..Len(Advanced) - 1 : Advanced[k].line = stack[k].line /\ k # Len(stack)
  BY <1>1 DEF Reading
<1>4. Len(Advanced) \in 0..Len(stack) + 1 /\ Len(Advanced) # Len(stack) + 1 BY <1>1
<1>5. Linked(Advanced) BY <1>2, <1>3, <1>4, LinkedNext DEF Reading
<1>6. Passed(stack, Advanced) BY <1>1 DEF Passed, Reading
<1> QED BY <1>5, <1>6

LEMMA TextLineSoFar == IInv /\ SoFar /\ TextLine => SoFar'
<1> SUFFICES ASSUME IInv, SoFar, TextLine PROVE SoFar' OBVIOUS
<1>1. /\ stack # <<>> /\ InFile /\ Line.kind = "text"
      /\ merged' = Append(merged, CopyLine) /\ stack' = Advanced
      /\ UNCHANGED <<project, begun, files, diags>>
  BY DEF TextLine, AtLine, InFile
<1>2. Reading BY <1>1, IsReading
<1>3. PICK h : ActivePlace(h) BY <1>1, <1>2, IsActive
<1>4. LineAt(h).kind = "text" /\ Wrong(h) = "none" /\ ~Followed(h)
  BY <1>1, <1>3 DEF ActivePlace, Wrong, Followed
<1>5. Linked(Advanced) /\ Passed(stack, Advanced) BY <1>2, LinkedPast
<1>6. /\ h \notin ReadTexts(stack)
      /\ ReadTexts(Advanced) = ReadTexts(stack) \cup {h} /\ ReadWrongs(Advanced) = ReadWrongs(stack)
      /\ \A t \in ReadTexts(stack) : t \in AllPlaces /\ Before(t, h)
  BY <1>2, <1>3, <1>4, <1>5, NextRead
<1>7. PICK P, C, T : Typed(P, C, T) BY DEF IInv
<1> DEFINE U == T \cup {Line}
           named == InNames(merged, files)
<1>8. merged \in Seq(LineSet(U)) /\ CopyLine \in LineSet(U)
  <2>1. LineSet(T) \subseteq LineSet(U) BY DEF LineSet
  <2>2. stack[Depth] \in FrameSet(P, C)
    BY <1>2, <1>7, ElementOfSeq DEF Typed, Depth, Reading
  <2>3. CopyLine \in LineSet(U) BY <2>2 DEF CopyLine, LineSet, Active, FrameSet
  <2> HIDE DEF U
  <2> QED BY <1>7, <2>1, <2>3, SeqMonotonic DEF Typed
<1> HIDE DEF U
<1>9. [CopyLine EXCEPT !.file = files[@]] = Copied(h)
  <2>1. files[Active.file] = Active.path
    BY <1>2 DEF IInv, EnteredIn, Active, Depth, Reading
  <2>2. Copied(h) = [text |-> Line, file |-> Active.path, line |-> Active.line]
    BY <1>3 DEF ActivePlace, Copied
  <2> QED BY <2>1, <2>2 DEF CopyLine
<1>10. /\ InNames(merged', files) = Append(named, Copied(h))
       /\ \E V : named \in Seq(V)
  BY <1>1, <1>8, <1>9, NamesGrow
<1> HIDE DEF named
<1>11. PICK V : named \in Seq(V) BY <1>10
<1>12. Listed(stack, merged, files, diags) /\ project \in Projects /\ h \in AllPlaces
  BY <1>2, <1>3 DEF Reading, ActivePlace
<1>13. IsFiniteSet(ReadTexts(stack)) /\ Lists(named, ReadTexts(stack), Copied)
  BY <1>12 DEF Listed, named
<1>14. /\ IsFiniteSet(ReadTexts(Advanced))
       /\ Lists(Append(named, Copied(h)), ReadTexts(Advanced), Copied)
  <2> DEFINE S == ReadTexts(stack)
  <2>1. S \in SUBSET AllPlaces /\ \A t \in S : Before(t, h) BY <1>6
  <2> HIDE DEF S
  <2>2. IsFiniteSet(S \cup {h}) /\ Lists(Append(named, Copied(h)), S \cup {h}, Copied)
    BY <1>6, <1>11, <1>12, <1>13, <2>1, TextsGrow DEF S
  <2> QED BY <1>6, <2>2 DEF S
<1>15. PICK st, m : st = stack' /\ m = merged' OBVIOUS
<1>16. Listed(st, m, files, diags)
  BY <1>1, <1>6, <1>10, <1>12, <1>14, <1>15 DEF Listed
<1>17. Linked(st) /\ begun' /\ CanRead(Entry) BY <1>1, <1>2, <1>5, <1>15 DEF Reading
<1> QED BY <1>1, <1>15, <1>16, <1>17, SoFarNext

\* Either line that is not copied or followed is reported.
LEMMA ReportedSoFar ==
  ASSUME IInv, SoFar, Reading, NEW h, ActivePlace(h), Wrong(h) # "none", LineAt(h).kind # "text",
         stack' = Advanced, diags' = Append(diags, Placed(h)),
         UNCHANGED <<project, begun, files, merged>>
  PROVE  SoFar'
<1>1. Linked(Advanced) /\ Passed(stack, Advanced) BY LinkedPast
<1>2. /\ h \notin ReadWrongs(stack)
      /\ ReadTexts(Advanced) = ReadTexts(stack) /\ ReadWrongs(Advanced) = ReadWrongs(stack) \cup {h}
      /\ \A t \in ReadWrongs(stack) : t \in AllPlaces /\ Before(t, h)
  <2>1. ~Followed(h) BY DEF Followed
  <2> QED BY <1>1, <2>1, NextRead
<1>3. Listed(stack, merged, files, diags) /\ project \in Projects /\ h \in AllPlaces
  BY DEF Reading, ActivePlace
<1>4. PICK V : diags \in Seq(V) BY <1>3 DEF Listed
<1>5. /\ IsFiniteSet(ReadWrongs(Advanced))
      /\ Lists(Append(diags, Placed(h)), ReadWrongs(Advanced), Placed)
      /\ \E U : Append(diags, Placed(h)) \in Seq(U)
  <2> DEFINE S == ReadWrongs(stack)
  <2>1. S \in SUBSET AllPlaces /\ \A t \in S : Before(t, h) BY <1>2
  <2>2. IsFiniteSet(S) /\ Lists(diags, S, Placed) BY <1>3 DEF Listed
  <2> HIDE DEF S
  <2>3. /\ IsFiniteSet(S \cup {h}) /\ Lists(Append(diags, Placed(h)), S \cup {h}, Placed)
        /\ \E U : Append(diags, Placed(h)) \in Seq(U)
    BY <1>2, <1>3, <1>4, <2>1, <2>2, WrongsGrow DEF S
  <2> QED BY <1>2, <2>3 DEF S
<1>6. PICK st, ds : st = stack' /\ ds = diags' OBVIOUS
<1>7. Listed(st, merged, files, ds)
  BY <1>2, <1>3, <1>5, <1>6 DEF Listed
<1>8. Linked(st) /\ begun' /\ CanRead(Entry) BY <1>1, <1>6 DEF Reading
<1> QED BY <1>6, <1>7, <1>8, SoFarNext

LEMMA MalformedLineSoFar == IInv /\ SoFar /\ MalformedLine => SoFar'
<1> SUFFICES ASSUME IInv, SoFar, MalformedLine PROVE SoFar' OBVIOUS
<1>1. /\ stack # <<>> /\ InFile /\ Line.kind = "malformed"
      /\ diags' = Append(diags, Diag(Active.path, Active.line, "malformed")) /\ stack' = Advanced
      /\ UNCHANGED <<project, begun, files, merged>>
  BY DEF MalformedLine, AtLine, InFile
<1>2. Reading BY <1>1, IsReading
<1>3. PICK h : ActivePlace(h) BY <1>1, <1>2, IsActive
<1>4. LineAt(h).kind # "text" /\ Wrong(h) = "malformed"
  BY <1>1, <1>3 DEF ActivePlace, Wrong
<1>5. Placed(h) = Diag(Active.path, Active.line, "malformed")
  BY <1>3, <1>4 DEF ActivePlace, Placed
<1> QED BY <1>1, <1>2, <1>3, <1>4, <1>5, ReportedSoFar

LEMMA IncludeLineSoFar == IInv /\ SoFar /\ IncludeLine => SoFar'
<1> SUFFICES ASSUME IInv, SoFar, IncludeLine PROVE SoFar' OBVIOUS
<1> DEFINE path == Child(Active.path, Line.path)
<1>1. /\ stack # <<>> /\ InFile /\ Line.kind = "include"
      /\ Process(path, Advanced) /\ UNCHANGED <<project, begun, merged>>
  BY DEF IncludeLine, AtLine, InFile
<1>2. Reading BY <1>1, IsReading
<1>3. PICK h : ActivePlace(h) BY <1>1, <1>2, IsActive
<1>4. LineAt(h).kind = "include" BY <1>1, <1>3 DEF ActivePlace
<1>5. Included(h) = path /\ Wrong(h) = Refusal(path) /\ Wrong(h) # "malformed"
  BY <1>1, <1>2, <1>3, WrongAsRefused
<1> HIDE DEF path
<1>6. CASE Refusal(path) # "none"
  <2>1. stack' = Advanced /\ UNCHANGED files /\ diags' = Append(diags, Diag(path, 0, Refusal(path)))
    BY <1>1, <1>6 DEF Process
  <2>2. Placed(h) = Diag(path, 0, Refusal(path)) BY <1>5 DEF Placed
  <2> QED BY <1>1, <1>2, <1>3, <1>4, <1>5, <1>6, <2>1, <2>2, ReportedSoFar
<1>7. CASE Refusal(path) = "none"
  <2> DEFINE d == Depth
             f == Frame(path)
             nx == Append(Advanced, f)
  <2>1. stack' = nx /\ files' = Append(files, path) /\ UNCHANGED diags
    BY <1>1, <1>7 DEF Process
  <2>2. PICK P, C, T : Typed(P, C, T) BY DEF IInv
  <2>3. f.path = path /\ f.line = 1 BY DEF Frame
  <2>4. d \in Nat \ {0} /\ d = Len(stack) /\ Len(Advanced) = d BY <1>2, Nesting DEF Reading, Depth
  <2>5. Len(nx) = d + 1 /\ nx[d + 1] = f /\ \A k \in 1..d : nx[k] = Advanced[k]
    <3>1. Advanced \in Seq(FrameSet(P, C)) BY <1>1, <2>2, AdvancedStack DEF Typed
    <3>2. IsTuple(Advanced, d)
      <4> DEFINE moved == [stack[Depth] EXCEPT !.line = @ + 1]
      <4>1. Advanced = [stack EXCEPT ![Depth] = moved] BY DEF Advanced
      <4>2. DOMAIN stack = 1..d BY <2>2, LenProperties DEF Typed, Depth
      <4> HIDE DEF moved
      <4> QED BY <4>1, <4>2 DEF IsTuple
    <3> HIDE DEF d, f
    <3>3. nx = Longer(Advanced, d, f) BY <2>4, <3>2, AnyAppend
    <3>4. nx = [k \in 1..d + 1 |-> IF k = d + 1 THEN f ELSE Advanced[k]] BY <3>3 DEF Longer
    <3> HIDE DEF nx
    <3>5. IsTuple(nx, d + 1) BY <3>4 DEF IsTuple
    <3>6. d + 1 \in Nat BY <2>4
    <3>7. Len(nx) = d + 1 BY <3>5, <3>6, AnyAppend
    <3> QED BY <2>4, <3>4, <3>7
  <2> HIDE DEF d, f, nx
  <2>6. Followed(h) BY <1>4, <1>5, <1>7 DEF Followed
  <2>7. /\ Advanced[d].line = stack[d].line + 1
        /\ \A k \in 1..d : Advanced[k].path = stack[k].path
        /\ \A k \in 1..d - 1 : Advanced[k].line = stack[k].line
    BY <1>2 DEF Reading, d
  <2>8. Passed(stack, nx)
    <3>1. d \in 1..d /\ \A k \in 1..d - 1 : k \in 1..d BY <2>4
    <3> QED BY <2>3, <2>4, <2>5, <2>7, <3>1 DEF Passed
  <2>9. Linked(nx)
    <3>1. \A k \in 1..Len(nx) : k <= Len(stack) => nx[k].path = stack[k].path
      BY <2>4, <2>5, <2>7
    <3>2. ASSUME NEW k \in 1..Len(nx) - 1
          PROVE  nx[k].line = IF k = Len(stack) THEN stack[k].line + 1 ELSE stack[k].line
      <4>1. k = d \/ k \in 1..d - 1 BY <2>4, <2>5
      <4>2. nx[k] = Advanced[k] BY <2>4, <2>5
      <4> QED BY <2>4, <2>7, <4>1, <4>2
    <3>3. Len(nx) \in 0..Len(stack) + 1 BY <2>4, <2>5
    <3>4. /\ Len(stack) > 0 /\ nx[Len(stack) + 1].path = Included(Reached(stack, Len(stack)))
          /\ Reached(stack, Len(stack)) \in PlacesAt[Len(stack)] /\ Followed(Reached(stack, Len(stack)))
      <4>1. h = Reached(stack, d) /\ h \in PlacesAt[d] BY <1>3 DEF ActivePlace, d
      <4> QED BY <1>5, <2>3, <2>4, <2>5, <2>6, <4>1
    <3>5. Lined(stack) /\ Linked(stack) BY <1>2 DEF Reading
    <3> QED BY <3>1, <3>2, <3>3, <3>4, <3>5, LinkedNext
  <2>10. ReadTexts(nx) = ReadTexts(stack) /\ ReadWrongs(nx) = ReadWrongs(stack)
    <3>1. Len(nx) # Depth BY <2>4, <2>5 DEF d
    <3>2. LineAt(h).kind # "text" /\ Wrong(h) = "none" BY <1>4, <1>5, <1>7
    <3> QED BY <1>2, <1>3, <2>8, <3>1, <3>2, NextRead
  <2>11. InNames(merged, files') = InNames(merged, files)
    <3>1. PICK gs : gs = files' OBVIOUS
    <3>2. \A k \in 1..Len(files) : gs[k] = files[k]
      <4>1. files \in Seq(P \cup {path})
        BY <2>2, SeqMonotonic DEF Typed
      <4> QED BY <2>1, <3>1, <4>1, AppendProperties
    <3> QED BY <2>2, <3>1, <3>2, NamesStay DEF Typed, IInv
  <2>12. Listed(stack, merged, files, diags) BY <1>2 DEF Reading
  <2>13. PICK st, fs : st = stack' /\ fs = files' OBVIOUS
  <2>14. Listed(st, merged, fs, diags) BY <2>1, <2>10, <2>11, <2>12, <2>13 DEF Listed
  <2>15. Linked(st) /\ begun' /\ CanRead(Entry) BY <1>1, <1>2, <2>1, <2>9, <2>13 DEF Reading
  <2> QED BY <1>1, <2>1, <2>13, <2>14, <2>15, SoFarNext
<1> QED BY <1>6, <1>7

\* A file that has been read to its end leaves nothing unread behind.
LEMMA EndOfFileSoFar == IInv /\ SoFar /\ EndOfFile => SoFar'
<1> SUFFICES ASSUME IInv, SoFar, EndOfFile PROVE SoFar' OBVIOUS
<1>1. /\ stack # <<>> /\ ~InFile /\ stack' = SubSeq(stack, 1, Depth - 1)
      /\ UNCHANGED <<project, begun, files, merged, diags>>
  BY DEF EndOfFile, LeaveFile
<1>2. Reading BY <1>1, IsReading
<1>3. PICK P, C, T : Typed(P, C, T) BY DEF IInv
<1> DEFINE d == Depth
<1>4. d \in 1..MaxNesting /\ d \in Nat \ {0} /\ d = Len(stack) BY <1>2, Nesting DEF Reading, Depth
<1>5. PICK nx : nx = stack' OBVIOUS
<1> HIDE DEF d
<1>6. Len(nx) = d - 1 /\ \A k \in 1..d - 1 : nx[k] = stack[k]
  <2>1. \A k \in 1..d - 1 : stack[k] \in FrameSet(P, C)
    BY <1>3, <1>4, ElementOfSeq DEF Typed
  <2>2. nx = SubSeq(stack, 1, d - 1) /\ d - 1 \in Int BY <1>1, <1>4, <1>5 DEF d
  <2>3. /\ Len(SubSeq(stack, 1, d - 1)) = IF 1 <= d - 1 THEN d - 1 - 1 + 1 ELSE 0
        /\ \A k \in 1..d - 1 - 1 + 1 : SubSeq(stack, 1, d - 1)[k] = stack[1 + k - 1]
    BY <2>1, <2>2, SubSeqProperties
  <2> QED BY <1>4, <2>2, <2>3
<1>7. Linked(nx)
  <2>1. \A k \in 1..Len(nx) : k <= Len(stack) => nx[k].path = stack[k].path BY <1>6
  <2>2. \A k \in 1..Len(nx) - 1 : nx[k].line = IF k = Len(stack) THEN stack[k].line + 1 ELSE stack[k].line
    BY <1>4, <1>6
  <2>3. Len(nx) \in 0..Len(stack) + 1 /\ Len(nx) # Len(stack) + 1 BY <1>4, <1>6
  <2> QED BY <1>2, <2>1, <2>2, <2>3, LinkedNext DEF Reading
<1>8. \A s \in AllPlaces : Unread(stack, s) <=> Unread(nx, s)
  <2>1. CanRead(stack[d].path) /\ stack[d].line > Len(LinesOf(stack[d].path))
    <3>1. Len(LinesOf(Active.path)) \in Nat
      BY <1>2, IncludeAssumption DEF Reading, CanRead, LinesOf, Files
    <3>2. Active.line \in Nat BY <1>2, <1>4 DEF Reading, Lined, Active, d
    <3>3. ~(Active.line <= Len(LinesOf(Active.path))) BY <1>1 DEF InFile
    <3> DEFINE N == Len(LinesOf(Active.path))
    <3> HIDE DEF N
    <3>4. Active.line > N BY <3>1, <3>2, <3>3 DEF N
    <3> QED BY <1>2, <3>4 DEF Reading, Active, N, d
  <2>2. Len(nx) = d - 1 /\ \A k \in 1..d - 1 : nx[k].line = stack[k].line BY <1>6
  <2>3. project \in Projects /\ Lined(stack) /\ Linked(stack) BY <1>2 DEF Reading
  <2> QED BY <1>4, <2>1, <2>2, <2>3, NoneLeft
<1>9. ReadTexts(nx) = ReadTexts(stack) /\ ReadWrongs(nx) = ReadWrongs(stack)
  BY <1>8 DEF ReadTexts, ReadWrongs
<1>10. Listed(nx, merged, files, diags) BY <1>2, <1>9 DEF Reading, Listed
<1>11. begun' /\ CanRead(Entry) BY <1>1, <1>2 DEF Reading
<1> QED BY <1>1, <1>5, <1>7, <1>10, <1>11, SoFarNext

LEMMA NoNames == ASSUME NEW fs PROVE InNames(<<>>, fs) = <<>>
BY DEF InNames

LEMMA OneDiag == ASSUME NEW x PROVE Append(<<>>, x) = <<x>>
<1>1. IsTuple(<<>>, 0) BY DEF IsTuple
<1>2. Append(<<>>, x) = Longer(<<>>, 0, x) BY <1>1, AnyAppend
<1>3. Longer(<<>>, 0, x) = <<x>> BY DEF Longer
<1> QED BY <1>2, <1>3

\* Nothing has been read of the entry file when it is entered.
LEMMA BeginSoFar == IInv /\ SoFar /\ Begin => SoFar'
<1> SUFFICES ASSUME IInv, SoFar, Begin PROVE SoFar' OBVIOUS
<1>1. ~begun /\ begun' /\ Process(Entry, <<>>) /\ UNCHANGED <<project, merged>> BY DEF Begin
<1>2. stack = <<>> /\ merged = <<>> /\ diags = <<>> /\ project \in Projects BY <1>1 DEF SoFar, IInv
<1>3. Depth = 0 BY <1>2, EmptySeq DEF Depth
<1>4. ~IsOpen(Entry) /\ ~(Depth >= MaxNesting) BY <1>3, Nesting DEF IsOpen
<1>5. CASE ~CanRead(Entry)
  <2>1. Refusal(Entry) = "cannot open" BY <1>4, <1>5 DEF Refusal
  <2>2. stack' = <<>> /\ diags' = Append(<<>>, Diag(Entry, 0, "cannot open"))
    BY <1>1, <1>2, <2>1 DEF Process
  <2>3. Entry' = Entry /\ (CanRead(Entry)' <=> CanRead(Entry)) BY <1>1 DEF Entry, CanRead, Files
  <2>4. diags' = <<Diag(Entry, 0, "cannot open")>> BY <2>2, OneDiag
  <2>5. <<Diag(Entry, 0, "cannot open")>>' = <<Diag(Entry, 0, "cannot open")>> BY <1>1 DEF Entry, Diag
  <2> QED BY <1>1, <1>2, <1>5, <2>2, <2>3, <2>4, <2>5 DEF SoFar
<1>6. CASE CanRead(Entry)
  <2> DEFINE f == Frame(Entry)
  <2>1. Refusal(Entry) = "none" BY <1>4, <1>6 DEF Refusal
  <2>2. stack' = Append(<<>>, f) /\ UNCHANGED diags
    BY <1>1, <2>1 DEF Process
  <2>3. PICK nx, fs : nx = stack' /\ fs = files' OBVIOUS
  <2>4. f.path = Entry /\ f.line = 1 BY DEF Frame
  <2> HIDE DEF f
  <2>5. Len(nx) = 1 /\ nx[1] = f
    <3>1. <<>> \in Seq({f}) BY EmptySeq
    <3> QED BY <2>2, <2>3, <3>1, AppendProperties, EmptySeq
  <2>6. Linked(nx) BY <2>4, <2>5 DEF Linked
  <2>7. ASSUME NEW s \in AllPlaces PROVE Unread(nx, s)
    <3>1. PICK n \in 1..MaxNesting : WellPlaced(s, n) BY <1>2, PlaceDepth
    <3>2. Len(s.at) = n /\ s.at[1] \in Nat \ {0} /\ n >= 1
      BY <3>1, LengthAt, Nesting DEF WellPlaced
    <3>3. 1 \in 1..Len(nx) /\ \A j \in 1..1 - 1 : FALSE BY <2>5
    <3>4. s.at[1] >= nx[1].line BY <2>4, <2>5, <3>2
    <3> QED BY <3>1, <3>2, <3>3, <3>4, Nesting DEF Unread
  <2>8. ReadTexts(nx) = {} /\ ReadWrongs(nx) = {} BY <2>7 DEF ReadTexts, ReadWrongs
  <2>9. InNames(merged, fs) = <<>> BY <1>2, NoNames
  <2>10. Listed(nx, merged, fs, diags)
    BY <1>2, <2>8, <2>9, FS_EmptySet, EmptySeq DEF Listed, Lists
  <2> QED BY <1>1, <1>2, <1>6, <2>2, <2>3, <2>6, <2>10, SoFarNext
<1> QED BY <1>5, <1>6

LEMMA InitSoFar == IncludeInit => SoFar
BY DEF IncludeInit, SoFar

LEMMA NextSoFar == IInv /\ SoFar /\ [IncludeNext]_includeVars => SoFar'
<1> SUFFICES ASSUME IInv, SoFar, [IncludeNext]_includeVars PROVE SoFar' OBVIOUS
<1>1. CASE UNCHANGED includeVars
  <2>1. UNCHANGED <<project, begun, stack, files, merged, diags>> BY <1>1 DEF includeVars
  <2>2. CASE begun /\ CanRead(Entry)
    <3>1. PICK st, m, fs, ds : st = stack' /\ m = merged' /\ fs = files' /\ ds = diags' OBVIOUS
    <3>2. Linked(st) /\ Listed(st, m, fs, ds) /\ begun' BY <2>1, <2>2, <3>1 DEF SoFar
    <3> QED BY <2>1, <2>2, <3>1, <3>2, SoFarNext
  <2>3. CASE ~(begun /\ CanRead(Entry))
    <3>1. Entry' = Entry /\ (CanRead(Entry)' <=> CanRead(Entry)) BY <2>1 DEF Entry, CanRead, Files
    <3> QED BY <2>1, <2>3, <3>1 DEF SoFar, Diag
  <2> QED BY <2>2, <2>3
<1> QED
  BY <1>1, BeginSoFar, IncludeLineSoFar, MalformedLineSoFar, TextLineSoFar, EndOfFileSoFar DEF IncludeNext

\* A list of the diagnostics of some places says of each what it should.
LEMMA AboutsListed ==
  ASSUME project \in Projects, NEW V, NEW ds \in Seq(V), NEW W \in SUBSET AllPlaces, IsFiniteSet(W),
         Lists(ds, W, Placed)
  PROVE  Lists(Abouts(ds), W, Reported)
<1>1. Len(ds) = Cardinality(W) /\ Cardinality(W) \in Nat /\ DOMAIN ds = 1..Len(ds)
  BY FS_CardinalityType, LenProperties DEF Lists
<1>2. Len(Abouts(ds)) = Cardinality(W)
  <2> DEFINE n == Len(ds)
             U == {About(ds[k]) : k \in 1..n}
  <2>1. Abouts(ds) \in [1..n -> U] BY <1>1 DEF Abouts
  <2> HIDE DEF U
  <2>2. Abouts(ds) \in Seq(U) BY <1>1, <2>1
  <2> QED BY <1>1, <2>1, <2>2, LenProperties
<1>3. ASSUME NEW s \in W PROVE Abouts(ds)[1 + Cardinality({t \in W : Before(t, s)})] = Reported(s)
  <2> DEFINE B == {t \in W : Before(t, s)}
             k == 1 + Cardinality(B)
  <2>1. ds[k] = Placed(s) BY DEF Lists
  <2>2. s \notin B BY Irreflexive
  <2>3. IsFiniteSet(B) /\ Cardinality(B) < Cardinality(W) /\ Cardinality(B) \in Nat
    BY <2>2, FS_Subset, FS_CardinalityType
  <2>4. k \in DOMAIN ds BY <1>1, <2>3
  <2>5. About(Placed(s)) = Reported(s) BY DEF About, Placed, Reported, Diag
  <2>6. Abouts(ds)[k] = About(ds[k]) BY <2>4 DEF Abouts
  <2> QED BY <2>1, <2>5, <2>6
<1> QED BY <1>2, <1>3 DEF Lists

\* With no file open, nothing is left to read.
LEMMA AllRead == IInv /\ SoFar => (Preprocessed => Expanded)
<1> SUFFICES ASSUME IInv, SoFar, Preprocessed PROVE Expanded OBVIOUS
<1>1. begun /\ stack = <<>> /\ Len(stack) = 0 BY EmptySeq DEF Preprocessed
<1>2. \A s : ~Unread(stack, s) BY <1>1 DEF Unread
<1>3. /\ ReadTexts(stack) = {s \in AllPlaces : LineAt(s).kind = "text"}
      /\ ReadWrongs(stack) = {s \in AllPlaces : Wrong(s) # "none"}
  BY <1>2 DEF ReadTexts, ReadWrongs
<1>4. CASE CanRead(Entry)
  <2>1. Listed(stack, merged, files, diags) BY <1>1, <1>4 DEF SoFar
  <2>2. Lists(InNames(merged, files), {s \in AllPlaces : LineAt(s).kind = "text"}, Copied)
    BY <1>3, <2>1 DEF Listed
  <2>3. Lists(Abouts(diags), {s \in AllPlaces : Wrong(s) # "none"}, Reported)
    <3>1. PICK V : diags \in Seq(V) BY <2>1 DEF Listed
    <3>2. PICK W : W = ReadWrongs(stack) OBVIOUS
    <3>3. IsFiniteSet(W) /\ Lists(diags, W, Placed) BY <2>1, <3>2 DEF Listed
    <3>4. W \in SUBSET AllPlaces BY <3>2 DEF ReadWrongs
    <3>5. Lists(Abouts(diags), W, Reported) BY <3>1, <3>3, <3>4, AboutsListed DEF IInv
    <3> QED BY <1>3, <3>2, <3>5
  <2> QED BY <1>4, <2>2, <2>3 DEF Expanded
<1>5. CASE ~CanRead(Entry)
  <2>1. merged = <<>> /\ diags = <<Diag(Entry, 0, "cannot open")>> BY <1>1, <1>5 DEF SoFar
  <2>2. AllPlaces = {}
    <3> SUFFICES ASSUME NEW s \in AllPlaces PROVE FALSE OBVIOUS
    <3>1. PICK n \in 1..MaxNesting : WellPlaced(s, n) BY PlaceDepth DEF IInv
    <3> QED BY <1>5, <3>1 DEF WellPlaced
  <2>3. InNames(merged, files) = <<>> BY <2>1, NoNames
  <2>4. Lists(InNames(merged, files), {s \in AllPlaces : LineAt(s).kind = "text"}, Copied)
    BY <2>2, <2>3, FS_EmptySet, EmptySeq DEF Lists
  <2>5. Abouts(diags) = <<[path |-> Entry, why |-> "cannot open"]>>
    <3>1. PICK d, a : d = Diag(Entry, 0, "cannot open") /\ a = About(d) OBVIOUS
    <3>2. a = [path |-> Entry, why |-> "cannot open"] BY <3>1 DEF About, Diag
    <3>3. Abouts(<<d>>) = <<a>>
      <4>1. DOMAIN <<d>> = 1..1 /\ <<d>>[1] = d OBVIOUS
      <4>2. Abouts(<<d>>) = [k \in 1..1 |-> a]
        <5>1. \A k \in 1..1 : About(<<d>>[k]) = a
          <6> TAKE k \in 1..1
          <6>1. k = 1 OBVIOUS
          <6>2. <<d>>[k] = d BY <4>1, <6>1
          <6> QED BY <3>1, <6>2
        <5>2. Abouts(<<d>>) = [k \in 1..1 |-> About(<<d>>[k])] BY <4>1 DEF Abouts
        <5> HIDE DEF Abouts
        <5> QED BY <5>1, <5>2
      <4>3. [k \in 1..1 |-> a] = <<a>> OBVIOUS
      <4> QED BY <4>2, <4>3
    <3> QED BY <2>1, <3>1, <3>2, <3>3
  <2> QED BY <1>5, <2>4, <2>5 DEF Expanded
<1> QED BY <1>4, <1>5

\* When preprocess_file is through, for every project and every naming of files,
\* the merged text is every text line, once for each chain of #includes that
\* leads to it and in that order, and every other line that is not followed has
\* been reported, a refused #include with its path and the reason (Expanded).
THEOREM AlwaysExpanded == IncludeSpec => [](Preprocessed => Expanded)
<1>1. IncludeInit => IInv /\ SoFar BY InitInv, InitSoFar
<1>2. IInv /\ SoFar /\ [IncludeNext]_includeVars => IInv' /\ SoFar' BY NextInv, NextSoFar
<1> QED BY <1>1, <1>2, AllRead, PTL DEF IncludeSpec
=============================================================================
