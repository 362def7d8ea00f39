------------------------------ MODULE Include ------------------------------
(***************************************************************************)
(* The preprocessor (src/src/preprocess.c).  process_file calls itself for *)
(* each #include line: the calls in progress are a stack of files, each    *)
(* with the line it has come to.  The lines that are not directives are    *)
(* copied to the merged text, and the source map keeps the file and line   *)
(* each of them came from.                                                 *)
(*                                                                         *)
(* A path is a sequence of names, the directory before the file.  A line   *)
(* is [kind |-> "text", ...], [kind |-> "malformed"], or [kind |->         *)
(* "include", path |-> the path between the quotes].                       *)
(***************************************************************************)
EXTENDS Integers, Sequences

CONSTANTS Projects,      \* what is compiled: records with the path of the entry
                         \* file and files, the lines of each canonical path
          Canonical(_),  \* realpath: one path for each file
          MaxNesting     \* files that may be open at once (64)

ASSUME IncludeAssumption ==
  /\ MaxNesting \in Nat \ {0}
  /\ \A p \in Projects : \A f \in DOMAIN p.files :
       Len(p.files[f]) \in Nat /\ DOMAIN p.files[f] = 1..Len(p.files[f])

VARIABLES project,   \* the project being compiled
          begun,     \* preprocess_file has been called
          stack,     \* IncludeStack, with process_file's locals
          files,     \* SourceMap.files: the display name of each file entered
          merged,    \* SourceMap.map, with the text of each merged line
          diags      \* DiagList: a line of 0 is the file as a whole

includeVars == <<project, begun, stack, files, merged, diags>>

-----------------------------------------------------------------------------
Entry == project.entry
Files == project.files

\* fopen and fseek on the path as spelled: they reach the canonical file.
CanRead(path) == Canonical(path) \in DOMAIN Files
LinesOf(path) == Files[Canonical(path)]

\* directory_of and join_path: relative to the including file.
Child(path, rel) == SubSeq(path, 1, Len(path) - 1) \o rel

Depth == Len(stack)
Active == stack[Depth]
Line == LinesOf(Active.path)[Active.line]
InFile == stack # <<>> /\ Active.line <= Len(LinesOf(Active.path))
AtLine(kind) == InFile /\ Line.kind = kind

\* The stack once the active file has gone past its line.
Advanced == [stack EXCEPT ![Depth].line = @ + 1]

Frame(path) == [path |-> path, canonical |-> Canonical(path), file |-> Len(files) + 1, line |-> 1]

\* Why process_file gives up on a path, in the order of its tests.
IsOpen(path) == \E k \in 1..Depth : stack[k].canonical = Canonical(path)
RefusalMutant(path) ==                  \* the path as spelled is compared
  IF \E k \in 1..Depth : stack[k].path = path THEN "cycle"
  ELSE IF ~CanRead(path) THEN "cannot open"
  ELSE IF Depth >= MaxNesting THEN "too deep"
  ELSE "none"
Refusal(path) ==
  IF IsOpen(path) THEN "cycle"
  ELSE IF ~CanRead(path) THEN "cannot open"
  ELSE IF Depth >= MaxNesting THEN "too deep"
  ELSE "none"

Diag(path, line, why) == [file |-> path, line |-> line, why |-> why]

\* process_file(path), called from the line that callers has just passed.
Process(path, callers) ==
  IF Refusal(path) = "none"
  THEN /\ stack' = Append(callers, Frame(path))
       /\ files' = Append(files, path)
       /\ UNCHANGED diags
  ELSE /\ stack' = callers
       /\ diags' = Append(diags, Diag(path, 0, Refusal(path)))
       /\ UNCHANGED files

-----------------------------------------------------------------------------
IncludeInit ==
  /\ project \in Projects
  /\ begun = FALSE
  /\ stack = <<>>
  /\ files = <<>>
  /\ merged = <<>>
  /\ diags = <<>>

\* preprocess_file
Begin ==
  /\ ~begun
  /\ begun' = TRUE
  /\ Process(Entry, <<>>)
  /\ UNCHANGED <<project, merged>>

IncludeLine ==
  /\ AtLine("include")
  /\ Process(Child(Active.path, Line.path), Advanced)
  /\ UNCHANGED <<project, begun, merged>>

MalformedLine ==
  /\ AtLine("malformed")
  /\ stack' = Advanced
  /\ diags' = Append(diags, Diag(Active.path, Active.line, "malformed"))
  /\ UNCHANGED <<project, begun, files, merged>>

\* The line, the file it is in, and its number there.
CopyLineMutant ==                       \* the number the next line has
  [text |-> Line, file |-> Active.file, line |-> Active.line + 1]
CopyLine == [text |-> Line, file |-> Active.file, line |-> Active.line]

TextLine ==
  /\ AtLine("text")
  /\ merged' = Append(merged, CopyLine)
  /\ stack' = Advanced
  /\ UNCHANGED <<project, begun, files, diags>>

LeaveFileMutant == SubSeq(stack, 1, 1)  \* straight back to the entry file
LeaveFile == SubSeq(stack, 1, Depth - 1)

EndOfFile ==
  /\ stack # <<>> /\ ~InFile
  /\ stack' = LeaveFile
  /\ UNCHANGED <<project, begun, files, merged, diags>>

IncludeNext == Begin \/ IncludeLine \/ MalformedLine \/ TextLine \/ EndOfFile

Preprocessed == begun /\ stack = <<>>

\* A recursion that nothing interrupts.
IncludeSpec == IncludeInit /\ [][IncludeNext]_includeVars /\ WF_includeVars(IncludeNext)

-----------------------------------------------------------------------------
\* sourcemap_resolve: a line past the last one is left as it is, in the entry.
Resolve(n) ==
  IF n \in DOMAIN merged THEN [file |-> files[merged[n].file], line |-> merged[n].line]
  ELSE [file |-> IF files = <<>> THEN <<>> ELSE files[1], line |-> n]

-----------------------------------------------------------------------------
\* No file is open twice: a file that includes itself, however its path is
\* spelled, is refused, and every error path leaves the stack as it found it
\* (process_file).
OpenOnce ==
  /\ Depth <= MaxNesting
  /\ \A j, k \in 1..Depth : j # k => stack[j].canonical # stack[k].canonical

\* A merged line resolves to a file and a number at which that very line
\* stands (sourcemap_resolve, and sourcemap_line_text for the excerpt under a
\* diagnostic).
SourceMapExact ==
  \A n \in DOMAIN merged :
    LET at == Resolve(n)
    IN /\ CanRead(at.file) /\ at.line \in DOMAIN LinesOf(at.file)
       /\ LinesOf(at.file)[at.line] = merged[n].text
=============================================================================
