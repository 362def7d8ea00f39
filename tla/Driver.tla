------------------------------- MODULE Driver -------------------------------
(***************************************************************************)
(* The driver (main in src/src/main.c): preprocess, parse, type check,     *)
(* optimise, generate code and run, until a phase has left an error in the *)
(* one list of diagnostics they share.                                     *)
(*                                                                         *)
(* A text line of a project holds the tokens of that line.  The lexer is   *)
(* Lexer.tla; here the parser reads all the tokens of the merged text,     *)
(* and each of them knows the merged line it is on.                        *)
(*                                                                         *)
(* The passes are constants: what is said here of the diagnostics holds    *)
(* whatever they compute.                                                  *)
(***************************************************************************)
EXTENDS Expansion
LOCAL INSTANCE SequencesExt

CONSTANTS ParserFor(_),   \* parser_init on the tokens: ParserOf of Parser
          AtEnd(_),       \* the parser is at the end of the text: AtEof of Parser
          TopDecl(_),     \* ParseTopDecl of Parser
          ProgramOf(_),   \* the Program a parser has built: Parsed of Parser
          Checked(_),     \* TypecheckProgram of Typecheck
          Built(_, _)     \* optimise and generate code, at -O0 or -O1: Optimize

VARIABLES phase,     \* what main does next, or how it has ended, or "spins"
          parser,    \* the Parser
          program,   \* the Program: parsed, then with its types
          bytecode,  \* the Bytecode
          shown      \* the diagnostics printed so far (g_diags_printed of them)

compileVars == <<parser, program, bytecode>>
vars == <<includeVars, phase, compileVars, shown>>

Endings == {"exit 0", "exit 1", "run", "crash"}

-----------------------------------------------------------------------------
\* The tokens of the merged text, and the merged line of each.
Tokens == FlattenSeq([n \in DOMAIN merged |-> merged[n].text.tokens]) \o <<"EOF">>
TokenLines ==
  FlattenSeq([n \in DOMAIN merged |-> [k \in DOMAIN merged[n].text.tokens |-> n]])
    \o <<Len(merged) + 1>>

\* perror_at: where the token of an error is.
Located(e) == LET at == Resolve(TokenLines[e.at]) IN Diag(at.file, at.line, e.why)

\* What the later phases say is not given a place here.
WarningKinds == {"unused variable", "unreachable code", "control reaches the end"}
Unplaced(whys) == [k \in DOMAIN whys |-> Diag(<<>>, 0, whys[k])]

\* diag_has_errors, diag_has_warnings, and main's test of the two
HasErrors(list) == \E k \in DOMAIN list : list[k].why \notin WarningKinds
HasWarnings(list) == \E k \in DOMAIN list : list[k].why \in WarningKinds
FatalMutant(list) == HasErrors(list)            \* -Werror is not looked at
Fatal(list) == HasErrors(list) \/ (project.werror /\ HasWarnings(list))

\* flush_diags: what the list has gained since it was last printed.
FlushedMutant(list) == shown \o SubSeq(list, Len(shown) + 2, Len(list))   \* one too far
Flushed(list) == shown \o SubSeq(list, Len(shown) + 1, Len(list))

-----------------------------------------------------------------------------
Init ==
  /\ IncludeInit
  /\ phase = "preprocess"
  /\ parser = ParserFor(<<"EOF">>)
  /\ program = ProgramOf(parser)
  /\ bytecode = [code |-> <<>>, funcs |-> <<>>, image |-> <<>>, spins |-> FALSE, errors |-> 0]
  /\ shown = <<>>

Preprocess ==
  /\ phase = "preprocess"
  /\ IncludeNext
  /\ UNCHANGED <<phase, compileVars, shown>>

\* preprocess_file has returned.
StopAtIncludes ==
  /\ phase = "preprocess" /\ Preprocessed
  /\ HasErrors(diags)
  /\ phase' = "exit 1"
  /\ shown' = Flushed(diags)
  /\ UNCHANGED <<includeVars, compileVars>>

StartParser ==
  /\ phase = "preprocess" /\ Preprocessed
  /\ ~HasErrors(diags)
  /\ phase' = "parse"
  /\ shown' = Flushed(diags)
  /\ parser' = ParserFor(Tokens)
  /\ UNCHANGED <<includeVars, program, bytecode>>

\* One turn of parse_program.  A crash leaves nothing printed.
ParseTop ==
  /\ phase = "parse" /\ ~AtEnd(parser)
  /\ \E p \in {TopDecl(parser)} :
       /\ parser' = p
       /\ phase' = IF p.crashed THEN "crash" ELSE phase
       /\ LET new == SubSeq(p.errors, Len(parser.errors) + 1, Len(p.errors))
          IN diags' = diags \o [k \in DOMAIN new |-> Located(new[k])]
  /\ UNCHANGED <<project, begun, stack, files, merged, program, bytecode, shown>>

EndOfText ==
  /\ phase = "parse" /\ AtEnd(parser)
  /\ program' = ProgramOf(parser)
  /\ shown' = Flushed(diags)
  /\ phase' = IF HasErrors(diags) THEN "exit 1" ELSE "typecheck"
  /\ UNCHANGED <<includeVars, parser, bytecode>>

Typecheck ==
  /\ phase = "typecheck"
  /\ \E c \in {Checked(program)} :
       /\ program' = c.program
       /\ diags' = diags \o Unplaced(c.errors) \o Unplaced(c.warnings)
  /\ shown' = Flushed(diags')
  /\ phase' = IF Fatal(diags') THEN "exit 1" ELSE "generate"
  /\ UNCHANGED <<project, begun, stack, files, merged, parser, bytecode>>

\* --emit-ast
DumpAst ==
  /\ phase = "generate" /\ project.emit = "ast"
  /\ phase' = "exit 0"
  /\ UNCHANGED <<includeVars, compileVars, shown>>

Generate ==
  /\ phase = "generate" /\ project.emit # "ast"
  /\ \E b \in {Built(program, project.level)} :
       /\ ~b.spins
       /\ bytecode' = b
       /\ diags' = diags \o Unplaced([k \in 1..b.errors |-> "cannot be compiled"])
  /\ shown' = Flushed(diags')
  /\ phase' = IF Fatal(diags') THEN "exit 1"
              ELSE IF project.emit = "bytecode" THEN "exit 0" ELSE "run"
  /\ UNCHANGED <<project, begun, stack, files, merged, parser, program>>

\* The code generator does not come back.
GenerateSpins ==
  /\ phase = "generate" /\ project.emit # "ast"
  /\ \E b \in {Built(program, project.level)} : b.spins
  /\ phase' = "spins"
  /\ UNCHANGED <<includeVars, compileVars, shown>>

\* The process is gone, or spins.
Ended == phase \in Endings \cup {"spins"} /\ UNCHANGED vars

Next ==
  \/ Preprocess \/ StopAtIncludes \/ StartParser \/ ParseTop \/ EndOfText
  \/ Typecheck \/ DumpAst \/ Generate \/ GenerateSpins \/ Ended

\* One thread, which nothing holds up but itself.  Written out for the phases after the
\* preprocessor, whose steps always change something: it is WF_vars(Next), for
\* which TLC would parse each text many times over to find ENABLED.
Fairness ==
  /\ WF_vars(Preprocess \/ StopAtIncludes \/ StartParser)
  /\ <>[](phase \notin Endings \cup {"preprocess", "spins"}) => []<><<Next>>_vars
Spec == Init /\ [][Next]_vars /\ Fairness

-----------------------------------------------------------------------------
\* What the next pass will say is a list: all that is asked of a pass below.
IsList(s) == Len(s) \in Nat /\ DOMAIN s = 1..Len(s)
PassesReport ==
  /\ phase = "parse" /\ ~AtEnd(parser) => IsList(parser.errors) /\ IsList(TopDecl(parser).errors)
  /\ phase = "typecheck" => IsList(Checked(program).errors) /\ IsList(Checked(program).warnings)
  /\ phase = "generate" => Built(program, project.level).errors \in Nat

\* Once process_file is back from the entry file, the merged text is every
\* text line of the project, once for each chain of #includes that leads to
\* it, and every #include that was not followed has been reported, with its
\* path and the reason (process_file; not where: see Reported).
ExpandedAsWritten == phase = "preprocess" /\ Preprocessed => Expanded

\* However main ends, it has printed each diagnostic once, and its exit status
\* is 1 exactly if one of them is an error, or a warning under -Werror
\* (flush_diags, and the tests of the list after each phase, which share it).
EndsAsReported ==
  phase \in Endings \ {"crash"} =>
    /\ shown = diags
    /\ (phase = "exit 1") <=>
         \E k \in DOMAIN shown :
           project.werror \/ shown[k].why \notin WarningKinds
=============================================================================
