# OrgitoCompiler in TLA+

OrgitoCompiler compiles a typed subset of C to bytecode and runs the bytecode
on a virtual machine with one flat memory. This directory is its verification
project: TLA+ modules translated from `src/src/*.c`, TLC configurations that
model-check them on small instances, and proofs for TLAPS.

`PROJECT.json` is the index: components, runs, the source lines behind every
definition, the findings, the hazards and the theorems. This file explains them.

## 1. The system

### Components

| Component | State it keeps | Operations | Modelled by |
|---|---|---|---|
| Preprocessor (`preprocess.c`) | the stack of open files; the source map (one entry per output line) | `preprocess_file`, recursive `process_file`, `sourcemap_resolve` | `Include`, `Expansion` |
| Diagnostics (`diag.c`) | one list for all passes; how much of it is printed | add, count, print | `Include`, `Driver` |
| Lexer (`lexer.c`) | position, current token, up to two tokens of lookahead | `lexer_next`, `lexer_peek`, `lexer_peek2` | `Cursor`, `Scanner`, `Lexer`, `Lexicon`, `TokenStream` |
| Parser (`parser.c`) | two nesting depths, counters of loops and switches, the AST built so far | recursive descent, resynchronisation | `Parser`, `Grammar` |
| Types (`types.c`) | interned pointer and array types, the struct table | size, alignment, layout, compatibility | `Types`, `Parser` (the table) |
| Type checker (`typecheck.c`) | scopes of names, signatures | annotates the AST, reports errors and warnings | `Typecheck` |
| Optimizer (`optimize.c`) | none: rewrites AST and bytecode | `optimize_ast`, `optimize_bytecode` | `Optimize` |
| Code generator (`codegen.c`) | bytecode, data segment, frame slots, scopes, stack of loops with jumps to patch | `codegen_program` | `Codegen` |
| Virtual machine (`vm.c`) | memory, operand stack, call stack, frame registers | `vm_execute`, one case per opcode, the natives | `Values`, `Vm`, `Verifier` |
| Heap (`vm.c`) | block headers and free list inside the machine's memory | `heap_init`, `vm_malloc`, `vm_free` | `HeapPromise`, `Heap`, `Memory`, `HeapMemory`, `HeapCells` |
| Driver (`main.c`) | the options, which pass is next | runs the passes in order | `Driver`, `FrontEnd`; `Parity` (both levels) |

The passes run one after the other, each on what the one before produced. They
share three things: the AST (annotated by the checker, rewritten by the
optimizer, read by the code generator), the bytecode with its data segment
(written by the code generator, rewritten by the optimizer, run by the machine),
and the list of diagnostics, which decides whether the next pass runs at all.
Inside the machine, the heap's headers, the frames, the globals and the
program's own data are regions of one byte array, and nothing but the code that
computes addresses keeps them apart.

### What is hard

Nothing runs concurrently and nothing is persisted. What is hard is:

* agreement between passes that never meet: the checker says a type, the code
  generator emits a tag, the optimizer folds with a literal's kind, the machine
  computes in the tag it finds. A value of the wrong width is not detected, it
  is used;
* long legal sequences: splits and releases in any order in a list that is never
  merged, nested calls, slots of left scopes used again, jumps patched at the
  end of the loop they belong to;
* values kept across a call: the destination of a struct result is pushed
  before the arguments are evaluated and used when the callee returns;
* going on after an error: the lexer behind a malformed literal, the parser
  behind a declaration it gave up on, the preprocessor behind an include it
  refused, with positions, counters and stacks as if nothing had happened;
* one list of diagnostics, printed in slices and tested after each pass;
* limits: operand stack, call stack, frame area, heap, nesting of files, fixed
  buffers of the lexer, integer widths.

What makes each part correct:

* **Heap**: blocks tile the arena, the free list is exactly the unused blocks,
  no call changes a block it is not about, and the program sees only what the
  promise of `malloc` and `free` allows, though it writes between the headers.
* **Machine**: frames lie end to end and the registers are the top frame's,
  whatever the bytecode.
* **Code generator and machine**: calls leave what they should on the operand
  stack, operands have the tags the opcode expects, accesses stay in live
  frames, a struct result goes to an older frame, loops end.
* **Optimizer**: the optimized program prints and ends as the plain one, and in
  no more steps.
* **Preprocessor**: the merged text is every line the includes lead to, in
  order; no file is open twice; every merged line resolves to its origin.
* **Lexer**: each token is the longest one there, an error is reported once and
  scanning goes on behind it, and looking ahead changes nothing that is read.
* **Parser**: it accepts the language of the README's grammar and builds its
  trees; after an error it always makes progress.
* **Checker and driver**: what reaches the code generator is fully typed and has
  no stray jump; the program ends as its diagnostics say, each printed once.

## 2. Modules

### Heap

`HeapPromise` is the abstract specification: live regions, and what `malloc` and
`free` may answer. `Heap` is the allocator at the level of blocks: `size` and
`inuse` are header fields, `free` is the chain of `next` fields from
`heap_free_head`, `last` the last call. `MallocFound` is the whole of
`vm_malloc` with a hit (the walk, the unlink, the split or not, the mark),
`MallocNull` the walk that reaches the end. `FreeNull`, `FreeBlock` and
`FreeRefused` are the three outcomes of `vm_free`.

`HeapMemory` has the same two functions as operators on memory, where a header
is three words of the memory programs write to; `HeapCells` is the state machine
around them, with an action `Store` for the program's own writes. It is shown
to implement `Heap` (`ImplementsHeap`), with blocks and list read off the
headers: `Starts` by stepping from header to header, `Chain` by following the
links from the head. Both are recursive functions of the cells, and `Memory`
says how a word lies in its cells. `Vm` uses the operators of `HeapMemory` in its natives, so the
allocator in the machine is the one checked here.

### Machine

`Values` is the value representation: tags, widths, conversions, arithmetic and
comparison as `vm.c` computes them, and the reading and writing of values as
cells of memory. `Vm` has one action per opcode, or per group of opcodes that
share a case; a fatal error is a value of `status`. `due` and `owed` are history
variables: the height of the operand stack each active call owes its caller, by
the function's declaration, and how far the last return was from it.

The machine trusts its bytecode: an instruction takes its operands, and the
tags they happen to have, as it finds them. `Verifier` says what bytecode must be
for that trust to be justified. It has the table of opcodes of `codegen.h` (what
each takes, what it leaves, where control goes next), and asks that every
instruction that can be reached has one shape of the operand stack, the same on
every path to it. `Shapes` claims those shapes; `Consistent` checks the claim, one
instruction at a time and without running anything. Nothing in the repository
does this; it is the invariant the code generator keeps without saying so.

### Preprocessor

`Include` has the calls of `process_file` in progress as a stack of files, each
with the line it has come to, and an action per kind of line: `IncludeLine` (with
`Process`: refused, for one of three reasons tested in the order of the code, or
entered), `MalformedLine`, `TextLine` and `EndOfFile`. `Resolve` is
`sourcemap_resolve`. `realpath` is the constant `Canonical`. `Expansion` says
what the includes of a project mean without a stack, as a set of places ordered
by their lines: `Expanded`, and the driver's `ExpandedAsWritten`, compare the
merged text and the diagnostics with those places.

### Lexer

`Cursor` is a place in a text and how `advance` moves it; its `KeepsTo` is what the
rest of the lexer relies on when a token has been scanned: the cursor is where
`advance` leads, further on unless the text has ended, and the errors are about
what was passed, in order and each a different one. `Scanner` is `scan_token`
and everything it calls, as operators from a position to a token, a position
and the errors reported. `Lexer` is the state machine
over it: the current token, the tokens looked ahead and the diagnostics, with an
action per function of `lexer.h`. Its scanner is a constant `Scan`, so that what
is proved of the lookahead holds for any. `TokenStream` is the abstract
specification: the tokens of the text, one after the other. `Lexicon` defines
the lexemes as sets of texts, from the README and the token kinds, and `Lexing`
puts the two together.

### Parser and checker

`Parser` has one operator per parsing function, on a parser state `p` with the
tokens, the position, the errors, the depths, the counters and what has been
declared; a result is left in `p.v`. `crashed` is a null operand read by
`eval_const_expr`, or its division that traps. `Grammar` derives the sentences
of the README's grammar with their trees, bottom up over their length, and does
not look at the parser. `Typecheck` has one operator per form, on an environment
of scopes; errors and warnings are kept in the order of the code. Types are
values of `Types`, whose equality is that of the interned pointers.

`Driver` composes these with the code generator: `phase` is where `main` is, and
an action is a step of the preprocessor, one turn of `parse_program`, or a pass.
What the passes compute are its constants, so that what is said of the
diagnostics can be proved for any; the configuration gives it `Parser`,
`Typecheck` and `Optimize`. `FrontEnd` states the properties. The tokens of a text line are given, so the
parser does not run on `Scanner`: the two meet in the sequence of tokens that
`Lexer` is proved to deliver.

### Compiler

`Types` (sizes, alignment, struct layout, compatibility) and `Ast` (the forms of
the AST) are what the passes share. `Codegen` is the code generator as operators
on a compilation state `c`, one operator per function or case, in the order the
instructions are emitted; jumps are emitted with an empty target and patched,
as in the code. `Compile` is `codegen_program` with `codegen_finish`. `Optimize`
is the optimizer on that AST and that bytecode; `CodeFor` and `Build` are the
driver's choice by level.

### Composition

`Vm` runs any set of programs (`Programs`). `MCVm` gives it what `Typecheck` and
`Compile` make of a set of sources, and `MCVerifier` finds their shapes by following
the code from its entries. `Parity` runs each program at `-O0` and, on a
new machine, at `-O1`; `MCParity` and `MCParityGlobal` give it the builds.
`FrontEnd` goes from the files of a project to the bytecode that is run.

Operators whose name ends in `Mutant` are deliberately broken variants of the
definition that follows them. No specification uses them. Putting one in the
place of its original makes a property fail, which shows that the property
depends on that line of the code; the pairs are listed in `PROJECT.json`.

## 3. Runs

| Run | What is asked | Properties |
|---|---|---|
| `Heap` | every order of calls on one arena | `TypeOK`, `Tiled`, `FreeListExact`, `NullMeansFull`, `LiveBlocksUntouched`, `KeepsPromise` |
| `HeapCells` | the same in memory, with stores by the program | `TypeOK`, `ListIsBlocks`, `ProgramDataKept`, `ImplementsHeap` |
| `Vm` | compiled programs of every form, ways out of loops, programs the machine stops | `TypeOK`, `FramesTile`, `CallsBalanced`, `TagsAgree`, `AccessesInsideFrames`, `ResultOutsideFrame`, `NoInternalFault`, `CompiledVerified`, `Halts` |
| `Lexer` | every short text, looked at and taken in every order | `TypeOK`, `LongestMatch`, `NeverStuck`, `ErrorsOnce`, `InOrder` |
| `FrontEnd` | projects, texts and options, from files to bytecode | `TypeOK`, `OpenOnce`, `SourceMapExact`, `ExpandedAsWritten`, `AcceptsTheGrammar`, `TurnsAdvance`, `NestingComesBack`, `JumpsHaveTargets`, `FullyTyped`, `CodeStaysInside`, `EndsAsReported`, `Finishes` |
| `Parity` | programs, unreachable code and constant expressions at both levels | `SameOutcome`, `NoSlower` |
| `HeapNarrow`, `VmVoid`, `VmNegate`, `VmIndex`, `ParityGlobal`, `NeverAborts` | disagreements with the repository's own statements, section 4 | one each |

### Bounds

* **Heap**: an arena of 20 units with headers of 3 and a smallest tail of 2, the
  order the code's 12 and 8 have. Up to four blocks exist, so a block is split
  twice, taken whole with a tail too small to split, released between two others
  and found behind a smaller one. Requests: negative (a huge one once
  narrowed), zero, two sizes, and one that only the untouched arena can serve.
  Pointers given to `free`: every block, live or not, NULL, and addresses below,
  in the first header of and past the arena.
* **HeapCells**: a word is one cell (`Word = 1`), a dozen cells of arena. Programs
  store a clear word and one that reads as a set flag or a header's address.
* **Machine**: a byte has four values (`Radix = 4`), so a char is -2..1, an int
  -128..127 and a long -32768..32767. Widths in bytes are the code's, hence also
  every offset and alignment; overflow is reached by ordinary literals. Memory
  is 200 bytes with the regions in the code's order. The limits are 20
  operands and five calls; recursive programs hit each of them.
* **Programs**: `MCVm` has two of structs (by value, by pointer, nested calls,
  a function with no return), four of arrays, pointers, strings, the heap and
  conversions, one of a function that falls off its end, twelve that the machine
  stops, and 64 loops: `while` or `for`
  round an `if` or a `switch` with every pair of break, continue, return and
  falling through. Between them every statement and expression form is compiled
  and every opcode and native runs. `CompiledVerified` is about the paths of a
  program that its one execution does not take, too. `MCParity` adds 64 loops with code after
  the jumps, and all 10 125 expressions of two binary operators out of nine
  over literals of char, bool, int and long, 81 more under a minus.
* **Lexer**: all texts of up to five characters over those that numbers, strings,
  character literals and comments are made of, up to three over operators, up
  to four over words: 23 963 texts. Identifiers hold three characters, strings
  two, numbers four, and an int ends at 99 and a long at 999, so that every
  truncation and widening occurs; each text is read with every mixture of takes
  and looks.
* **FrontEnd, grammar**: seven parts of the grammar (binary operators, casts,
  postfix, if and else, loops, switches, declarations), each with its own words:
  every sentence up to a length (5 for expressions, 8 to 16 for statements),
  nearly all of them also with one token removed, and for expressions and
  declarations every sequence of three words. `Grammars` holds all derivations
  up to that length, so a text that no derivation has is one the parser must
  refuse.
* **FrontEnd, programs**: two programs with every kind of declaration, with each
  token removed, replaced by, and preceded by each of sixteen others; a jump in
  three nested statements, some malformed; array lengths of three tokens,
  the lengths that fill the data segment and go one element beyond, one of more
  than half of what 32 bits count, and two of exactly that half; parentheses up to five deep in two functions. The parser's limit of 2000 nested
  expressions or statements is 4 (`MaxDepth`): no grammar sentence of an
  expression is that deep, but the parentheses and the nested jumps are.
* **FrontEnd, files**: up to four files that include each other, themselves,
  what does not exist, and one another under several spellings, with a limit
  of three open files, so that each reason to refuse one occurs.
* **FrontEnd, options**: every combination of level, `-Werror` and what to emit,
  over programs with no diagnostic, each warning, and an error that only code
  generation finds.

Deadlock is checked in `FrontEnd`, `NeverAborts` and `Lexer`. `CHECK_DEADLOCK FALSE`
stands in the other configurations, whose system really stops: a machine that has
halted, or that has been stopped, takes no more steps.

### Fairness

`Halts` and `Finishes` need it. The machine is one loop that executes the next
instruction until a HALT or a fatal error, and nothing else decides whether it
goes on, so `Vm!Spec` has weak fairness of `Next`. The compiler is one thread
that waits for nothing (the one loop it may never leave is modelled as a phase
that only stutters), so `Driver!Spec` has weak fairness of its steps; it is
written out (`Fairness`) because finding ENABLED of a step that parses would
parse each text once more. The allocator, the lexer and `Parity` state no
liveness: a program need not call `malloc`, a parser need not ask for another
token, and `NoSlower` bounds the optimized build by the plain one's length
without any fairness.

## 4. Where the code and its statements differ

Each is a run that TLC ends with a counterexample.

* `HeapNarrow`: `malloc` takes a long and narrows it to 32 bits. `malloc(4294967297)`
  succeeds with one byte; the README promises NULL on failure.
* `VmVoid`: a void function gets the tag of int, so it returns a zero that the
  statement calling it does not pop. `1 + g()` with a void call inside `g` adds
  the wrong two operands.
* `VmNegate`: the machine negates in the operand's tag; the checker calls the
  result an int. `-c + 200` is computed in a char. The optimizer folds a literal
  `-'a'` into an int context instead, so `print(-'a' + 300)` also differs between
  the two levels; `MCParity` therefore has no char or bool under a minus.
* `VmIndex`: an index, or what is added to a pointer, is cast to int only when it
  is a long. With a char `c`, `ptr[c]` and `ptr + c` compute the byte offset in a
  char, so that `ptr[33]` of an array of ints is another element; a bool offset is
  0 or 1. `arr[c]` on an array hands the bounds check a char. The table of
  opcodes gives arithmetic two operands of one tag, and an index the tag of int.
* `ParityGlobal`: an initialiser of a global is evaluated in 64 bits at `-O0` and
  folded in its own width at `-O1`: `int g = (2147483647 + 1) / 2;` has two values.
  The tests say both levels print the same.
* `NeverAborts`: the parser evaluates a constant expression though parsing an
  operand has failed. `int a[-];` and `case -:` read a null pointer, as does
  `sizeof(struct Unknown)` in a length, and the compiler ends with nothing
  printed. `parser.h` says that it never aborts.

Every other run leaves these inputs out, and says so where it does: programs of
`Vm` call no void function, negate no char or bool, and index and offset pointers
with ints and longs only (the verifier refuses the others, those of `VmVoid`,
`VmNegate` and `VmIndex`, so `TagsAgree` and `CompiledVerified` hold of the rest);
the programs of `HeapCells` free only what `malloc` returned or may return, NULL,
and addresses outside the arena. `FrontEnd` keeps the texts that crash:
a crash is an ending there, and what `EndsAsReported` says is about the others.
It also keeps a text with which the compiler never comes to an end (below), and
`Finishes` names such texts as its exception.

Reading the code against its documents also showed the following, which no run
is about:

* globals and strings of more than 2^31 bytes, `int a[536870913];`, never compile:
  the capacity of the data segment is doubled until it is enough, and becomes 0
  (`codegen.c:74`; `DataAlloc`, and the phase `spins` of `Driver`). Two arrays of
  2^31 bytes make a segment of size 0, which is not found too large.
* a refused include is reported against the path that was to be included, at
  line 0; the README has a missing file reported against the line that tried to
  include it. `Expansion` asks for the path, the reason and the order of these
  reports, and leaves open which line they name.
* `free` of an address inside the arena that `malloc` never returned is accepted
  when the word 4 bytes below it, data of the program or another field of a
  header, is not 0, and the list then leads to a block that does not exist; the
  README promises a fatal error for any invalid pointer.
* a quote right after the closing quote of a string is taken with it:
  `print("a"")` compiles; and `'''` is a character literal. `Lexicon` has both
  as rules of the code.
* an integer literal that fits no long becomes some long, with no error.
* `mk().n` on a call that returns a struct, a cast to a struct type, and a `main`
  with parameters are accepted and end in an operand stack underflow; an
  assignment of arrays stores an address in the first element.
* any pointer can be assigned to any pointer; the README asks for a cast.
* a least long divided by -1 ends the host process.
* `int x = x;` is checked against the outer `x` and compiled with the inner one;
  `a[f()] += 4` calls `f` twice.
* whether a switch always returns does not look at a `break` inside its cases.
* `--emit-ast` prints after the type checker and the optimizer; the usage says
  before.
* `bool b = 1 < 2;` at file scope is an error at `-O0` and compiles at `-O1`.
* the README's grammar asks for a `;` after a struct, for at least one member and
  for a length: the parser asks for none of them. It has no depth guard on
  chains of unary operators and casts.
* an error at the end of the text names the entry file with the number of the
  merged line.

## 5. Proofs

`HeapProofs` holds for every arena, header size, smallest tail, word size and set
of requests that `HeapAssumption` allows.

* The inductive invariant is `IInv == TypeOK /\ Tiled /\ FreeListExact`. None
  is inductive alone: a split keeps the tiling only because the block on the
  list is a block (`FreeListExact`) and has the size it says, and the list stays
  exact only because the remainder's address is new, which is the tiling.
  `InitInv` and `NextInv` are its two halves; `TakeFrontInv` (the split),
  `TakeWholeInv` and `FreeBlockInv` the cases of the second, over lemmas on
  unlinking and pushing in sequences without repetition.
* From it: `TypeCorrect`, `AlwaysTiled`, `FreeListAlwaysExact`,
  `NullOnlyWhenFull` and `OthersUntouched`.
* `ImplementsPromise`: `Heap` implements `HeapPromise` under `NoNarrowing`, which
  says that every request is below 2^32. Without that assumption the statement
  is false, as `HeapNarrow` shows. Each action maps to an action of the promise;
  `GrantStep` shows that the region is fresh and large enough.

`MemoryProofs` is about words: `ReadBack` says that a word stored in memory reads
back as its value modulo the word, and that no other cell changes, for every
number of cells in a word and of values in a cell. Reading and writing are
recursive functions of the cell's number; `Recursion` shows that such a function
exists, because each of its finite parts does, and `UpTo` is the induction, over
a set of numbers.

`HeapCellsProofs` joins the two: whatever the program stores in the regions it
holds, the header words in memory implement the allocator of blocks.

* `IInv == Holds(mem, heapFreeHead, Starts, Chain)`: the walk from header to header
  meets blocks that lie end to end (`Layout`), and the links from the head lead
  through the unused ones, once each, to NULL (`Listed`, `Links`). `TypeOK` and
  `ListIsBlocks` are not inductive: they say nothing of the sizes, and it is the
  sizes that keep a store of the program, and the header a split writes, out of
  the other headers.
* The headers of a set of blocks are read as three functions of it (`Fields`). A
  call is then a few changes of those functions at one block, and what they say
  of the arena and of the list is shown without memory. The same layout and list
  must be what the walks find again afterwards, in the changed memory: there is
  only one of each (`StartsAre`, `ChainIs`).
* `CellsAssumption` asks that the arena's addresses fit a word (as `memlayout.h`
  has it), that a word holds nothing beyond its cells, and that a wild pointer is
  no address of a region.
* From it: `CellsTypeCorrect`, `ListStaysBlocks`, `DataAlwaysKept` (no `malloc` or
  `free` writes a cell the program holds) and the refinement
  `CellsImplementBlocks`. Through the refinement the theorems of `HeapProofs` hold
  of the memory: `CellsTile`, `CellsNullOnlyWhenFull`, and `CellsKeepPromise`,
  which goes from the words in memory to the promise of `malloc` and `free`.

`VmProofs` holds for every bytecode whose jumps and calls have targets
(`ProgramsAssumption`: the machine tests neither), every memory size and every
limit of the stacks.

* `FramesAlwaysTile`, with the invariant `FInv == FrameTypes /\ FramesTile`. What a
  call and a return do to the frames is stated on constants (`PushTiles`,
  `PopTiles`); every other action leaves the frame variables alone (`Keeps`), shown
  per group of actions.
* `VmTypeCorrect`: neither stack passes its limit, memory keeps its size and the
  current function exists, whatever the instructions. `Bounded` is the invariant
  of the two stacks and of memory: each action is refused, replaces operands by
  one result, or writes memory, and the tests of the code (`push`, `BC_CALL`) are
  enough for each; a call writes its arguments one after the other, an induction
  on them (`ParamsDomain`). That the function exists comes from the frames' tiling
  (`FInv`), since a return takes it from the frame below.
* `VerifiedNeverFaults`, `VerifiedCallsBalance` and `VerifiedTagsAgree`: a compiled
  program that is verified never finds its operand stack empty or runs off its
  code, its calls leave what they should, and its operands have the tags their
  instructions expect, on every path and for every memory size and limit. The
  code generator is out of the prover's reach, so its part is a hypothesis,
  `CompiledVerified`, that a run checks of each program it compiles; the machine's
  part is proved. The three properties are not inductive: they say nothing
  of the operands below the top, which the instructions after a return will take.
  The invariant, `Shaped`, is that the operands of the active calls lie end to end,
  like their frames: the running function's have the shape of the next
  instruction, and a caller waits with the shape of the instruction it will go on
  at, less what the call owes it (`Waits`). An instruction changes only the last
  of these (`WithinFunction`), a call adds one (`CallSound`), and a return joins two
  (`RetSound`, `HandedBack`).

`ScannerProofs` proves `ScannerKeepsTo`: from every place in every text that ends
in a newline, well formed or not, the scanner keeps to `KeepsTo`. `Scannable` is
what it asks: that newline, which `process_file` appends to every line, that NUL
is no letter, and a buffer for strings. Comments, strings and characters that
begin no token make the scanner recursive over positions. `Solution` shows that
the equations of those functions have solutions, built from the end of the text
backwards, and `Backwards` is the induction. One lemma per `scan_` function says
where it ends and between which positions it reports (`Reports`), and joining
two such lists keeps the order (`ReportsJoin`).

`LexerProofs` is about the lookahead, for every text and every scanner.

* `ImplementsStream`: `Lexer` implements `TokenStream`. `Buffered` is the inductive
  invariant: what is looked ahead is what scanning on from behind the current
  token gives (`Holds`), which a take that forgets to move the second token up,
  or a look that scans twice, breaks one or two calls later. `TakeInOrder` and
  `LookInOrder` are its two cases, `StepInOrder` joins them with the step of the
  promise.
* `LexerTypeCorrect`, `LexerNeverStuck` and `ErrorsReportedOnce`, for every scanner
  that keeps to `KeepsTo` (`ScansWell`). `ErrorsOnce` is not inductive: that the next
  scan reports nothing again needs that what was reported is before the cursor,
  and the cursor a place that `advance` leads to (`Told`).
* `LexerOfTheCode`, at the end of `ScannerProofs`, puts `Scanner` in for that
  scanner: the three hold of the code's lexer, for every text that ends in a
  newline and every limit.

`IncludeProofs` holds for every project, every naming of files and every nesting
limit.

* `AlwaysOpenOnce` and `SourceMapAlwaysExact`. `IInv` adds to the two that every open
  file is in the list of files under its own index and could be read
  (`EnteredIn`): what a merged line resolves to was settled when its file was
  entered, so the map is only as good as that index. One lemma per action.
* `AlwaysExpanded`: when `preprocess_file` is through, the merged text is every text
  line of the project, once for each chain of includes that leads to it and in
  their order, and every line that was not copied or followed has its
  diagnostic, a refused include with its path and the reason. `Expanded` is about the end only. On the way, the stack divides the
  places into those read and those still to come (`Unread`): the text and the
  diagnostics list the first kind (`Listed`), and each open file is there because
  of an include at the place below it (`Linked`). One line takes exactly its own
  place out of the second kind (`OneRead`), all that is listed comes before it
  (`ReadBefore`), and at the end of a file nothing is left of it (`NoneLeft`).
  `PlacesAt` is recursive: `PlacesExist` builds a solution of its equation and
  `PlacesUnfold` derives the equation from it. `IncludeAssumption` asks that a file is a
  sequence of lines and the nesting limit is not 0.

`DriverProofs` proves `AlwaysEndsAsReported` whatever the passes compute, as long as
each reports in a list (`PassesReport`, a conjunct of `FrontEnd!TypeOK`, which the
run checks of the actual ones). `EndsAsReported` is about the last state only; the
invariant says what is so on the way there: what has been printed is the
beginning of the list (`Printed`), and what each phase knows of the list
(`Judged`). `DriverOpensOnce`, `DriverMapsExactly` and `DriverExpands` carry the
theorems about the preprocessor into the driver, where text and map are used: no
later pass changes what the preprocessor left.

Only model-checked, and why:

* liveness (`Halts`, `Finishes`), which the prover does not handle;
* that the code generator's output is verified (`CompiledVerified`), and the parity
  of the levels (`SameOutcome`, `NoSlower`): the generator and the optimizer are
  recursive over the AST, an induction over data;
* `AccessesInsideFrames` and `ResultOutsideFrame`: they depend on the pointers a
  program keeps in memory, of which tags and shapes say nothing;
* what is said of the parser, the checker and the grammar, for the same reason:
  `AcceptsTheGrammar`, `NestingComesBack`, `TurnsAdvance`, `JumpsHaveTargets`,
  `FullyTyped`, `CodeStaysInside`, and `FrontEnd!TypeOK`, which is about them;
* `LongestMatch`, which compares the scanner with lexemes defined as sets of texts
  built by length, an induction over them.

## 6. Not modelled

* Floating point: the values of literals, tags, opcodes' float branches, folding,
  the checker's cases for them. TLA+ has no floats, and no property here is
  about them. The lexer's rules for their spelling are modelled.
* Growth of the buffers for code and constants, a host that is out of memory,
  memory management of the AST, printing of the
  AST and of bytecode, the wording of diagnostics and their columns after the
  lexer, the interning caches of types, the reading of the command line.
* The spelling of an `#include` line: a line is a directive, malformed, or text.
* Names as the code generator and the checker resolve them are each modelled but
  not compared: neither records its answer in the AST.
* Addresses a program makes up by arithmetic beyond what the programs of `MCVm`
  do: a program that overwrites headers has no defined behaviour.
* Opcodes are records with their operands rather than words of one array;
  distances between instructions therefore differ, targets do not.

## 7. Plan

Done: (1) `HeapPromise`, `Heap`, `HeapCells`, and proofs of both down to the words
in memory; (2) `Values`, `Vm`, `Types`, `Ast`, `Codegen`, `Verifier`, and the
proofs about frames, limits and verified bytecode; (3) `Optimize`, `Parity`; (4) `Include` and `Expansion`,
`Cursor`, `Scanner`, `Lexer` and `Lexicon`, with proofs; (5) `Parser`, `Grammar`,
`Typecheck`, `Driver` and `FrontEnd`, with the proof about the diagnostics.

Next, in this order:

1. Proofs: `LongestMatch`, form by form, over the lemmas of `ScannerProofs`;
   `StructLayout` over `Types`: fields do not overlap, offsets are aligned, as long
   as sizes stay below 2^32; shapes that also say which operands point into
   frames, for `ResultOutsideFrame`.
2. `Source`: a reference evaluation of the typed AST, and `OutputAsWritten`: the
   machine prints what the source means. It takes over the hazards on
   indices and on the scope of an initialiser.
