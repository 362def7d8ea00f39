----------------------------- MODULE HeapCells ------------------------------
(***************************************************************************)
(* The allocator as it lies in memory, with the program writing into the   *)
(* regions it holds.  Heap abstracts it: its blocks, flags and free list   *)
(* are read off the headers here.                                          *)
(*                                                                         *)
(* A program writes only inside its live regions (writing elsewhere is     *)
(* undefined in the language as in C), and frees only what malloc returned *)
(* or may return, NULL, and addresses outside the arena.                   *)
(***************************************************************************)
EXTENDS HeapMemory, Sequences

CONSTANTS Requests,       \* arguments of malloc
          WildPointers,   \* addresses outside the arena given to free
          Stored,         \* words the program stores in its regions
          WordMod         \* Radix ^ Word

VARIABLES mem, heapFreeHead, last

vars == <<mem, heapFreeHead, last>>

ArenaEnd == HeapBase + HeapSize
Arena == HeapBase..ArenaEnd - 1

\* An address or a size of the arena fits in a header field (uint32_t).
ASSUME CellsAssumption ==
  /\ HeapBase \in Nat \ {0} /\ Word \in Nat \ {0}
  /\ HeapSize \in Nat /\ HeapSize > HdrSize
  /\ WordMod \in Nat /\ ArenaEnd < WordMod
  /\ \A v \in 0..WordMod - 1 : Shifted(v, Word)[Word] = 0
  /\ Requests \subseteq Int /\ Stored \subseteq Nat
  /\ WildPointers \subseteq Nat \ ({0} \cup (HeapBase + HdrSize)..(ArenaEnd - 1))

Running == last.op # "fatal"

\* The headers met by stepping from block to block through the arena.  A block
\* has a header and at least one cell.
MaxBlocks == HeapSize \div (HdrSize + 1)
Walk(m) ==
  LET at[k \in 0..MaxBlocks] ==
        IF k = 0 THEN HeapBase
        ELSE IF at[k - 1] = ArenaEnd THEN ArenaEnd
        ELSE at[k - 1] + HdrSize + HdrGet(m, at[k - 1], SizeOff)
  IN at
StartsIn(m) == LET at == Walk(m) IN {at[k] : k \in 0..MaxBlocks} \ {ArenaEnd}
Starts == StartsIn(mem)

\* The nodes of the free list, up to the one whose link is NULL.
ChainIn(m, head) ==
  LET node == Nodes(m, head)
      n == Min({k \in 0..HeapSize : node[k] = NULL})
  IN [i \in 1..n |-> node[i - 1]]
Chain == ChainIn(mem, heapFreeHead)

Init ==
  /\ mem = HeapInit([a \in Arena |-> 0])
  /\ heapFreeHead = HeapBase
  /\ last = [op |-> "start", arg |-> 0, ret |-> NULL]

Malloc(req) ==
  LET r == VmMalloc(mem, heapFreeHead, req % WordMod)
  IN /\ Running
     /\ mem' = r.m
     /\ heapFreeHead' = r.head
     /\ last' = [op |-> "malloc", arg |-> req, ret |-> r.ret]

Free(p) ==
  /\ Running
  /\ ~FreeFatal(mem, p)
  /\ mem' = VmFree(mem, heapFreeHead, p).m
  /\ heapFreeHead' = VmFree(mem, heapFreeHead, p).head
  /\ last' = [op |-> "free", arg |-> p, ret |-> NULL]

FreeRefused(p) ==
  /\ Running
  /\ FreeFatal(mem, p)
  /\ last' = [op |-> "fatal", arg |-> p, ret |-> NULL]
  /\ UNCHANGED <<mem, heapFreeHead>>

\* The program stores a word somewhere in a region it holds.
Store(h, v) ==
  /\ Running
  /\ HdrGet(mem, h, InuseOff) = 1
  /\ \E a \in h + HdrSize..h + HdrSize + HdrGet(mem, h, SizeOff) - Word :
       mem' = PutU(mem, a, Word, v)
  /\ UNCHANGED <<heapFreeHead, last>>

\* The pointers a program frees, live or not.
Returned == {h + HdrSize : h \in Starts} \cup {NULL} \cup WildPointers

Next ==
  \/ \E req \in Requests : Malloc(req)
  \/ \E p \in Returned : Free(p) \/ FreeRefused(p)
  \/ \E h \in Starts, v \in Stored : Store(h, v)

Spec == Init /\ [][Next]_vars

-----------------------------------------------------------------------------
\* Types of the raw memory and the list head (vm.c, VM.memory).
TypeOK ==
  /\ mem \in [Arena -> 0..Radix - 1]
  /\ heapFreeHead \in Arena \cup {NULL}

\* The list is made of blocks and ends (README.md: freeing an invalid pointer
\* is fatal, "never silent corruption").  A store can never relink it.
ListIsBlocks ==
  /\ \E k \in DOMAIN Nodes(mem, heapFreeHead) : Nodes(mem, heapFreeHead)[k] = NULL
  /\ \A i \in DOMAIN Chain : Chain[i] \in Starts

\* No call of malloc or free writes into a region the program holds across
\* it: the headers it writes are never inside one.
ProgramDataKept ==
  [][last' # last =>
       \A h \in Starts : HdrGet(mem, h, InuseOff) = 1 =>
         \A a \in h + HdrSize..h + HdrSize + HdrGet(mem, h, SizeOff) - 1 :
           mem'[a] = mem[a]]_vars

\* The headers, read as blocks.
Blocks == INSTANCE Heap WITH
  size <- [h \in Starts |-> HdrGet(mem, h, SizeOff)],
  inuse <- [h \in Starts |-> HdrGet(mem, h, InuseOff) = 1],
  free <- Chain

\* The words in memory implement the block-level allocator.
ImplementsHeap == Blocks!Spec
=============================================================================
