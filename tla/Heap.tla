-------------------------------- MODULE Heap --------------------------------
(***************************************************************************)
(* The VM's first-fit allocator (src/src/vm.c, heap_init, vm_malloc,       *)
(* vm_free) at the level of blocks.                                        *)
(*                                                                         *)
(* A block starts with a header of HdrSize bytes at address h and gives    *)
(* the program size[h] bytes at h + HdrSize.  The header's fields are the  *)
(* functions size and inuse; the chain of next fields from heap_free_head  *)
(* is the sequence free.  Blocks are split and never merged.               *)
(*                                                                         *)
(* HeapCells holds the same allocator as the words of memory it is; that   *)
(* module also covers pointers into the middle of a block, whose "header"  *)
(* is whatever the program stored there.                                   *)
(***************************************************************************)
EXTENDS Integers, SequencesExt

CONSTANTS HeapBase, HeapSize,  \* the arena is [HeapBase, HeapBase + HeapSize)
          HdrSize,             \* HDR_SIZE: 12
          MinTail,             \* a remainder smaller than this is not split off: 8
          WordMod,             \* uint32_t arithmetic is modulo 2^32
          Requests,            \* the long arguments programs give to malloc
          WildPointers         \* addresses outside the arena given to free

ASSUME HeapAssumption ==
  /\ HeapBase \in Nat \ {0} /\ HdrSize \in Nat \ {0} /\ MinTail \in Nat \ {0}
  /\ HeapSize \in Nat /\ HeapSize > HdrSize
  /\ WordMod \in Nat /\ HeapBase + HeapSize < WordMod
  /\ Requests \subseteq Int
  /\ WildPointers \subseteq
       Nat \ ({0} \cup (HeapBase + HdrSize)..(HeapBase + HeapSize - 1))

VARIABLES size,   \* header address of each block -> payload bytes
          inuse,  \* header address of each block -> in-use flag
          free,   \* the free list, heap_free_head first
          last    \* the last call a program made: [op, arg, ret]

vars == <<size, inuse, free, last>>

NULL == 0
Blocks == DOMAIN size
Payload(h) == h + HdrSize
End(h) == h + HdrSize + size[h]     \* one past the last byte of block h

\* The native takes a long and narrows it to uint32_t; a zero size becomes 1.
Narrowed(req) == req % WordMod
WantMutant(req) == Narrowed(req)          \* a zero request stays zero
Want(req) == IF Narrowed(req) = 0 THEN 1 ELSE Narrowed(req)

Running == last.op # "fatal"

Init ==
  /\ size = [h \in {HeapBase} |-> HeapSize - HdrSize]
  /\ inuse = [h \in {HeapBase} |-> FALSE]
  /\ free = <<HeapBase>>
  /\ last = [op |-> "start", arg |-> 0, ret |-> NULL]

-----------------------------------------------------------------------------
\* The walk along the free list stops at the first block that is big enough.
FirstFitMutant(i, n) ==                   \* counts the header as payload
  /\ i \in DOMAIN free
  /\ size[free[i]] + HdrSize >= n
  /\ \A j \in 1..i - 1 : size[free[j]] + HdrSize < n
FirstFit(i, n) ==
  /\ i \in DOMAIN free
  /\ size[free[i]] >= n
  /\ \A j \in 1..i - 1 : size[free[j]] < n

Splits(h, n) == size[h] >= n + HdrSize + MinTail

\* The block is used whole: unlinked and marked, its size unchanged.
TakeWhole(i) ==
  /\ free' = RemoveAt(free, i)
  /\ inuse' = [inuse EXCEPT ![free[i]] = TRUE]
  /\ UNCHANGED size

\* The first n bytes are used; the rest becomes a block at the list's head.
TakeFrontMutant(i, n) ==                  \* the remainder's header is not paid for
  LET h == free[i]
      rest == h + HdrSize + n
  IN /\ free' = <<rest>> \o RemoveAt(free, i)
     /\ size' = [b \in Blocks \cup {rest} |->
                   IF b = h THEN n ELSE IF b = rest THEN size[h] - n ELSE size[b]]
     /\ inuse' = [b \in Blocks \cup {rest} |-> IF b = rest THEN FALSE ELSE b = h \/ inuse[b]]
TakeFront(i, n) ==
  LET h == free[i]
      rest == h + HdrSize + n
  IN /\ free' = <<rest>> \o RemoveAt(free, i)
     /\ size' = [b \in Blocks \cup {rest} |->
                   IF b = h THEN n
                   ELSE IF b = rest THEN size[h] - n - HdrSize ELSE size[b]]
     /\ inuse' = [b \in Blocks \cup {rest} |->
                    IF b = h THEN TRUE ELSE IF b = rest THEN FALSE ELSE inuse[b]]

MallocFound(req) ==
  /\ Running
  /\ \E i \in DOMAIN free :
       /\ FirstFit(i, Want(req))
       /\ IF Splits(free[i], Want(req)) THEN TakeFront(i, Want(req))
                                        ELSE TakeWhole(i)
       /\ last' = [op |-> "malloc", arg |-> req, ret |-> Payload(free[i])]

\* The walk reaches the end of the list.
MallocNullMutant(req) ==                  \* stops one block early
  /\ Running
  /\ \A i \in 1..Len(free) - 1 : size[free[i]] < Want(req)
  /\ last' = [op |-> "malloc", arg |-> req, ret |-> NULL]
  /\ UNCHANGED <<size, inuse, free>>
MallocNull(req) ==
  /\ Running
  /\ \A i \in DOMAIN free : size[free[i]] < Want(req)
  /\ last' = [op |-> "malloc", arg |-> req, ret |-> NULL]
  /\ UNCHANGED <<size, inuse, free>>

FreeNull ==
  /\ Running
  /\ last' = [op |-> "free", arg |-> NULL, ret |-> NULL]
  /\ UNCHANGED <<size, inuse, free>>

FreeBlockTwiceMutant(h) ==                \* no in-use check
  /\ Running
  /\ inuse' = [inuse EXCEPT ![h] = FALSE]
  /\ free' = <<h>> \o free
  /\ last' = [op |-> "free", arg |-> Payload(h), ret |-> NULL]
  /\ UNCHANGED size
FreeBlockMergesMutant(h) ==               \* swallows the next block, free or not
  LET kept == Blocks \ {End(h)}
  IN /\ Running
     /\ inuse[h]
     /\ size' = [b \in kept |-> IF b = h /\ End(h) \in Blocks
                                THEN End(End(h)) - Payload(h) ELSE size[b]]
     /\ inuse' = [b \in kept |-> b # h /\ inuse[b]]
     /\ free' = <<h>> \o SelectSeq(free, LAMBDA b : b # End(h))
     /\ last' = [op |-> "free", arg |-> Payload(h), ret |-> NULL]
FreeBlock(h) ==
  /\ Running
  /\ inuse[h]
  /\ inuse' = [inuse EXCEPT ![h] = FALSE]
  /\ free' = <<h>> \o free
  /\ last' = [op |-> "free", arg |-> Payload(h), ret |-> NULL]
  /\ UNCHANGED size

\* fatal: the range check, or the in-use check on a block that is free.
FreeRefused(p) ==
  /\ Running
  /\ \/ p \in WildPointers
     \/ \E h \in Blocks : p = Payload(h) /\ ~inuse[h]
  /\ last' = [op |-> "fatal", arg |-> p, ret |-> NULL]
  /\ UNCHANGED <<size, inuse, free>>

Next ==
  \/ \E req \in Requests : MallocFound(req) \/ MallocNull(req)
  \/ FreeNull
  \/ \E h \in Blocks : FreeBlock(h)
  \/ \E p \in WildPointers \cup {Payload(h) : h \in Blocks} : FreeRefused(p)

Spec == Init /\ [][Next]_vars

-----------------------------------------------------------------------------
\* Types of the allocator's state (vm.c, heap_free_head and the headers).
TypeOK ==
  /\ Blocks \subseteq HeapBase..HeapBase + HeapSize - 1
  /\ size \in [Blocks -> Nat \ {0}]
  /\ inuse \in [Blocks -> BOOLEAN]
  /\ free \in Seq(Blocks)
  /\ last \in [op : {"start", "malloc", "free", "fatal"}, arg : Int, ret : Nat]

\* The blocks tile the arena: no two overlap, and no byte is outside every
\* block, so no sequence of calls leaks a byte of the arena (the split in
\* vm_malloc accounts for every byte of the block it cuts).
NoOverlap == \A g, h \in Blocks : g # h => End(g) <= h \/ End(h) <= g
NoLeak == \A a \in HeapBase..HeapBase + HeapSize - 1 :
            \E h \in Blocks : h <= a /\ a < End(h)
Inside == \A h \in Blocks : End(h) <= HeapBase + HeapSize
Tiled == NoOverlap /\ NoLeak /\ Inside

\* The free list holds every block that is not in use, once each, and no
\* other: a block can neither be handed out twice nor be lost (unlinking in
\* vm_malloc and pushing in vm_free keep the list and the flags in step).
FreeListExact ==
  /\ IsInjective(free)
  /\ ToSet(free) = {h \in Blocks : ~inuse[h]}

\* malloc answers NULL only when every block that is not in use is too
\* small: a block missing from the list would make it give up too early.
NullMeansFull ==
  last.op = "malloc" /\ last.ret = NULL =>
    \A h \in Blocks : ~inuse[h] => size[h] < Want(last.arg)

\* A call touches at most the block it hands out or takes back: no other
\* live block is moved, resized or dropped, and a header once written stays
\* a header, which is what makes a stale pointer recognisable in vm_free.
LiveBlocksUntouched ==
  [][\A h \in Blocks :
        /\ h \in DOMAIN size'
        /\ inuse[h] => size'[h] = size[h]
        /\ inuse[h] /\ ~inuse'[h] => last'.op = "free" /\ last'.arg = Payload(h)]_vars

-----------------------------------------------------------------------------
\* The live regions as the program sees them.
live == [p \in {Payload(h) : h \in {b \in Blocks : inuse[b]}} |-> size[p - HdrSize]]

Promise == INSTANCE HeapPromise
             WITH Pointers <- WildPointers \cup HeapBase..HeapBase + HeapSize

\* malloc's answer is NULL or at least what was asked for ("returns NULL on
\* failure", README.md): a request that does not fit in a uint32_t is narrowed
\* to one that does, and succeeds.
EnoughOrNull ==
  last.op = "malloc" /\ last.ret # NULL => size[last.ret - HdrSize] >= last.arg

\* The allocator keeps the promise of HeapPromise, call by call, for requests
\* that a uint32_t can hold.
KeepsPromise == Promise!Spec
=============================================================================
