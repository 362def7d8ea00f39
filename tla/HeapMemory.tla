----------------------------- MODULE HeapMemory -----------------------------
(***************************************************************************)
(* vm_malloc and vm_free of src/src/vm.c as operators on memory: block     *)
(* headers and the free list's links are words of the same memory the      *)
(* program stores its data in.                                             *)
(***************************************************************************)
EXTENDS Memory, FiniteSetsExt

CONSTANTS HeapBase, HeapSize,  \* the arena
          Word                 \* bytes of a header field: 4

NULL == 0

\* A header is three words: size, next, in use.
HdrSize == 3 * Word
MinTail == 2 * Word
HdrGet(m, h, field) == GetU(m, h + field * Word, Word)
HdrSet(m, h, field, v) == PutU(m, h + field * Word, Word, v)
SizeOff == 0
NextOff == 1
InuseOff == 2

SetHdr(m, h, size, next, inuse) ==
  HdrSet(HdrSet(HdrSet(m, h, SizeOff, size), h, NextOff, next), h, InuseOff, inuse)

HeapInit(m) == SetHdr(m, HeapBase, HeapSize - HdrSize, NULL, 0)

\* The k-th node of the free list (from 0), NULL past its end.
Nodes(m, head) ==
  LET node[k \in 0..HeapSize] ==
        IF k = 0 THEN head
        ELSE LET prev == node[k - 1]
             IN IF prev = NULL THEN NULL ELSE HdrGet(m, prev, NextOff)
  IN node

\* The block is large enough for a remainder of its own.
SplitsOffMutant(blockSize, want) == blockSize >= want + HdrSize
SplitsOff(blockSize, want) == blockSize >= want + HdrSize + MinTail

\* [m, head, ret] after a call of vm_malloc(n).
VmMalloc(m, head, n) ==
  LET want == IF n = 0 THEN 1 ELSE n
      node == Nodes(m, head)
      Fit == {k \in 0..HeapSize :
                node[k] # NULL /\ HdrGet(m, node[k], SizeOff) >= want}
      k0 == Min(Fit)
      cur == node[k0]
      blockSize == HdrGet(m, cur, SizeOff)
      next == HdrGet(m, cur, NextOff)
      head1 == IF k0 = 0 THEN next ELSE head
      m1 == IF k0 = 0 THEN m ELSE HdrSet(m, node[k0 - 1], NextOff, next)
      rest == cur + HdrSize + want
      m2 == HdrSet(SetHdr(m1, rest, blockSize - want - HdrSize, head1, 0),
                   cur, SizeOff, want)
      splits == SplitsOff(blockSize, want)
  IN IF Fit = {} THEN [m |-> m, head |-> head, ret |-> NULL]
     ELSE [m |-> HdrSet(IF splits THEN m2 ELSE m1, cur, InuseOff, 1),
           head |-> IF splits THEN rest ELSE head1,
           ret |-> cur + HdrSize]

\* vm_free(p) stops the program: the range check, then the in-use check.
FreeFatalMutant(m, p) ==          \* the arena's first header passes for payload
  /\ p # NULL
  /\ ~ (/\ HeapBase <= p /\ p < HeapBase + HeapSize
        /\ HdrGet(m, p - HdrSize, InuseOff) # 0)
FreeFatal(m, p) ==
  /\ p # NULL
  /\ ~ (/\ HeapBase + HdrSize <= p /\ p < HeapBase + HeapSize
        /\ HdrGet(m, p - HdrSize, InuseOff) # 0)

\* [m, head] after a call of vm_free(p) that is not fatal.
VmFreePayloadMutant(m, head, p) ==          \* lists the payload, not the block
  IF p = NULL THEN [m |-> m, head |-> head]
  ELSE [m |-> HdrSet(HdrSet(m, p - HdrSize, InuseOff, 0), p - HdrSize, NextOff, head),
        head |-> p]
VmFreeLinkMutant(m, head, p) ==             \* writes the link from the payload on
  IF p = NULL THEN [m |-> m, head |-> head]
  ELSE [m |-> HdrSet(HdrSet(m, p - HdrSize, InuseOff, 0), p, NextOff, head),
        head |-> p - HdrSize]
VmFree(m, head, p) ==
  IF p = NULL THEN [m |-> m, head |-> head]
  ELSE [m |-> HdrSet(HdrSet(m, p - HdrSize, InuseOff, 0), p - HdrSize, NextOff, head),
        head |-> p - HdrSize]
=============================================================================
