------------------------------- MODULE MCHeap -------------------------------
(***************************************************************************)
(* Heap on a small arena: the header, the smallest tail and the sizes keep *)
(* the order they have in the code (MinTail < HdrSize, several blocks fit).*)
(***************************************************************************)
EXTENDS Heap

\* A negative request, a zero one, two that split or leave a tail too small
\* to split off, and one that only the untouched arena can serve.
MCRequests == {-1, 0, 2, 6, 17}

\* Requests of a whole 2^32 (here 32) and more.
MCLongRequests == {2, 4, 32, 33}

\* Below the arena, in its first header's last unit, and its first byte past the end.
MCWildPointers == {1, 4, 22}
=============================================================================
