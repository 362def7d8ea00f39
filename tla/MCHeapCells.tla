---------------------------- MODULE MCHeapCells -----------------------------
(***************************************************************************)
(* HeapCells in words: a cell is a whole header field (Word = 1), so an    *)
(* arena of a dozen cells holds several blocks.                            *)
(***************************************************************************)
EXTENDS HeapCells

MCRequests == {0, 3}
MCWildPointers == {1, 4, 15}
\* A clear word, and one that reads as a set flag or as a header's address.
MCStored == {0, 2}
=============================================================================
