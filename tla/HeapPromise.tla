---------------------------- MODULE HeapPromise ----------------------------
(***************************************************************************)
(* What malloc and free promise an OrgitoCompiler program, whatever the    *)
(* free list looks like inside (README.md, "The standard library"):        *)
(*                                                                         *)
(*   - malloc returns NULL, or a region of at least the requested size     *)
(*     that lies in the heap arena and touches no live region;             *)
(*   - free of a live pointer ends that region's life and no other's;      *)
(*   - free(NULL) does nothing;                                            *)
(*   - free of anything else stops the program: it is never accepted.      *)
(***************************************************************************)
EXTENDS Integers

CONSTANTS HeapBase, HeapSize,  \* the arena is [HeapBase, HeapBase + HeapSize)
          Requests,            \* sizes programs ask for
          Pointers             \* addresses programs may pass to free

VARIABLES live,  \* address of each live region -> its size in bytes
          last   \* the last call: [op, arg, ret]

vars == <<live, last>>

NULL == 0

Running == last.op # "fatal"

\* [p, p+n) lies in the arena and overlaps no live region.
Fresh(p, n) ==
  /\ HeapBase < p /\ p + n <= HeapBase + HeapSize
  /\ \A q \in DOMAIN live : p + n <= q \/ q + live[q] <= p

Init ==
  /\ live = [p \in {} |-> 0]
  /\ last = [op |-> "start", arg |-> 0, ret |-> NULL]

Grant(n) ==
  /\ Running
  /\ \E p \in HeapBase..HeapBase + HeapSize, s \in 1..HeapSize :
       /\ s >= n
       /\ Fresh(p, s)
       /\ live' = [q \in DOMAIN live \cup {p} |-> IF q = p THEN s ELSE live[q]]
       /\ last' = [op |-> "malloc", arg |-> n, ret |-> p]

Decline(n) ==
  /\ Running
  /\ last' = [op |-> "malloc", arg |-> n, ret |-> NULL]
  /\ UNCHANGED live

Release(p) ==
  /\ Running
  /\ p \in DOMAIN live
  /\ live' = [q \in DOMAIN live \ {p} |-> live[q]]
  /\ last' = [op |-> "free", arg |-> p, ret |-> NULL]

ReleaseNull ==
  /\ Running
  /\ last' = [op |-> "free", arg |-> NULL, ret |-> NULL]
  /\ UNCHANGED live

Refuse(p) ==
  /\ Running
  /\ p # NULL /\ p \notin DOMAIN live
  /\ last' = [op |-> "fatal", arg |-> p, ret |-> NULL]
  /\ UNCHANGED live

Next ==
  \/ \E n \in Requests : Grant(n) \/ Decline(n)
  \/ \E p \in Pointers : Release(p) \/ Refuse(p)
  \/ ReleaseNull

Spec == Init /\ [][Next]_vars
=============================================================================
