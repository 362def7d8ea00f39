----------------------------- MODULE HeapProofs -----------------------------
(***************************************************************************)
(* Proofs about Heap for every arena, every header and tail size and every *)
(* set of requests that HeapAssumption allows.                             *)
(***************************************************************************)
EXTENDS Heap, SequenceTheorems, TLAPS

\* Unlinking: what RemoveAt leaves is the sequence without its i-th element.
LEMMA RemoveAtElements ==
  ASSUME NEW S, NEW s \in Seq(S), NEW i \in 1..Len(s)
  PROVE  /\ RemoveAt(s, i) \in Seq(S)
         /\ Len(RemoveAt(s, i)) = Len(s) - 1
         /\ \A j \in 1..Len(s) - 1 :
              RemoveAt(s, i)[j] = IF j < i THEN s[j] ELSE s[j + 1]
<1> DEFINE L == SubSeq(s, 1, i - 1)
           R == SubSeq(s, i + 1, Len(s))
<1>1. L \in Seq(S) /\ Len(L) = i - 1 /\ \A j \in 1..i - 1 : L[j] = s[j]
  OBVIOUS
<1>2. R \in Seq(S) /\ Len(R) = Len(s) - i /\ \A j \in 1..Len(s) - i : R[j] = s[i + j]
  OBVIOUS
<1> HIDE DEF L, R
<1>3. /\ L \o R \in Seq(S)
      /\ Len(L \o R) = Len(L) + Len(R)
      /\ \A j \in 1..Len(L) + Len(R) :
           (L \o R)[j] = IF j <= Len(L) THEN L[j] ELSE R[j - Len(L)]
  <2>1. L \in Seq(S) /\ R \in Seq(S)
    BY <1>1, <1>2
  <2> QED BY <2>1, ConcatProperties, Zenon
<1>4. i \in Int /\ Len(s) \in Nat /\ Len(L) + Len(R) = Len(s) - 1
  BY <1>1, <1>2
<1>5. ASSUME NEW j \in 1..Len(s) - 1
      PROVE  (L \o R)[j] = IF j < i THEN s[j] ELSE s[j + 1]
  <2>1. (L \o R)[j] = IF j <= Len(L) THEN L[j] ELSE R[j - Len(L)]
    BY <1>3, <1>4
  <2>2. CASE j < i
    <3>1. j \in 1..i - 1 /\ j <= Len(L)
      BY <1>1, <1>4, <2>2
    <3> QED BY <1>1, <2>1, <2>2, <3>1
  <2>3. CASE ~(j < i)
    <3>1. ~(j <= Len(L)) /\ j - Len(L) \in 1..Len(s) - i /\ i + (j - Len(L)) = j + 1
      BY <1>1, <1>4, <2>3
    <3>2. R[j - Len(L)] = s[i + (j - Len(L))]
      BY <1>2, <3>1
    <3> QED BY <2>1, <2>3, <3>1, <3>2
  <2> QED BY <2>2, <2>3
<1>6. L \o R \in Seq(S) /\ Len(L \o R) = Len(s) - 1
  BY <1>3, <1>4
<1> QED BY <1>5, <1>6, Zenon DEF RemoveAt, L, R

\* Unlinking a node from a list without repetitions removes that node only.
LEMMA Unlink ==
  ASSUME NEW S, NEW s \in Seq(S), IsInjective(s), NEW i \in DOMAIN s
  PROVE  /\ RemoveAt(s, i) \in Seq(S)
         /\ IsInjective(RemoveAt(s, i))
         /\ ToSet(RemoveAt(s, i)) = ToSet(s) \ {s[i]}
<1> DEFINE t == RemoveAt(s, i)
<1>1. i \in 1..Len(s) /\ DOMAIN s = 1..Len(s) /\ Len(s) \in Nat
  OBVIOUS
<1>2. /\ t \in Seq(S) /\ DOMAIN t = 1..Len(s) - 1
      /\ \A j \in 1..Len(s) - 1 : t[j] = IF j < i THEN s[j] ELSE s[j + 1]
  <2>1. /\ t \in Seq(S) /\ Len(t) = Len(s) - 1
        /\ \A j \in 1..Len(s) - 1 : t[j] = IF j < i THEN s[j] ELSE s[j + 1]
    BY <1>1, RemoveAtElements, Zenon
  <2> HIDE DEF t
  <2> QED BY <1>1, <2>1
<1> HIDE DEF t
<1>3. IsInjective(t)
  <2>1. SUFFICES ASSUME NEW a \in DOMAIN t, NEW b \in DOMAIN t, t[a] = t[b]
                 PROVE  a = b
    BY DEF IsInjective
  <2> DEFINE back(j) == IF j < i THEN j ELSE j + 1
  <2>2. /\ back(a) \in DOMAIN s /\ t[a] = s[back(a)]
        /\ back(b) \in DOMAIN s /\ t[b] = s[back(b)]
    BY <1>1, <1>2
  <2>3. back(a) = back(b)
    BY <2>1, <2>2 DEF IsInjective
  <2> QED BY <1>1, <1>2, <2>3
<1>4. ToSet(t) \subseteq ToSet(s) \ {s[i]}
  BY <1>1, <1>2 DEF IsInjective, ToSet
<1>5. ASSUME NEW k \in DOMAIN s, s[k] # s[i]
      PROVE  s[k] \in ToSet(t)
  <2>1. CASE k < i
    <3>1. k \in DOMAIN t /\ t[k] = s[k]
      BY <1>1, <1>2, <2>1
    <3> QED BY <3>1 DEF ToSet
  <2>2. CASE k > i
    <3>1. k - 1 \in DOMAIN t /\ t[k - 1] = s[k]
      BY <1>1, <1>2, <2>2
    <3> QED BY <3>1 DEF ToSet
  <2> QED BY <1>1, <1>5, <2>1, <2>2
<1> QED BY <1>2, <1>3, <1>4, <1>5 DEF t, ToSet

\* Pushing a new node on the list adds that node only.
LEMMA Push ==
  ASSUME NEW S, NEW s \in Seq(S), IsInjective(s), NEW h \in S, h \notin ToSet(s)
  PROVE  /\ <<h>> \o s \in Seq(S)
         /\ IsInjective(<<h>> \o s)
         /\ ToSet(<<h>> \o s) = ToSet(s) \cup {h}
<1> DEFINE t == <<h>> \o s
<1>1. /\ t \in Seq(S) /\ DOMAIN t = 1..Len(s) + 1 /\ Len(s) \in Nat
      /\ t[1] = h /\ \A j \in 2..Len(s) + 1 : t[j] = s[j - 1]
  OBVIOUS
<1>2. DOMAIN s = 1..Len(s)
  OBVIOUS
<1> HIDE DEF t
<1>3. IsInjective(t)
  <2>1. SUFFICES ASSUME NEW a \in DOMAIN t, NEW b \in DOMAIN t, t[a] = t[b]
                 PROVE  a = b
    BY DEF IsInjective
  <2>2. \A j \in DOMAIN t : j = 1 \/ (j - 1 \in DOMAIN s /\ t[j] = s[j - 1])
    BY <1>1, <1>2
  <2>3. \A j \in DOMAIN s : s[j] # h
    BY DEF ToSet
  <2>4. CASE a = 1 \/ b = 1
    BY <1>1, <2>1, <2>2, <2>3, <2>4
  <2>5. CASE a # 1 /\ b # 1
    <3>1. a - 1 = b - 1
      BY <2>1, <2>2, <2>5 DEF IsInjective
    <3> QED BY <1>1, <3>1
  <2> QED BY <2>4, <2>5
<1>4. ToSet(t) \subseteq ToSet(s) \cup {h}
  BY <1>1, <1>2 DEF ToSet
<1>5. ASSUME NEW k \in DOMAIN s
      PROVE  s[k] \in ToSet(t)
  <2>1. k + 1 \in DOMAIN t /\ t[k + 1] = s[k]
    BY <1>1, <1>2
  <2> QED BY <2>1 DEF ToSet
<1>6. h \in ToSet(t)
  BY <1>1 DEF ToSet
<1>7. ToSet(t) = ToSet(s) \cup {h}
  <2>1. ToSet(s) \subseteq ToSet(t)
    BY <1>5 DEF ToSet
  <2> QED BY <1>4, <1>6, <2>1
<1> QED BY <1>1, <1>3, <1>7 DEF t

\* A malloc request is narrowed to a positive uint32_t.
LEMMA WantRange ==
  ASSUME NEW req \in Int
  PROVE  Want(req) \in Nat \ {0} /\ Want(req) < WordMod + 1
BY HeapAssumption DEF Want, Narrowed

-----------------------------------------------------------------------------
\* The inductive invariant.  The list and the tiling need each other: the
\* split is legal because the list holds only free blocks, and the block it
\* makes is new because the blocks do not overlap.
IInv == TypeOK /\ Tiled /\ FreeListExact

\* The arena as heap_init leaves it: one free block.
LEMMA InitInv == Init => IInv
<1> SUFFICES ASSUME Init PROVE IInv
  OBVIOUS
<1> USE HeapAssumption DEF Init
<1>1. Blocks = {HeapBase} /\ size[HeapBase] = HeapSize - HdrSize /\ free \in Seq(Blocks)
  BY DEF Blocks
<1>2. TypeOK
  BY <1>1 DEF TypeOK, Blocks, NULL
<1>3. Tiled
  BY <1>1 DEF Tiled, NoOverlap, NoLeak, Inside, End
<1>4. FreeListExact
  BY <1>1 DEF FreeListExact, IsInjective, ToSet
<1> QED BY <1>2, <1>3, <1>4 DEF IInv

\* What a malloc that finds a block knows of the block it found.
LEMMA FoundBlock ==
  ASSUME IInv, NEW i \in DOMAIN free
  PROVE  /\ free[i] \in Blocks
         /\ ~inuse[free[i]]
         /\ free[i] \in Nat /\ size[free[i]] \in Nat \ {0}
<1>1. free[i] \in ToSet(free)
  BY DEF ToSet
<1> QED BY <1>1, HeapAssumption DEF IInv, TypeOK, FreeListExact, Blocks

\* Using a block whole (vm_malloc without a split) keeps the invariant.
LEMMA TakeWholeInv ==
  ASSUME IInv, NEW i \in DOMAIN free, TakeWhole(i),
         last' \in [op : {"start", "malloc", "free", "fatal"}, arg : Int, ret : Nat]
  PROVE  IInv'
<1> DEFINE h == free[i]
<1>1. h \in Blocks /\ ~inuse[h]
  BY FoundBlock
<1>2. /\ RemoveAt(free, i) \in Seq(Blocks)
      /\ IsInjective(RemoveAt(free, i))
      /\ ToSet(RemoveAt(free, i)) = ToSet(free) \ {h}
  BY Unlink DEF IInv, TypeOK, FreeListExact
<1>3. /\ Blocks' = Blocks /\ size' = size /\ free' = RemoveAt(free, i)
      /\ inuse' \in [Blocks -> BOOLEAN]
      /\ \A b \in Blocks : inuse'[b] = (b = h \/ inuse[b])
  BY <1>1 DEF TakeWhole, Blocks, IInv, TypeOK
<1> HIDE DEF h
<1>4. TypeOK'
  BY <1>2, <1>3 DEF IInv, TypeOK, Blocks
<1>5. Tiled'
  BY <1>3 DEF IInv, Tiled, NoOverlap, NoLeak, Inside, End, Blocks
<1>6. ToSet(free') = {b \in Blocks' : ~inuse'[b]}
  BY <1>1, <1>2, <1>3 DEF IInv, FreeListExact
<1>7. FreeListExact'
  BY <1>2, <1>3, <1>6 DEF FreeListExact, ToSet, IsInjective
<1> QED BY <1>4, <1>5, <1>7 DEF IInv

\* The arithmetic of a split: the remainder is a new block inside the old one.
LEMMA SplitFacts ==
  ASSUME IInv, NEW i \in DOMAIN free, NEW n \in Nat \ {0}, Splits(free[i], n),
         TakeFront(i, n), NEW h, h = free[i], NEW rest, rest = h + HdrSize + n
  PROVE  /\ h \in Blocks /\ ~inuse[h] /\ h \in Nat
         /\ rest \in HeapBase..HeapBase + HeapSize - 1
         /\ rest \notin Blocks
         /\ Blocks' = Blocks \cup {rest}
         /\ size'[h] = n /\ End(h)' = rest
         /\ size'[rest] \in Nat \ {0} /\ End(rest)' = End(h)
         /\ \A b \in Blocks \ {h} : size'[b] = size[b] /\ End(b)' = End(b)
         /\ size' \in [Blocks' -> Nat \ {0}]
         /\ inuse' \in [Blocks' -> BOOLEAN]
         /\ inuse'[h] /\ ~inuse'[rest]
         /\ \A b \in Blocks \ {h} : inuse'[b] = inuse[b]
         /\ free' = <<rest>> \o RemoveAt(free, i)
<1> USE HeapAssumption
<1>1. h \in Blocks /\ ~inuse[h] /\ h \in Nat /\ size[h] \in Nat \ {0}
  BY FoundBlock
<1>2. size[h] >= n + HdrSize + MinTail
  BY DEF Splits
<1>3. /\ size' = [b \in Blocks \cup {rest} |->
                    IF b = h THEN n
                    ELSE IF b = rest THEN size[h] - n - HdrSize ELSE size[b]]
      /\ inuse' = [b \in Blocks \cup {rest} |->
                    IF b = h THEN TRUE ELSE IF b = rest THEN FALSE ELSE inuse[b]]
      /\ free' = <<rest>> \o RemoveAt(free, i)
  BY DEF TakeFront
<1>4. h < rest /\ rest < End(h)
  BY <1>1, <1>2 DEF End
<1>5. End(h) <= HeapBase + HeapSize /\ HeapBase <= h
  BY <1>1 DEF IInv, TypeOK, Tiled, Inside
<1>6. rest \in HeapBase..HeapBase + HeapSize - 1
  BY <1>1, <1>4, <1>5 DEF End
<1>7. rest \notin Blocks
  <2> SUFFICES ASSUME rest \in Blocks PROVE FALSE
    OBVIOUS
  <2>1. End(h) <= rest \/ End(rest) <= h
    BY <1>1, <1>4 DEF IInv, Tiled, NoOverlap
  <2>2. size[rest] \in Nat
    BY DEF IInv, TypeOK, Blocks
  <2> QED BY <1>1, <1>4, <2>1, <2>2 DEF End
<1>8. \A b \in Blocks : size[b] \in Nat \ {0} /\ inuse[b] \in BOOLEAN /\ b \in Nat
  BY DEF IInv, TypeOK, Blocks
<1>9. Blocks' = Blocks \cup {rest}
  BY <1>3 DEF Blocks
<1>10. h # rest
  BY <1>1, <1>7
<1>11. size'[h] = n /\ size'[rest] = size[h] - n - HdrSize
  BY <1>1, <1>3, <1>10
<1>12. size'[rest] \in Nat \ {0}
  BY <1>1, <1>2, <1>11
<1>13. \A b \in Blocks \ {h} : size'[b] = size[b] /\ inuse'[b] = inuse[b]
  BY <1>3, <1>7
<1>14. inuse'[h] /\ ~inuse'[rest]
  BY <1>1, <1>3, <1>10
<1>15. End(h)' = rest /\ End(rest)' = End(h)
  BY <1>1, <1>11 DEF End
<1>16. size' \in [Blocks' -> Nat \ {0}]
  BY <1>3, <1>8, <1>9, <1>11, <1>12
<1>17. inuse' \in [Blocks' -> BOOLEAN]
  BY <1>3, <1>8, <1>9
<1> QED BY <1>1, <1>3, <1>6, <1>7, <1>9, <1>11, <1>12, <1>13, <1>14, <1>15, <1>16, <1>17
        DEF End

\* Splitting a block (vm_malloc with a split) keeps the invariant.
LEMMA TakeFrontInv ==
  ASSUME IInv, NEW i \in DOMAIN free, NEW n \in Nat \ {0}, Splits(free[i], n),
         TakeFront(i, n),
         last' \in [op : {"start", "malloc", "free", "fatal"}, arg : Int, ret : Nat]
  PROVE  IInv'
<1>1. PICK h, rest : h = free[i] /\ rest = h + HdrSize + n
  OBVIOUS
<1>2. /\ h \in Blocks /\ ~inuse[h] /\ h \in Nat
      /\ rest \in HeapBase..HeapBase + HeapSize - 1 /\ rest \notin Blocks
      /\ Blocks' = Blocks \cup {rest}
      /\ size'[h] = n /\ End(h)' = rest
      /\ size'[rest] \in Nat \ {0} /\ End(rest)' = End(h)
      /\ \A b \in Blocks \ {h} : size'[b] = size[b] /\ End(b)' = End(b)
      /\ size' \in [Blocks' -> Nat \ {0}]
      /\ inuse' \in [Blocks' -> BOOLEAN]
      /\ inuse'[h] /\ ~inuse'[rest]
      /\ \A b \in Blocks \ {h} : inuse'[b] = inuse[b]
      /\ free' = <<rest>> \o RemoveAt(free, i)
  BY <1>1, SplitFacts
<1>3. /\ RemoveAt(free, i) \in Seq(Blocks)
      /\ IsInjective(RemoveAt(free, i))
      /\ ToSet(RemoveAt(free, i)) = ToSet(free) \ {h}
  BY <1>1, Unlink DEF IInv, TypeOK, FreeListExact
<1>4. /\ free' \in Seq(Blocks') /\ IsInjective(free')
      /\ ToSet(free') = (ToSet(free) \ {h}) \cup {rest}
  <2>1. RemoveAt(free, i) \in Seq(Blocks')
    BY <1>2, <1>3
  <2>2. rest \notin ToSet(RemoveAt(free, i)) /\ rest \in Blocks'
    BY <1>2, <1>3 DEF IInv, FreeListExact
  <2> QED BY <1>2, <1>3, <2>1, <2>2, Push
<1>5. TypeOK'
  <2>1. Blocks' \subseteq HeapBase..HeapBase + HeapSize - 1
    BY <1>2 DEF IInv, TypeOK
  <2> QED BY <1>2, <1>4, <2>1 DEF TypeOK
<1>6. \A b \in Blocks : b \in Nat /\ size[b] \in Nat \ {0} /\ End(b) \in Nat
  <2>1. HeapBase \in Nat /\ HeapSize \in Nat /\ HdrSize \in Nat
    BY HeapAssumption
  <2>2. \A b \in Blocks : b \in Nat /\ size[b] \in Nat \ {0}
    BY <2>1 DEF IInv, TypeOK, Blocks
  <2> QED BY <2>1, <2>2 DEF End
<1>7. h < rest /\ rest < End(h) /\ rest \in Nat
  <2>1. HdrSize \in Nat \ {0} /\ MinTail \in Nat \ {0}
    BY HeapAssumption
  <2>2. size[h] >= n + HdrSize + MinTail
    BY <1>1 DEF Splits
  <2>3. h \in Nat /\ size[h] \in Nat
    BY <1>2, <1>6
  <2>4. End(h) = h + HdrSize + size[h]
    BY DEF End
  <2> QED BY <1>1, <2>1, <2>2, <2>3, <2>4
<1>8. NoOverlap'
  <2> SUFFICES ASSUME NEW g \in Blocks', NEW b \in Blocks', g # b
               PROVE  End(g)' <= b \/ End(b)' <= g
    BY DEF NoOverlap
  <2>1. \A x, y \in Blocks : x # y => End(x) <= y \/ End(y) <= x
    BY DEF IInv, Tiled, NoOverlap
  <2>2. CASE g \in Blocks /\ b \in Blocks
    BY <1>2, <1>6, <1>7, <2>1, <2>2
  <2>3. CASE g = rest /\ b \in Blocks
    <3>1. b # h => End(h) <= b \/ End(b) <= h
      BY <1>2, <2>1, <2>3
    <3> QED BY <1>2, <1>6, <1>7, <2>3, <3>1
  <2>4. CASE b = rest /\ g \in Blocks
    <3>1. g # h => End(h) <= g \/ End(g) <= h
      BY <1>2, <2>1, <2>4
    <3> QED BY <1>2, <1>6, <1>7, <2>4, <3>1
  <2> QED BY <1>2, <2>2, <2>3, <2>4
<1>9. NoLeak'
  <2> SUFFICES ASSUME NEW a \in HeapBase..HeapBase + HeapSize - 1
               PROVE  \E b \in Blocks' : b <= a /\ a < End(b)'
    BY DEF NoLeak
  <2>1. PICK b \in Blocks : b <= a /\ a < End(b)
    BY DEF IInv, Tiled, NoLeak
  <2>2. CASE b # h
    BY <1>2, <2>1, <2>2
  <2>3. CASE b = h /\ a < rest
    BY <1>2, <2>1, <2>3
  <2>4. CASE b = h /\ ~(a < rest)
    <3>1. rest <= a
      BY <1>7, <2>4, HeapAssumption
    <3> QED BY <1>2, <2>1, <2>4, <3>1
  <2> QED BY <2>2, <2>3, <2>4
<1>10. Inside'
  <2> SUFFICES ASSUME NEW b \in Blocks' PROVE End(b)' <= HeapBase + HeapSize
    BY DEF Inside
  <2>1. \A x \in Blocks : End(x) <= HeapBase + HeapSize
    BY DEF IInv, Tiled, Inside
  <2>2. CASE b = h
    BY <1>2, <1>6, <1>7, <2>1, <2>2, HeapAssumption
  <2> QED BY <1>2, <2>1, <2>2
<1>11. FreeListExact'
  <2>1. ToSet(free') = {b \in Blocks' : ~inuse'[b]}
    BY <1>2, <1>4 DEF IInv, FreeListExact
  <2> QED BY <1>4, <2>1 DEF FreeListExact, IsInjective, ToSet
<1> QED BY <1>5, <1>8, <1>9, <1>10, <1>11 DEF IInv, Tiled

\* Giving a live block back (vm_free) keeps the invariant.
LEMMA FreeBlockInv ==
  ASSUME IInv, NEW h \in Blocks, FreeBlock(h)
  PROVE  IInv'
<1>1. /\ Blocks' = Blocks /\ size' = size /\ inuse[h] /\ free' = <<h>> \o free
      /\ inuse' \in [Blocks -> BOOLEAN]
      /\ \A b \in Blocks : inuse'[b] = (b # h /\ inuse[b])
      /\ Payload(h) \in Nat
      /\ last' = [op |-> "free", arg |-> Payload(h), ret |-> NULL]
  <2>1. h \in Nat /\ Payload(h) \in Nat
    BY HeapAssumption DEF Blocks, Payload, IInv, TypeOK
  <2>2. inuse \in [Blocks -> BOOLEAN]
    BY DEF IInv, TypeOK
  <2> QED BY <2>1, <2>2 DEF FreeBlock, Blocks
<1>2. h \notin ToSet(free)
  BY <1>1 DEF IInv, FreeListExact
<1>3. /\ free' \in Seq(Blocks) /\ IsInjective(free')
      /\ ToSet(free') = ToSet(free) \cup {h}
  BY <1>1, <1>2, Push DEF IInv, TypeOK, FreeListExact
<1>4. TypeOK'
  BY <1>1, <1>3 DEF IInv, TypeOK, Blocks, NULL
<1>5. Tiled'
  BY <1>1 DEF IInv, Tiled, NoOverlap, NoLeak, Inside, End, Blocks
<1>6. FreeListExact'
  <2>1. ToSet(free') = {b \in Blocks' : ~inuse'[b]}
    BY <1>1, <1>3 DEF IInv, FreeListExact
  <2> QED BY <1>3, <2>1 DEF FreeListExact, IsInjective, ToSet
<1> QED BY <1>4, <1>5, <1>6 DEF IInv

\* Calls that leave the allocator alone.
LEMMA SameHeapInv ==
  ASSUME IInv, UNCHANGED <<size, inuse, free>>,
         last' \in [op : {"start", "malloc", "free", "fatal"}, arg : Int, ret : Nat]
  PROVE  IInv'
BY DEF IInv, TypeOK, Tiled, NoOverlap, NoLeak, Inside, End, Blocks,
       FreeListExact, IsInjective, ToSet

\* Every call keeps the invariant.
LEMMA NextInv == IInv /\ [Next]_vars => IInv'
<1> SUFFICES ASSUME IInv, [Next]_vars PROVE IInv'
  OBVIOUS
<1> USE HeapAssumption
<1>1. ASSUME NEW req \in Requests, MallocFound(req) PROVE IInv'
  <2>1. PICK i \in DOMAIN free :
          /\ IF Splits(free[i], Want(req)) THEN TakeFront(i, Want(req)) ELSE TakeWhole(i)
          /\ last' = [op |-> "malloc", arg |-> req, ret |-> Payload(free[i])]
    BY <1>1 DEF MallocFound
  <2>2. last' \in [op : {"start", "malloc", "free", "fatal"}, arg : Int, ret : Nat]
    BY <2>1, FoundBlock DEF Payload
  <2>3. Want(req) \in Nat \ {0}
    BY WantRange
  <2>4. CASE Splits(free[i], Want(req))
    BY <2>1, <2>2, <2>3, <2>4, TakeFrontInv
  <2>5. CASE ~Splits(free[i], Want(req))
    BY <2>1, <2>2, <2>5, TakeWholeInv
  <2> QED BY <2>4, <2>5
<1>2. ASSUME NEW req \in Requests, MallocNull(req) PROVE IInv'
  <2>1. last' \in [op : {"start", "malloc", "free", "fatal"}, arg : Int, ret : Nat]
    BY <1>2 DEF MallocNull, NULL
  <2> QED BY <1>2, <2>1, SameHeapInv DEF MallocNull
<1>3. CASE FreeNull
  <2>1. last' \in [op : {"start", "malloc", "free", "fatal"}, arg : Int, ret : Nat]
    BY <1>3 DEF FreeNull, NULL
  <2> QED BY <1>3, <2>1, SameHeapInv DEF FreeNull
<1>4. ASSUME NEW h \in Blocks, FreeBlock(h) PROVE IInv'
  BY <1>4, FreeBlockInv
<1>5. ASSUME NEW p, FreeRefused(p) PROVE IInv'
  <2>1. p \in Int
    BY <1>5 DEF FreeRefused, Payload, IInv, TypeOK, Blocks
  <2>2. last' \in [op : {"start", "malloc", "free", "fatal"}, arg : Int, ret : Nat]
    BY <1>5, <2>1 DEF FreeRefused, NULL
  <2> QED BY <1>5, <2>2, SameHeapInv DEF FreeRefused
<1>6. CASE UNCHANGED vars
  BY <1>6, SameHeapInv DEF vars, IInv, TypeOK
<1> QED BY <1>1, <1>2, <1>3, <1>4, <1>5, <1>6 DEF Next

\* Spec keeps the inductive invariant.
THEOREM Inductive == Spec => []IInv
  BY InitInv, NextInv, PTL DEF Spec

\* The allocator's state keeps its types, whatever the calls.
THEOREM TypeCorrect == Spec => []TypeOK
<1>1. IInv => TypeOK
  BY DEF IInv
<1> QED BY <1>1, Inductive, PTL

\* Blocks always tile the arena: no two overlap and no byte is lost.
THEOREM AlwaysTiled == Spec => []Tiled
<1>1. IInv => Tiled
  BY DEF IInv
<1> QED BY <1>1, Inductive, PTL

\* The free list is always exactly the blocks not in use.
THEOREM FreeListAlwaysExact == Spec => []FreeListExact
<1>1. IInv => FreeListExact
  BY DEF IInv
<1> QED BY <1>1, Inductive, PTL

\* Every block a free block has been: the list names it.
LEMMA FreeIsListed ==
  ASSUME IInv, NEW h \in Blocks, ~inuse[h]
  PROVE  \E i \in DOMAIN free : free[i] = h
BY DEF IInv, FreeListExact, ToSet

\* malloc never gives up while a block that fits is free.
THEOREM NullOnlyWhenFull == Spec => []NullMeansFull
<1>1. Init => NullMeansFull
  BY DEF Init, NullMeansFull
<1>2. IInv /\ NullMeansFull /\ [Next]_vars => NullMeansFull'
  <2> SUFFICES ASSUME IInv, NullMeansFull, [Next]_vars PROVE NullMeansFull'
    OBVIOUS
  <2>1. ASSUME NEW req \in Requests, MallocFound(req) PROVE NullMeansFull'
    <3>1. PICK i \in DOMAIN free :
            last' = [op |-> "malloc", arg |-> req, ret |-> Payload(free[i])]
      BY <2>1 DEF MallocFound
    <3>2. Payload(free[i]) # NULL
      BY FoundBlock, HeapAssumption DEF Payload, NULL
    <3> QED BY <3>1, <3>2 DEF NullMeansFull
  <2>2. ASSUME NEW req \in Requests, MallocNull(req) PROVE NullMeansFull'
    <3>1. \A h \in Blocks : ~inuse[h] => size[h] < Want(req)
      BY <2>2, FreeIsListed DEF MallocNull
    <3> QED BY <2>2, <3>1 DEF MallocNull, NullMeansFull, Blocks, Want, Narrowed
  <2>3. CASE FreeNull
    BY <2>3 DEF FreeNull, NullMeansFull
  <2>4. ASSUME NEW h \in Blocks, FreeBlock(h) PROVE NullMeansFull'
    BY <2>4 DEF FreeBlock, NullMeansFull
  <2>5. ASSUME NEW p, FreeRefused(p) PROVE NullMeansFull'
    BY <2>5 DEF FreeRefused, NullMeansFull
  <2>6. CASE UNCHANGED vars
    BY <2>6 DEF vars, NullMeansFull, Blocks, Want, Narrowed
  <2> QED BY <2>1, <2>2, <2>3, <2>4, <2>5, <2>6 DEF Next
<1> QED BY <1>1, <1>2, Inductive, PTL DEF Spec

-----------------------------------------------------------------------------
\* What a malloc that finds a block changes: one free block becomes live, at
\* its own address, with at least the bytes asked for.
LEMMA MallocFoundEffect ==
  ASSUME IInv, NEW req \in Requests, MallocFound(req)
  PROVE  \E h \in Blocks :
           /\ ~inuse[h] /\ h \in Nat
           /\ size'[h] \in Nat \ {0} /\ size'[h] >= Want(req)
           /\ h + HdrSize + size'[h] <= HeapBase + HeapSize
           /\ Blocks \subseteq Blocks'
           /\ inuse'[h]
           /\ \A b \in Blocks \ {h} : size'[b] = size[b] /\ inuse'[b] = inuse[b]
           /\ \A b \in Blocks' \ Blocks : ~inuse'[b]
           /\ last' = [op |-> "malloc", arg |-> req, ret |-> Payload(h)]
<1>1. PICK i \in DOMAIN free :
        /\ FirstFit(i, Want(req))
        /\ IF Splits(free[i], Want(req)) THEN TakeFront(i, Want(req)) ELSE TakeWhole(i)
        /\ last' = [op |-> "malloc", arg |-> req, ret |-> Payload(free[i])]
  BY DEF MallocFound
<1>2. PICK h, rest : h = free[i] /\ rest = h + HdrSize + Want(req)
  OBVIOUS
<1>3. h \in Blocks /\ ~inuse[h] /\ h \in Nat /\ size[h] \in Nat \ {0}
  BY <1>2, FoundBlock
<1>4. Want(req) \in Nat \ {0} /\ size[h] >= Want(req)
  BY <1>1, <1>2, WantRange, HeapAssumption DEF FirstFit
<1>5. End(h) <= HeapBase + HeapSize
  BY <1>3 DEF IInv, Tiled, Inside
<1>6. CASE Splits(free[i], Want(req))
  <2>1. /\ rest \in HeapBase..HeapBase + HeapSize - 1
        /\ Blocks' = Blocks \cup {rest}
        /\ size'[h] = Want(req)
        /\ inuse'[h] /\ ~inuse'[rest]
        /\ \A b \in Blocks \ {h} : size'[b] = size[b] /\ inuse'[b] = inuse[b]
    <3>1. PICK n : n = Want(req)
      OBVIOUS
    <3>2. /\ n \in Nat \ {0} /\ Splits(free[i], n) /\ TakeFront(i, n)
          /\ h = free[i] /\ rest = h + HdrSize + n
      BY <1>1, <1>2, <1>4, <1>6, <3>1
    <3>3. /\ h \in Blocks /\ ~inuse[h] /\ h \in Nat
          /\ rest \in HeapBase..HeapBase + HeapSize - 1 /\ rest \notin Blocks
          /\ Blocks' = Blocks \cup {rest}
          /\ size'[h] = n /\ End(h)' = rest
          /\ size'[rest] \in Nat \ {0} /\ End(rest)' = End(h)
          /\ \A b \in Blocks \ {h} : size'[b] = size[b] /\ End(b)' = End(b)
          /\ size' \in [Blocks' -> Nat \ {0}]
          /\ inuse' \in [Blocks' -> BOOLEAN]
          /\ inuse'[h] /\ ~inuse'[rest]
          /\ \A b \in Blocks \ {h} : inuse'[b] = inuse[b]
          /\ free' = <<rest>> \o RemoveAt(free, i)
      BY <3>2, SplitFacts
    <3> QED BY <3>1, <3>3
  <2>2. h + HdrSize + size'[h] <= HeapBase + HeapSize
    BY <1>2, <2>1, HeapAssumption
  <2>3. size'[h] >= Want(req)
    BY <1>4, <2>1
  <2> QED BY <1>1, <1>2, <1>3, <1>4, <2>1, <2>2, <2>3
<1>7. CASE ~Splits(free[i], Want(req))
  <2>1. /\ Blocks' = Blocks /\ size' = size
        /\ inuse'[h] /\ \A b \in Blocks \ {h} : inuse'[b] = inuse[b]
    BY <1>1, <1>2, <1>3, <1>7 DEF TakeWhole, Blocks, IInv, TypeOK
  <2> QED BY <1>1, <1>2, <1>3, <1>4, <1>5, <2>1 DEF End
<1> QED BY <1>6, <1>7

\* No call moves, resizes or drops a region that is live across it.
THEOREM OthersUntouched == Spec => LiveBlocksUntouched
<1> DEFINE A == \A h \in Blocks :
                  /\ h \in DOMAIN size'
                  /\ inuse[h] => size'[h] = size[h]
                  /\ inuse[h] /\ ~inuse'[h] => last'.op = "free" /\ last'.arg = Payload(h)
<1>1. IInv /\ [Next]_vars => [A]_vars
  <2> SUFFICES ASSUME IInv, Next PROVE A
    OBVIOUS
  <2>1. ASSUME NEW req \in Requests, MallocFound(req) PROVE A
    BY <2>1, MallocFoundEffect DEF Blocks
  <2>2. ASSUME NEW req \in Requests, MallocNull(req) PROVE A
    BY <2>2 DEF MallocNull, Blocks
  <2>3. CASE FreeNull
    BY <2>3 DEF FreeNull, Blocks
  <2>4. ASSUME NEW h \in Blocks, FreeBlock(h) PROVE A
    BY <2>4 DEF FreeBlock, Blocks, IInv, TypeOK
  <2>5. ASSUME NEW p, FreeRefused(p) PROVE A
    BY <2>5 DEF FreeRefused, Blocks
  <2> QED BY <2>1, <2>2, <2>3, <2>4, <2>5 DEF Next
<1> QED BY <1>1, Inductive, PTL DEF Spec, LiveBlocksUntouched

-----------------------------------------------------------------------------
\* Requests that a uint32_t can hold: narrowing leaves them alone, or turns a
\* negative one into something larger.
NoNarrowing == \A req \in Requests : req < WordMod

\* A request that is not narrowed gets at least its size.
LEMMA WantEnough ==
  ASSUME NoNarrowing, NEW req \in Requests
  PROVE  Want(req) >= req
<1>1. req \in Int /\ WordMod \in Nat \ {0} /\ req < WordMod
  BY HeapAssumption DEF NoNarrowing
<1>2. req % WordMod \in Nat /\ (req >= 0 => req % WordMod = req)
  BY <1>1
<1> QED BY <1>1, <1>2 DEF Want, Narrowed

\* A pointer names one block.
LEMMA LiveRegions ==
  ASSUME IInv
  PROVE  /\ DOMAIN live = {Payload(h) : h \in {b \in Blocks : inuse[b]}}
         /\ \A h \in Blocks : /\ h \in Nat /\ size[h] \in Nat /\ Payload(h) \in Nat
                              /\ Payload(h) - HdrSize = h
                              /\ HeapBase + HdrSize <= Payload(h)
                              /\ Payload(h) <= HeapBase + HeapSize - 1
                              /\ Payload(h) \in DOMAIN live <=> inuse[h]
                              /\ inuse[h] => live[Payload(h)] = size[h]
<1>1. DOMAIN live = {Payload(h) : h \in {b \in Blocks : inuse[b]}}
  BY DEF live
<1>2. ASSUME NEW h \in Blocks
      PROVE  /\ h \in Nat /\ size[h] \in Nat \ {0} /\ Payload(h) \in Nat
             /\ Payload(h) - HdrSize = h
             /\ HeapBase + HdrSize <= Payload(h)
             /\ Payload(h) <= HeapBase + HeapSize - 1
  <2>1. h \in HeapBase..HeapBase + HeapSize - 1 /\ size[h] \in Nat \ {0}
    BY DEF IInv, TypeOK, Blocks
  <2>2. h + HdrSize + size[h] <= HeapBase + HeapSize
    BY DEF IInv, Tiled, Inside, End
  <2> QED BY <2>1, <2>2, HeapAssumption DEF Payload
<1>3. \A g, h \in Blocks : Payload(g) = Payload(h) => g = h
  BY <1>2
<1>4. ASSUME NEW h \in Blocks
      PROVE  /\ Payload(h) \in DOMAIN live <=> inuse[h]
             /\ inuse[h] => live[Payload(h)] = size[h]
  BY <1>1, <1>2, <1>3 DEF live
<1> QED BY <1>1, <1>2, <1>4

\* heap_init starts with no live region.
LEMMA InitKeepsPromise == Init => Promise!Init
<1> SUFFICES ASSUME Init PROVE Promise!Init
  OBVIOUS
<1>1. {b \in Blocks : inuse[b]} = {}
  BY DEF Init, Blocks
<1>2. live = [p \in {} |-> 0]
  BY <1>1 DEF live
<1> QED BY <1>2 DEF Init, Promise!Init, Promise!NULL, NULL

\* A malloc that finds a block grants a fresh region of the promise.
LEMMA GrantStep ==
  ASSUME IInv, IInv', NoNarrowing, NEW req \in Requests, MallocFound(req)
  PROVE  Promise!Grant(req)
<1> USE HeapAssumption
<1>1. PICK h \in Blocks :
        /\ ~inuse[h] /\ h \in Nat
        /\ size'[h] \in Nat \ {0} /\ size'[h] >= Want(req)
        /\ h + HdrSize + size'[h] <= HeapBase + HeapSize
        /\ Blocks \subseteq Blocks'
        /\ inuse'[h]
        /\ \A b \in Blocks \ {h} : size'[b] = size[b] /\ inuse'[b] = inuse[b]
        /\ \A b \in Blocks' \ Blocks : ~inuse'[b]
        /\ last' = [op |-> "malloc", arg |-> req, ret |-> Payload(h)]
  BY MallocFoundEffect
<1> DEFINE p == h + HdrSize
           s == size'[h]
<1>2. Promise!Running
  BY DEF MallocFound, Running, Promise!Running
<1>3. p \in HeapBase..HeapBase + HeapSize /\ s \in 1..HeapSize
  <2>1. HeapBase \in Nat \ {0} /\ HeapSize \in Nat /\ HdrSize \in Nat \ {0}
    OBVIOUS
  <2>2. h \in Nat /\ HeapBase <= h
    BY <1>1, <2>1 DEF IInv, TypeOK, Blocks
  <2> QED BY <1>1, <2>1, <2>2
<1>4. s >= req
  BY <1>1, WantEnough, WantRange
<1>5. {b \in Blocks' : inuse'[b]} = {b \in Blocks : inuse[b]} \cup {h}
  BY <1>1
<1>6. live' = [q \in DOMAIN live \cup {p} |-> IF q = p THEN s ELSE live[q]]
  <2>1. DOMAIN live' = DOMAIN live \cup {p}
    BY <1>5, LiveRegions DEF live, Payload
  <2>2. live' = [q \in DOMAIN live' |-> size'[q - HdrSize]]
    BY DEF live
  <2>3. p - HdrSize = h
    BY <1>1
  <2>4. ASSUME NEW q \in DOMAIN live, q # p PROVE size'[q - HdrSize] = live[q]
    <3>1. PICK b \in Blocks : inuse[b] /\ q = Payload(b)
      BY <2>4, LiveRegions
    <3>2. b # h /\ q - HdrSize = b /\ live[q] = size[b]
      BY <1>1, <3>1, LiveRegions
    <3> QED BY <1>1, <3>2
  <2> QED BY <2>1, <2>2, <2>3, <2>4
<1>7. Promise!Fresh(p, s)
  <2>1. HeapBase < p /\ p + s <= HeapBase + HeapSize
    <3>1. HeapBase \in Nat /\ HdrSize \in Nat \ {0}
      OBVIOUS
    <3>2. HeapBase <= h
      BY <3>1 DEF IInv, TypeOK, Blocks
    <3> QED BY <1>1, <3>1, <3>2
  <2>2. ASSUME NEW q \in DOMAIN live PROVE p + s <= q \/ q + live[q] <= p
    <3>1. PICK b \in Blocks : inuse[b] /\ q = Payload(b)
      BY LiveRegions
    <3>2. b # h /\ live[q] = size'[b] /\ b \in Nat /\ size[b] \in Nat
      BY <1>1, <3>1, LiveRegions
    <3>3. h + HdrSize + size'[h] <= b \/ b + HdrSize + size'[b] <= h
      BY <1>1, <3>2 DEF IInv, Tiled, NoOverlap, End
    <3>4. size'[b] \in Nat
      BY <1>1, <3>2
    <3> QED BY <1>1, <3>1, <3>2, <3>3, <3>4 DEF Payload
  <2> QED BY <2>1, <2>2 DEF Promise!Fresh
<1>8. last' = [op |-> "malloc", arg |-> req, ret |-> p]
  BY <1>1 DEF Payload
<1> HIDE DEF p, s
<1> QED BY <1>2, <1>3, <1>4, <1>6, <1>7, <1>8 DEF Promise!Grant

\* An accepted free releases the region it names and no other.
LEMMA ReleaseStep ==
  ASSUME IInv, IInv', NEW h \in Blocks, FreeBlock(h)
  PROVE  Promise!Release(Payload(h))
<1>1. /\ Blocks' = Blocks /\ size' = size /\ inuse[h]
      /\ \A b \in Blocks : inuse'[b] = (b # h /\ inuse[b])
  BY DEF FreeBlock, Blocks, IInv, TypeOK
<1>2. {b \in Blocks' : inuse'[b]} = {b \in Blocks : inuse[b]} \ {h}
  BY <1>1
<1>3. DOMAIN live' = DOMAIN live \ {Payload(h)}
  <2>1. DOMAIN live' = {Payload(b) : b \in {b \in Blocks : inuse[b]} \ {h}}
    BY <1>2 DEF live, Payload
  <2>2. \A b \in Blocks : Payload(b) = Payload(h) => b = h
    BY LiveRegions
  <2> QED BY <2>1, <2>2, LiveRegions
<1>4. live' = [q \in DOMAIN live \ {Payload(h)} |-> live[q]]
  BY <1>1, <1>3 DEF live
<1>5. Payload(h) \in DOMAIN live
  BY <1>1, LiveRegions
<1> QED BY <1>4, <1>5 DEF FreeBlock, Running, Promise!Running, Promise!Release,
                          NULL, Promise!NULL

\* Calls that change no header change no region.
LEMMA SameLive == UNCHANGED <<size, inuse>> => UNCHANGED live
BY DEF live, Blocks, Payload

\* Every call is a step of the promise.
LEMMA StepKeepsPromise ==
  IInv /\ IInv' /\ NoNarrowing /\ [Next]_vars => [Promise!Next]_(Promise!vars)
<1> SUFFICES ASSUME IInv, IInv', NoNarrowing, [Next]_vars
             PROVE  [Promise!Next]_(Promise!vars)
  OBVIOUS
<1> USE DEF Running, Promise!Running, NULL, Promise!NULL
<1>1. ASSUME NEW req \in Requests, MallocFound(req) PROVE Promise!Next
  BY <1>1, GrantStep DEF Promise!Next
<1>2. ASSUME NEW req \in Requests, MallocNull(req) PROVE Promise!Next
  <2>1. Promise!Decline(req)
    BY <1>2, SameLive DEF MallocNull, Promise!Decline
  <2> QED BY <2>1 DEF Promise!Next
<1>3. ASSUME FreeNull PROVE Promise!Next
  <2>1. Promise!ReleaseNull
    BY <1>3, SameLive DEF FreeNull, Promise!ReleaseNull
  <2> QED BY <2>1 DEF Promise!Next
<1>4. ASSUME NEW h \in Blocks, FreeBlock(h) PROVE Promise!Next
  <2>1. Promise!Release(Payload(h))
    BY <1>4, ReleaseStep
  <2>2. Payload(h) \in WildPointers \cup HeapBase..HeapBase + HeapSize
    BY LiveRegions, HeapAssumption
  <2> QED BY <2>1, <2>2 DEF Promise!Next
<1>5. ASSUME NEW p, FreeRefused(p) PROVE Promise!Next
  <2>1. p \in WildPointers \/ \E h \in Blocks : p = Payload(h) /\ ~inuse[h]
    BY <1>5 DEF FreeRefused
  <2>2. p \in WildPointers \cup HeapBase..HeapBase + HeapSize /\ p # 0
    BY <2>1, LiveRegions, HeapAssumption
  <2>3. p \notin DOMAIN live
    <3>1. CASE p \in WildPointers
      BY <3>1, LiveRegions, HeapAssumption
    <3>2. CASE \E h \in Blocks : p = Payload(h) /\ ~inuse[h]
      BY <3>2, LiveRegions
    <3> QED BY <2>1, <3>1, <3>2
  <2>4. Promise!Refuse(p)
    BY <1>5, <2>2, <2>3, SameLive DEF FreeRefused, Promise!Refuse
  <2> QED BY <2>2, <2>4 DEF Promise!Next
<1>6. CASE UNCHANGED vars
  BY <1>6, SameLive DEF vars, Promise!vars
<1> QED BY <1>1, <1>2, <1>3, <1>4, <1>5, <1>6 DEF Next

\* The allocator implements its promise, as long as no request is narrowed.
THEOREM ImplementsPromise ==
  ASSUME NoNarrowing
  PROVE  Spec => KeepsPromise
<1>1. IInv /\ IInv' /\ [Next]_vars => [Promise!Next]_(Promise!vars)
  BY StepKeepsPromise
<1> QED BY <1>1, InitKeepsPromise, Inductive, PTL DEF Spec, KeepsPromise, Promise!Spec
=============================================================================
