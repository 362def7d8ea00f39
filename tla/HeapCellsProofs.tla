--------------------------- MODULE HeapCellsProofs ---------------------------
(***************************************************************************)
(* Proofs about HeapCells: the allocator's words in memory implement the   *)
(* allocator of blocks, for every arena, word and radix, and whatever the  *)
(* program stores in the regions it holds.                                 *)
(*                                                                         *)
(* The headers of a set B of blocks are read as three functions of B       *)
(* (Fields).  A call is a few header writes: each changes one function at  *)
(* one block.  What the functions then say of the arena (Layout) and of    *)
(* the list (Linked) needs no memory.                                      *)
(***************************************************************************)
EXTENDS HeapCells, SequencesExt, MemoryProofs, SequenceTheorems, FiniteSetTheorems

Fields(m, B, f) == [h \in B |-> HdrGet(m, h, f)]

\* A header at h lies in the arena; two headers share no cell.
Room(h) == HeapBase <= h /\ h + HdrSize <= ArenaEnd
Apart(g, h) == g + HdrSize <= h \/ h + HdrSize <= g
Headers(B) == /\ \A h \in B : h \in Int /\ Room(h)
              /\ \A g, h \in B : g # h => Apart(g, h)

\* The blocks B of these sizes lie end to end from the arena's start to its end.
Layout(B, sz) ==
  /\ B \in SUBSET Arena /\ HeapBase \in B
  /\ sz \in [B -> Nat \ {0}]
  /\ \A h \in B : /\ h + HdrSize + sz[h] \in B \cup {ArenaEnd}
                  /\ \A g \in B : g <= h \/ h + HdrSize + sz[h] <= g

\* The links nx lead from head through s to NULL.
At(s, i) == IF i \in DOMAIN s THEN s[i] ELSE NULL
Links(nx, head, s) == head = At(s, 1) /\ \A i \in DOMAIN s : nx[s[i]] = At(s, i + 1)

\* The list is the blocks that are not in use, once each.
Listed(B, fl, s) == /\ fl \in [B -> {0, 1}]
                    /\ s \in Seq(B) /\ IsInjective(s)
                    /\ ToSet(s) = {h \in B : fl[h] = 0}

\* Memory holds the blocks B, and the free list s from head on.
Holds(m, head, B, s) ==
  /\ m \in [Arena -> Cell]
  /\ Layout(B, Fields(m, B, SizeOff))
  /\ Listed(B, Fields(m, B, InuseOff), s)
  /\ Links(Fields(m, B, NextOff), head, s)

\* The inductive invariant.  What the walks through memory meet is a layout and
\* its free blocks: TypeOK and ListIsBlocks say nothing of the sizes, which are
\* what keeps the words of a header apart from the program's.
IInv == Holds(mem, heapFreeHead, Starts, Chain)

-----------------------------------------------------------------------------
\* The constants, as the provers need them.
LEMMA Sizes ==
  /\ HeapBase \in Nat \ {0} /\ Word \in Nat \ {0} /\ HeapSize \in Nat /\ HeapSize > HdrSize
  /\ HdrSize \in Nat \ {0} /\ MinTail \in Nat \ {0}
  /\ HdrSize = Word + Word + Word
  /\ ArenaEnd \in Nat /\ ArenaEnd = HeapBase + HeapSize /\ ArenaEnd < WordMod /\ WordMod \in Nat
  /\ Arena \in SUBSET Int
BY CellsAssumption DEF HdrSize, MinTail, ArenaEnd, Arena

\* The first cell of field f of a header.
LEMMA FieldAt ==
  ASSUME NEW h \in Int, NEW f \in {0, 1, 2}
  PROVE  /\ h + f * Word \in Int
         /\ f = 0 => h + f * Word = h
         /\ f = 1 => h + f * Word = h + Word
         /\ f = 2 => h + f * Word = h + Word + Word
BY CellsAssumption

\* A number below WordMod fits in a header field.
LEMMA WordFits ==
  ASSUME NEW v \in 0..WordMod - 1
  PROVE  Fits(v, Word)
BY CellsAssumption DEF Fits

\* The cells of a header's fields are cells of the arena.
LEMMA FieldCells ==
  ASSUME NEW h \in Int, Room(h), NEW f \in {0, 1, 2}
  PROVE  \A i \in 0..Word - 1 : h + f * Word + i \in Arena /\ h <= h + f * Word + i
                                /\ h + f * Word + i < h + HdrSize
<1> TAKE i \in 0..Word - 1
<1>1. h + f * Word + i = h + i \/ h + f * Word + i = h + Word + i \/ h + f * Word + i = h + Word + Word + i
  BY FieldAt
<1>2. i \in Int /\ 0 <= i /\ i < Word BY Sizes
<1> QED BY <1>1, <1>2, Sizes DEF Room, Arena

LEMMA FieldReadable ==
  ASSUME NEW m \in [Arena -> Cell], NEW h \in Int, Room(h), NEW f \in {0, 1, 2}
  PROVE  Readable(m, h + f * Word, Word)
BY FieldCells DEF Readable

\* A field is a number.
LEMMA FieldType ==
  ASSUME NEW m \in [Arena -> Cell], NEW h \in Int, Room(h), NEW f \in {0, 1, 2}
  PROVE  HdrGet(m, h, f) \in Nat
BY FieldReadable, FieldAt, Sizes, GetUType DEF HdrGet

\* A field whose cells a write leaves alone keeps its value.
LEMMA FieldKept ==
  ASSUME NEW m \in [Arena -> Cell], NEW w, NEW h \in Int, Room(h), NEW f \in {0, 1, 2},
         \A i \in 0..Word - 1 : w[h + f * Word + i] = m[h + f * Word + i]
  PROVE  HdrGet(w, h, f) = HdrGet(m, h, f)
BY FieldReadable, FieldAt, Sizes, GetUSame DEF HdrGet

\* hdr_set: the field is written, and nothing else.
LEMMA SetField ==
  ASSUME NEW m \in [Arena -> Cell], NEW h \in Int, Room(h), NEW f \in {0, 1, 2},
         NEW v \in 0..WordMod - 1
  PROVE  /\ HdrSet(m, h, f, v) \in [Arena -> Cell]
         /\ \A a \in Arena : a < h \/ h + HdrSize <= a => HdrSet(m, h, f, v)[a] = m[a]
         /\ HdrGet(HdrSet(m, h, f, v), h, f) = v
         /\ \A e \in {0, 1, 2} \ {f} : HdrGet(HdrSet(m, h, f, v), h, e) = HdrGet(m, h, e)
         /\ \A g \in Int : Room(g) /\ Apart(g, h) =>
              \A e \in {0, 1, 2} : HdrGet(HdrSet(m, h, f, v), g, e) = HdrGet(m, g, e)
<1> DEFINE a0 == h + f * Word
           w == HdrSet(m, h, f, v)
<1>1. a0 \in Int /\ Word \in Nat /\ v \in Nat /\ Fits(v, Word) /\ Arena \in SUBSET Int
  BY FieldAt, Sizes, WordFits
<1>2. w = PutU(m, a0, Word, v) BY DEF HdrSet
<1>3. \A i \in 0..Word - 1 : a0 + i \in Arena BY FieldCells
<1> HIDE DEF w, a0
<1>4. /\ w \in [Arena -> Cell]
      /\ \A b \in Arena : b < a0 \/ b >= a0 + Word => w[b] = m[b]
  BY <1>1, <1>2, PutUType
<1>5. GetU(w, a0, Word) = v BY <1>1, <1>2, <1>3, ReadBack
<1>6. HdrGet(w, h, f) = v BY <1>5 DEF HdrGet, a0
<1>7. (f = 0 => a0 = h) /\ (f = 1 => a0 = h + Word) /\ (f = 2 => a0 = h + Word + Word)
  BY FieldAt DEF a0
<1>8. \A a \in Arena : a < h \/ h + HdrSize <= a => w[a] = m[a]
  <2> TAKE a \in Arena
  <2>1. a \in Int BY <1>1
  <2> QED BY <1>1, <1>4, <1>7, <2>1, Sizes
<1>9. ASSUME NEW e \in {0, 1, 2} \ {f} PROVE HdrGet(w, h, e) = HdrGet(m, h, e)
  <2>1. ASSUME NEW i \in 0..Word - 1 PROVE w[h + e * Word + i] = m[h + e * Word + i]
    <3> DEFINE b == h + e * Word + i
    <3>1. b \in Arena BY FieldCells
    <3>2. b = h + i \/ b = h + Word + i \/ b = h + Word + Word + i BY FieldAt
    <3>3. (e = 0 => b = h + i) /\ (e = 1 => b = h + Word + i) /\ (e = 2 => b = h + Word + Word + i)
      BY FieldAt
    <3>4. i \in Int /\ 0 <= i /\ i < Word BY <1>1
    <3> HIDE DEF b
    <3>5. b < a0 \/ b >= a0 + Word BY <1>1, <1>7, <3>3, <3>4
    <3> QED BY <1>4, <3>1, <3>5 DEF b
  <2> QED BY <2>1, FieldKept
<1>10. ASSUME NEW g \in Int, Room(g), Apart(g, h), NEW e \in {0, 1, 2}
       PROVE  HdrGet(w, g, e) = HdrGet(m, g, e)
  <2>1. ASSUME NEW i \in 0..Word - 1 PROVE w[g + e * Word + i] = m[g + e * Word + i]
    <3> DEFINE b == g + e * Word + i
    <3>1. b \in Arena /\ g <= b /\ b < g + HdrSize BY <1>10, FieldCells
    <3> HIDE DEF b
    <3>2. b \in Int BY <1>1, <3>1
    <3>3. b < h \/ h + HdrSize <= b BY <1>10, <3>1, <3>2, Sizes DEF Apart
    <3> QED BY <1>8, <3>1, <3>3 DEF b
  <2> QED BY <1>10, <2>1, FieldKept
<1> QED BY <1>4, <1>6, <1>8, <1>9, <1>10 DEF w

-----------------------------------------------------------------------------
\* The headers of a layout have room and are apart.
LEMMA LayoutHeaders ==
  ASSUME NEW B, NEW sz, Layout(B, sz)
  PROVE  /\ Headers(B)
         /\ \A h \in B : h \in Nat \ {0} /\ sz[h] \in Nat \ {0} /\ h + HdrSize + sz[h] <= ArenaEnd
<1>1. \A h \in B : h \in Nat \ {0} /\ HeapBase <= h /\ h < ArenaEnd BY Sizes DEF Layout, Arena
<1>2. \A h \in B : sz[h] \in Nat \ {0} BY DEF Layout
<1>3. ASSUME NEW h \in B PROVE h + HdrSize + sz[h] <= ArenaEnd
  <2>1. h + HdrSize + sz[h] \in B \/ h + HdrSize + sz[h] = ArenaEnd BY DEF Layout
  <2> QED BY <1>1, <1>2, <2>1, Sizes
<1>4. \A h \in B : Room(h) BY <1>1, <1>2, <1>3, Sizes DEF Room
<1>5. ASSUME NEW g \in B, NEW h \in B, g # h PROVE Apart(g, h)
  <2>1. g <= h \/ h + HdrSize + sz[h] <= g BY DEF Layout
  <2>2. h <= g \/ g + HdrSize + sz[g] <= h BY DEF Layout
  <2>3. g \in Nat /\ h \in Nat /\ sz[g] \in Nat /\ sz[h] \in Nat BY <1>1, <1>2
  <2> QED BY <1>5, <2>1, <2>2, <2>3, Sizes DEF Apart
<1> QED BY <1>1, <1>2, <1>3, <1>4, <1>5 DEF Headers

\* Writing a field of a listed header changes that field's function there.
Written(m, w, B, h, f, v) ==
  /\ w \in [Arena -> Cell]
  /\ \A a \in Arena : a < h \/ h + HdrSize <= a => w[a] = m[a]
  /\ Fields(w, B, f) = [Fields(m, B, f) EXCEPT ![h] = v]
  /\ \A e \in {0, 1, 2} \ {f} : Fields(w, B, e) = Fields(m, B, e)

LEMMA WriteField ==
  ASSUME NEW B, Headers(B), NEW m \in [Arena -> Cell], NEW h \in B, NEW f \in {0, 1, 2},
         NEW v \in 0..WordMod - 1
  PROVE  Written(m, HdrSet(m, h, f, v), B, h, f, v)
<1> DEFINE w == HdrSet(m, h, f, v)
<1>1. h \in Int /\ Room(h) BY DEF Headers
<1>2. /\ w \in [Arena -> Cell]
      /\ \A a \in Arena : a < h \/ h + HdrSize <= a => w[a] = m[a]
      /\ HdrGet(w, h, f) = v
      /\ \A e \in {0, 1, 2} \ {f} : HdrGet(w, h, e) = HdrGet(m, h, e)
      /\ \A g \in Int : Room(g) /\ Apart(g, h) => \A e \in {0, 1, 2} : HdrGet(w, g, e) = HdrGet(m, g, e)
  BY <1>1, SetField
<1> HIDE DEF w
<1>3. \A g \in B \ {h} : \A e \in {0, 1, 2} : HdrGet(w, g, e) = HdrGet(m, g, e)
  BY <1>2 DEF Headers
<1>4. Fields(w, B, f) = [Fields(m, B, f) EXCEPT ![h] = v] BY <1>2, <1>3 DEF Fields
<1>5. \A e \in {0, 1, 2} \ {f} : Fields(w, B, e) = Fields(m, B, e) BY <1>2, <1>3 DEF Fields
<1> QED BY <1>2, <1>4, <1>5 DEF w, Written

\* Writing a new header between the listed ones leaves theirs alone.
NewHeader(m, w, B, h, size, next, inuse) ==
  /\ w \in [Arena -> Cell]
  /\ \A a \in Arena : a < h \/ h + HdrSize <= a => w[a] = m[a]
  /\ HdrGet(w, h, SizeOff) = size /\ HdrGet(w, h, NextOff) = next /\ HdrGet(w, h, InuseOff) = inuse
  /\ \A e \in {0, 1, 2} : Fields(w, B, e) = Fields(m, B, e)

LEMMA WriteHeader ==
  ASSUME NEW B, Headers(B), NEW m \in [Arena -> Cell],
         NEW h \in Int, Room(h), \A g \in B : Apart(g, h),
         NEW size \in 0..WordMod - 1, NEW next \in 0..WordMod - 1, NEW inuse \in 0..WordMod - 1
  PROVE  NewHeader(m, SetHdr(m, h, size, next, inuse), B, h, size, next, inuse)
<1> DEFINE w1 == HdrSet(m, h, SizeOff, size)
           w2 == HdrSet(w1, h, NextOff, next)
           w3 == HdrSet(w2, h, InuseOff, inuse)
           D(w, u, f, v) ==
             /\ w \in [Arena -> Cell]
             /\ \A a \in Arena : a < h \/ h + HdrSize <= a => w[a] = u[a]
             /\ HdrGet(w, h, f) = v
             /\ \A e \in {0, 1, 2} \ {f} : HdrGet(w, h, e) = HdrGet(u, h, e)
             /\ \A g \in Int : Room(g) /\ Apart(g, h) => \A e \in {0, 1, 2} : HdrGet(w, g, e) = HdrGet(u, g, e)
<1> USE DEF SizeOff, NextOff, InuseOff
<1>1. D(w1, m, 0, size) BY SetField
<1> HIDE DEF w1
<1>2. D(w2, w1, 1, next) BY <1>1, SetField
<1> HIDE DEF w2
<1>3. D(w3, w2, 2, inuse) BY <1>2, SetField
<1>4. SetHdr(m, h, size, next, inuse) = w3 BY DEF SetHdr, w1, w2
<1> HIDE DEF w3
<1>5. \A a \in Arena : a < h \/ h + HdrSize <= a => w3[a] = m[a] BY <1>1, <1>2, <1>3
<1>6. HdrGet(w3, h, 0) = size /\ HdrGet(w3, h, 1) = next /\ HdrGet(w3, h, 2) = inuse
  BY <1>1, <1>2, <1>3
<1>7. \A g \in B : \A e \in {0, 1, 2} : HdrGet(w3, g, e) = HdrGet(m, g, e)
  BY <1>1, <1>2, <1>3 DEF Headers
<1>8. \A e \in {0, 1, 2} : Fields(w3, B, e) = Fields(m, B, e) BY <1>7 DEF Fields
<1> QED BY <1>3, <1>4, <1>5, <1>6, <1>8 DEF NewHeader

\* What is written outside every header leaves all of them alone.
LEMMA WriteData ==
  ASSUME NEW B, Headers(B), NEW m \in [Arena -> Cell], NEW w,
         \A h \in B : \A a \in Arena : h <= a /\ a < h + HdrSize => w[a] = m[a],
         NEW f \in {0, 1, 2}
  PROVE  Fields(w, B, f) = Fields(m, B, f)
<1> SUFFICES ASSUME NEW h \in B PROVE HdrGet(w, h, f) = HdrGet(m, h, f) BY DEF Fields
<1>1. h \in Int /\ Room(h) BY DEF Headers
<1>2. \A i \in 0..Word - 1 : w[h + f * Word + i] = m[h + f * Word + i] BY <1>1, FieldCells
<1> QED BY <1>1, <1>2, FieldKept

-----------------------------------------------------------------------------
\* The walk along the links meets the list, node by node.
LEMMA NodesAre ==
  ASSUME NEW m, NEW B, NEW head, NEW s \in Seq(B), NULL \notin B, Len(s) <= HeapSize,
         Links(Fields(m, B, NextOff), head, s)
  PROVE  Nodes(m, head) = [k \in 0..HeapSize |-> At(s, k + 1)]
<1> DEFINE P(f) == f = [k \in 0..HeapSize |->
                          IF k = 0 THEN head
                          ELSE LET prev == f[k - 1]
                               IN IF prev = NULL THEN NULL ELSE HdrGet(m, prev, NextOff)]
           f0 == [k \in 0..HeapSize |-> At(s, k + 1)]
<1>1. DOMAIN s = 1..Len(s) /\ Len(s) \in Nat /\ HeapSize \in Nat BY Sizes
<1>2. ASSUME NEW k \in 1..HeapSize
      PROVE  At(s, k + 1) = IF At(s, k) = NULL THEN NULL ELSE HdrGet(m, At(s, k), NextOff)
  <2>1. CASE k \in DOMAIN s
    <3>1. At(s, k) = s[k] /\ s[k] \in B BY <2>1 DEF At
    <3>2. Fields(m, B, NextOff)[s[k]] = At(s, k + 1) BY <2>1 DEF Links
    <3> QED BY <3>1, <3>2 DEF Fields
  <2>2. CASE k \notin DOMAIN s
    <3>1. k + 1 \notin DOMAIN s BY <1>1, <2>2
    <3> QED BY <2>2, <3>1 DEF At
  <2> QED BY <2>1, <2>2
<1>3. \A k \in 0..HeapSize : f0[k] = At(s, k + 1) OBVIOUS
<1>4. \A k \in 1..HeapSize : k - 1 \in 0..HeapSize /\ k - 1 + 1 = k BY <1>1
<1>5. f0[0] = head BY <1>1 DEF Links
<1>6. \A k \in 1..HeapSize : f0[k] = IF f0[k - 1] = NULL THEN NULL ELSE HdrGet(m, f0[k - 1], NextOff)
  BY <1>2, <1>3, <1>4
<1>7. f0 = [k \in 0..HeapSize |-> f0[k]] OBVIOUS
<1> HIDE DEF f0
<1>8. P(f0)
  <2>1. \A k \in 0..HeapSize : k = 0 \/ k \in 1..HeapSize BY <1>1
  <2>2. \A k \in 0..HeapSize :
          f0[k] = IF k = 0 THEN head
                  ELSE LET prev == f0[k - 1] IN IF prev = NULL THEN NULL ELSE HdrGet(m, prev, NextOff)
    BY <1>5, <1>6, <2>1
  <2> QED BY <1>7, <2>2
<1>9. Nodes(m, head) = CHOOSE g : P(g) BY DEF Nodes
<1>10. P(CHOOSE g : P(g)) BY <1>8
<1> HIDE DEF P
<1> DEFINE h == Nodes(m, head)
<1>11. P(h) BY <1>9, <1>10
<1> HIDE DEF h
<1>12. h = [k \in 0..HeapSize |->
              IF k = 0 THEN head
              ELSE LET prev == h[k - 1] IN IF prev = NULL THEN NULL ELSE HdrGet(m, prev, NextOff)]
  BY <1>11 DEF P
<1>13. h = [k \in 0..HeapSize |-> h[k]] BY <1>12
<1>14. h[0] = head BY <1>1, <1>12
<1>15. \A k \in 1..HeapSize : h[k] = IF h[k - 1] = NULL THEN NULL ELSE HdrGet(m, h[k - 1], NextOff)
  <2>1. \A k \in 1..HeapSize : k \in 0..HeapSize /\ k # 0 OBVIOUS
  <2> QED BY <1>12, <2>1
<1>16. h = f0
  <2>1. \A k \in 1..HeapSize : h[k - 1] = f0[k - 1] => h[k] = f0[k] BY <1>6, <1>15
  <2>2. IsFrom0To(h, HeapSize) /\ IsFrom0To(f0, HeapSize) /\ InStep(h, f0, HeapSize)
    BY <1>5, <1>7, <1>13, <1>14, <2>1 DEF IsFrom0To, InStep
  <2> QED BY <1>1, <2>2, SameFunction
<1> QED BY <1>16 DEF h, f0

\* A list without repetitions is no longer than the arena.
LEMMA ListIsShort ==
  ASSUME NEW B \in SUBSET Arena, NEW s \in Seq(B), IsInjective(s)
  PROVE  Len(s) <= HeapSize
<1>1. HeapBase \in Int /\ ArenaEnd - 1 \in Int /\ ArenaEnd = HeapBase + HeapSize /\ HeapSize \in Nat \ {0}
  BY Sizes
<1>2. IsFiniteSet(Arena) /\ Cardinality(Arena) = HeapSize
  <2>1. IsFiniteSet(HeapBase..ArenaEnd - 1)
        /\ Cardinality(HeapBase..ArenaEnd - 1)
             = IF HeapBase > ArenaEnd - 1 THEN 0 ELSE (ArenaEnd - 1) - HeapBase + 1
    BY <1>1, FS_Interval
  <2> QED BY <1>1, <2>1 DEF Arena
<1>3. Len(s) \in Nat /\ s \in [1..Len(s) -> Arena] OBVIOUS
<1>4. IsFiniteSet(1..Len(s)) /\ Cardinality(1..Len(s)) = Len(s)
  <2>1. IsFiniteSet(1..Len(s)) /\ Cardinality(1..Len(s)) = IF 1 > Len(s) THEN 0 ELSE Len(s) - 1 + 1
    BY <1>3, FS_Interval
  <2> QED BY <1>3, <2>1
<1>5. Cardinality(1..Len(s)) <= Cardinality(Arena)
  <2> DEFINE D == 1..Len(s)
  <2>1. s \in Injection(D, Arena) BY <1>3 DEF Injection, IsInjective
  <2> HIDE DEF D
  <2>2. Cardinality(D) <= Cardinality(Arena) BY <1>2, <2>1, FS_Injection
  <2> QED BY <2>2 DEF D
<1> QED BY <1>2, <1>4, <1>5

\* The chain of links is the list.
LEMMA ChainIs ==
  ASSUME NEW m, NEW B \in SUBSET Arena, NEW head, NEW s \in Seq(B), IsInjective(s),
         Links(Fields(m, B, NextOff), head, s)
  PROVE  ChainIn(m, head) = s
<1>1. Len(s) \in Nat /\ DOMAIN s = 1..Len(s) /\ Len(s) <= HeapSize /\ HeapSize \in Nat
  BY Sizes, ListIsShort
<1>2. NULL \notin B /\ NULL = 0 BY Sizes DEF Arena, NULL
<1>3. Nodes(m, head) = [k \in 0..HeapSize |-> At(s, k + 1)] BY <1>1, <1>2, NodesAre
<1> DEFINE K == {k \in 0..HeapSize : Nodes(m, head)[k] = NULL}
<1>4. ASSUME NEW k \in 0..HeapSize PROVE Nodes(m, head)[k] = NULL <=> k >= Len(s)
  <2>1. CASE k < Len(s)
    <3>1. k + 1 \in DOMAIN s BY <1>1, <2>1
    <3>2. s[k + 1] # NULL BY <1>2, <3>1
    <3> QED BY <1>1, <1>3, <2>1, <3>1, <3>2 DEF At
  <2>2. CASE k >= Len(s)
    <3>1. k + 1 \notin DOMAIN s BY <1>1, <2>2
    <3> QED BY <1>1, <1>3, <2>2, <3>1 DEF At
  <2> QED BY <1>1, <2>1, <2>2
<1>5. Min(K) = Len(s)
  <2>1. Len(s) \in K /\ \A y \in K : Len(s) <= y BY <1>1, <1>4
  <2>2. \A x \in K : x \in Nat BY <1>1
  <2> HIDE DEF K
  <2>3. \A x \in K : (\A y \in K : x <= y) => x = Len(s) BY <2>1, <2>2
  <2> QED BY <2>1, <2>3 DEF Min
<1>6. ChainIn(m, head) = [i \in 1..Len(s) |-> Nodes(m, head)[i - 1]] BY <1>5 DEF ChainIn
<1>7. ASSUME NEW i \in 1..Len(s) PROVE Nodes(m, head)[i - 1] = s[i]
  <2>1. i - 1 \in 0..HeapSize /\ i - 1 + 1 = i BY <1>1
  <2> QED BY <1>1, <1>3, <2>1 DEF At
<1>8. s = [i \in 1..Len(s) |-> s[i]] OBVIOUS
<1> QED BY <1>6, <1>7, <1>8

\* How many blocks the arena can hold.
LEMMA Most ==
  /\ MaxBlocks \in Nat
  /\ ArenaEnd < HeapBase + (MaxBlocks + 1) * (HdrSize + 1)
<1> DEFINE d == HdrSize + 1
<1>1. d \in Nat \ {0} BY Sizes
<1>2. HeapSize \in Nat BY Sizes
<1>3. MaxBlocks = HeapSize \div d BY DEF MaxBlocks
<1> HIDE DEF d
<1>4. MaxBlocks \in Int /\ HeapSize = d * MaxBlocks + (HeapSize % d) /\ HeapSize % d < d
  BY <1>1, <1>2, <1>3
<1>5. MaxBlocks >= 0 BY <1>1, <1>2, <1>3
<1>6. (MaxBlocks + 1) * d = d * MaxBlocks + d BY <1>1, <1>4
<1>7. HeapSize < (MaxBlocks + 1) * d BY <1>1, <1>2, <1>4, <1>6
<1>8. (MaxBlocks + 1) * d \in Int BY <1>1, <1>4
<1>9. ArenaEnd < HeapBase + (MaxBlocks + 1) * d BY <1>2, <1>7, <1>8, Sizes
<1> QED BY <1>4, <1>5, <1>9 DEF d

\* The walk from header to header, in a layout.
LEMMA WalkDef ==
  ASSUME NEW m, NEW B, Layout(B, Fields(m, B, SizeOff))
  PROVE  /\ Walk(m) \in [0..MaxBlocks -> B \cup {ArenaEnd}]
         /\ Walk(m)[0] = HeapBase
         /\ \A k \in 1..MaxBlocks :
              Walk(m)[k] = IF Walk(m)[k - 1] = ArenaEnd THEN ArenaEnd
                           ELSE Walk(m)[k - 1] + HdrSize + HdrGet(m, Walk(m)[k - 1], SizeOff)
<1> DEFINE V == B \cup {ArenaEnd}
           Nxt(x) == IF x = ArenaEnd THEN ArenaEnd ELSE x + HdrSize + HdrGet(m, x, SizeOff)
           step == [k \in 1..MaxBlocks |-> [x \in V |-> Nxt(x)]]
           P(f) == f = [k \in 0..MaxBlocks |->
                          IF k = 0 THEN HeapBase
                          ELSE IF f[k - 1] = ArenaEnd THEN ArenaEnd
                          ELSE f[k - 1] + HdrSize + HdrGet(m, f[k - 1], SizeOff)]
<1>1. MaxBlocks \in Nat BY Most
<1>2. HeapBase \in V BY DEF Layout
<1>3. \A x \in V : Nxt(x) \in V
  <2> SUFFICES ASSUME NEW x \in B, x # ArenaEnd PROVE x + HdrSize + HdrGet(m, x, SizeOff) \in V OBVIOUS
  <2>1. Fields(m, B, SizeOff)[x] = HdrGet(m, x, SizeOff) BY DEF Fields
  <2> QED BY <2>1 DEF Layout
<1> HIDE DEF V
<1>4. \A k \in 1..MaxBlocks : \A x \in V : step[k][x] = Nxt(x) OBVIOUS
<1>5. step \in [1..MaxBlocks -> [V -> V]] BY <1>3
<1> HIDE DEF step
<1>6. PICK f \in [0..MaxBlocks -> V] : Follows(f, MaxBlocks, HeapBase, step)
  BY <1>1, <1>2, <1>5, Recursion
<1>7. f[0] = HeapBase /\ \A k \in 1..MaxBlocks : f[k] = step[k][f[k - 1]] BY <1>6 DEF Follows
<1>8. \A k \in 1..MaxBlocks : f[k] = Nxt(f[k - 1])
  <2> TAKE k \in 1..MaxBlocks
  <2>1. f[k - 1] \in V
    <3>1. k - 1 \in 0..MaxBlocks BY <1>1
    <3> QED BY <3>1
  <2> QED BY <1>4, <1>7, <2>1
<1>9. f = [k \in 0..MaxBlocks |-> f[k]] OBVIOUS
<1>10. P(f)
  <2>1. \A k \in 0..MaxBlocks : k = 0 \/ k \in 1..MaxBlocks BY <1>1
  <2>2. \A k \in 0..MaxBlocks :
          f[k] = IF k = 0 THEN HeapBase
                 ELSE IF f[k - 1] = ArenaEnd THEN ArenaEnd
                 ELSE f[k - 1] + HdrSize + HdrGet(m, f[k - 1], SizeOff)
    BY <1>7, <1>8, <2>1
  <2> QED BY <1>9, <2>2
<1>11. Walk(m) = CHOOSE g : P(g) BY DEF Walk
<1>12. P(CHOOSE g : P(g)) BY <1>10
<1> HIDE DEF P
<1> DEFINE h == Walk(m)
<1>13. P(h) BY <1>11, <1>12
<1> HIDE DEF h
<1>14. h = [k \in 0..MaxBlocks |->
              IF k = 0 THEN HeapBase
              ELSE IF h[k - 1] = ArenaEnd THEN ArenaEnd
              ELSE h[k - 1] + HdrSize + HdrGet(m, h[k - 1], SizeOff)]
  BY <1>13 DEF P
<1>15. h = [k \in 0..MaxBlocks |-> h[k]] BY <1>14
<1>16. h[0] = HeapBase BY <1>1, <1>14
<1>17. \A k \in 1..MaxBlocks : h[k] = Nxt(h[k - 1])
  <2>1. \A k \in 1..MaxBlocks : k \in 0..MaxBlocks /\ k # 0 OBVIOUS
  <2> QED BY <1>14, <2>1
<1>18. h = f
  <2>1. \A k \in 1..MaxBlocks : h[k - 1] = f[k - 1] => h[k] = f[k] BY <1>8, <1>17
  <2>2. IsFrom0To(h, MaxBlocks) /\ IsFrom0To(f, MaxBlocks) /\ InStep(h, f, MaxBlocks)
    BY <1>7, <1>9, <1>15, <1>16, <2>1 DEF IsFrom0To, InStep
  <2> QED BY <1>1, <2>2, SameFunction
<1>19. h \in [0..MaxBlocks -> V] BY <1>18
<1> QED BY <1>16, <1>17, <1>19 DEF h, V

\* The walk meets every block of a layout, and nothing else.
LEMMA StartsAre ==
  ASSUME NEW m, NEW B, Layout(B, Fields(m, B, SizeOff))
  PROVE  StartsIn(m) = B
<1> DEFINE sz == Fields(m, B, SizeOff)
           d == HdrSize + 1
           at == Walk(m)
<1>1. /\ at \in [0..MaxBlocks -> B \cup {ArenaEnd}] /\ at[0] = HeapBase
      /\ \A k \in 1..MaxBlocks :
           at[k] = IF at[k - 1] = ArenaEnd THEN ArenaEnd
                   ELSE at[k - 1] + HdrSize + HdrGet(m, at[k - 1], SizeOff)
  BY WalkDef
<1>2. \A h \in B : h \in Nat \ {0} /\ sz[h] \in Nat \ {0} /\ h + HdrSize + sz[h] <= ArenaEnd
  BY LayoutHeaders
<1>3. \A h \in B : sz[h] = HdrGet(m, h, SizeOff) BY DEF Fields
<1>4. /\ HeapBase \in B /\ ArenaEnd \notin B
      /\ \A h \in B : HeapBase <= h
      /\ \A h, g \in B : g <= h \/ h + HdrSize + sz[h] <= g
  BY Sizes DEF Layout, Arena
<1>5. MaxBlocks \in Nat /\ ArenaEnd < HeapBase + (MaxBlocks + 1) * d BY Most
<1>6. d \in Nat \ {0} /\ d = HdrSize + 1 BY Sizes
<1>7. HdrSize \in Nat \ {0} /\ HeapBase \in Nat /\ ArenaEnd \in Nat BY Sizes
<1>8. StartsIn(m) = {at[k] : k \in 0..MaxBlocks} \ {ArenaEnd} BY DEF StartsIn
<1> HIDE DEF sz, d, at
<1> DEFINE Met(k) == {at[j] : j \in 0..k}
           S == {k \in 0..MaxBlocks :
                   /\ at[k] = ArenaEnd \/ HeapBase + k * d <= at[k]
                   /\ \A b \in B : b <= at[k] => b \in Met(k)}
<1>9. 0 \in S
  <2>1. 0 \in 0..MaxBlocks /\ HeapBase + 0 * d <= at[0] BY <1>1, <1>5, <1>6, <1>7
  <2>2. ASSUME NEW b \in B, b <= at[0] PROVE b \in Met(0)
    <3>1. b = HeapBase BY <1>1, <1>2, <1>4, <1>7, <2>2
    <3>2. 0 \in 0..0 OBVIOUS
    <3> QED BY <1>1, <3>1, <3>2
  <2> QED BY <2>1, <2>2
<1>10. ASSUME NEW k \in 0..MaxBlocks - 1, k \in S PROVE k + 1 \in S
  <2> DEFINE j == k + 1
  <2>1. j \in 1..MaxBlocks /\ j - 1 = k /\ k \in 0..MaxBlocks /\ j \in 0..MaxBlocks /\ k \in Nat BY <1>5
  <2>2. at[j] = IF at[k] = ArenaEnd THEN ArenaEnd ELSE at[k] + HdrSize + HdrGet(m, at[k], SizeOff)
    BY <1>1, <2>1
  <2>3. at[k] \in B \cup {ArenaEnd} BY <1>1, <2>1
  <2>4. j * d = k * d + d /\ k * d \in Int
    <3>1. k \in Nat /\ d \in Nat BY <1>6, <2>1
    <3> QED BY ONLY <3>1
  <2>5. Met(k) \subseteq Met(j) /\ at[j] \in Met(j)
    <3>1. \A i \in 0..k : i \in 0..j BY <2>1
    <3>2. j \in 0..j BY <2>1
    <3> HIDE DEF j
    <3> QED BY <3>1, <3>2
  <2>6. /\ at[k] = ArenaEnd \/ HeapBase + k * d <= at[k]
        /\ \A b \in B : b <= at[k] => b \in Met(k)
    BY <1>10
  <2> HIDE DEF j
  <2>7. CASE at[k] = ArenaEnd
    <3>1. at[j] = ArenaEnd BY <2>2, <2>7
    <3>2. \A b \in B : b <= at[j] => b \in Met(j) BY <2>5, <2>6, <2>7, <3>1
    <3>3. j \in S BY <2>1, <3>1, <3>2
    <3> QED BY <3>3 DEF j
  <2>8. CASE at[k] # ArenaEnd
    <3>1. at[k] \in B BY <2>3, <2>8
    <3>2. at[j] = at[k] + HdrSize + sz[at[k]] BY <1>3, <2>2, <2>8, <3>1
    <3>3. at[k] \in Nat /\ sz[at[k]] \in Nat \ {0} BY <1>2, <3>1
    <3>4. HeapBase + j * d <= at[j] BY <1>6, <1>7, <2>4, <2>6, <2>8, <3>2, <3>3
    <3>5. ASSUME NEW b \in B, b <= at[j] PROVE b \in Met(j)
      <4>1. b <= at[k] \/ at[j] <= b BY <1>4, <3>1, <3>2
      <4>2. b \in Nat /\ at[j] \in Nat BY <1>2, <1>7, <3>2, <3>3
      <4>3. b <= at[k] \/ b = at[j] BY <3>5, <4>1, <4>2
      <4> QED BY <2>5, <2>6, <4>3
    <3>6. j \in S BY <2>1, <3>4, <3>5
    <3> QED BY <3>6 DEF j
  <2> QED BY <2>7, <2>8
<1>11. MaxBlocks \in S
  <2> HIDE DEF S
  <2>1. \A k \in 0..MaxBlocks - 1 : k \in S => k + 1 \in S BY <1>10
  <2>2. \A k \in 0..MaxBlocks : k \in S BY <1>5, <1>9, <2>1, UpTo
  <2> QED BY <1>5, <2>2
<1>12. at[MaxBlocks] = ArenaEnd
  <2> SUFFICES ASSUME at[MaxBlocks] # ArenaEnd PROVE FALSE OBVIOUS
  <2>1. HeapBase + MaxBlocks * d <= at[MaxBlocks] BY <1>11
  <2>2. at[MaxBlocks] \in B BY <1>1, <1>5
  <2>3. at[MaxBlocks] + HdrSize + sz[at[MaxBlocks]] <= ArenaEnd
        /\ at[MaxBlocks] \in Nat /\ sz[at[MaxBlocks]] \in Nat \ {0}
    BY <1>2, <2>2
  <2>4. (MaxBlocks + 1) * d = MaxBlocks * d + d /\ MaxBlocks * d \in Int BY <1>5, <1>6
  <2> QED BY <1>5, <1>6, <1>7, <2>1, <2>3, <2>4
<1>13. \A b \in B : b \in Met(MaxBlocks) /\ b # ArenaEnd
  <2> TAKE b \in B
  <2>1. b <= ArenaEnd BY <1>2, <1>7
  <2> QED BY <1>4, <1>11, <1>12, <2>1
<1> QED BY <1>1, <1>8, <1>13

\* What memory holds is what the walks meet.
LEMMA HoldsAre ==
  ASSUME NEW m, NEW head, NEW B, NEW s, Holds(m, head, B, s)
  PROVE  StartsIn(m) = B /\ ChainIn(m, head) = s
<1>1. StartsIn(m) = B BY StartsAre DEF Holds
<1>2. B \in SUBSET Arena BY DEF Holds, Layout
<1>3. s \in Seq(B) /\ IsInjective(s) BY DEF Holds, Listed
<1>4. Links(Fields(m, B, NextOff), head, s) BY DEF Holds
<1>5. ChainIn(m, head) = s BY <1>2, <1>3, <1>4, ChainIs
<1> QED BY <1>1, <1>5

-----------------------------------------------------------------------------
\* The allocator of blocks, with what is proved about it.
HP == INSTANCE HeapProofs WITH
  size <- [h \in Starts |-> HdrGet(mem, h, SizeOff)],
  inuse <- [h \in Starts |-> HdrGet(mem, h, InuseOff) = 1],
  free <- Chain

LEMMA BlocksAssumption == HP!HeapAssumption
BY CellsAssumption, Sizes DEF HP!HeapAssumption, ArenaEnd

\* The list without its i-th node, element by element and as a set.
LEMMA Without ==
  ASSUME NEW S, NEW s \in Seq(S), IsInjective(s), NEW i \in DOMAIN s
  PROVE  /\ RemoveAt(s, i) \in Seq(S) /\ IsInjective(RemoveAt(s, i))
         /\ ToSet(RemoveAt(s, i)) = ToSet(s) \ {s[i]}
         /\ DOMAIN RemoveAt(s, i) = 1..Len(s) - 1
         /\ \A j \in 1..Len(s) - 1 : RemoveAt(s, i)[j] = IF j < i THEN s[j] ELSE s[j + 1]
<1> DEFINE t == RemoveAt(s, i)
<1>1. HP!IsInjective(s) /\ i \in 1..Len(s) /\ Len(s) \in Nat BY DEF IsInjective, HP!IsInjective
<1>2. HP!RemoveAt(s, i) = t BY DEF RemoveAt, HP!RemoveAt
<1>3. /\ HP!RemoveAt(s, i) \in Seq(S) /\ HP!IsInjective(HP!RemoveAt(s, i))
      /\ HP!ToSet(HP!RemoveAt(s, i)) = HP!ToSet(s) \ {s[i]}
  BY <1>1, BlocksAssumption, HP!Unlink
<1>4. /\ Len(HP!RemoveAt(s, i)) = Len(s) - 1
      /\ \A j \in 1..Len(s) - 1 : HP!RemoveAt(s, i)[j] = IF j < i THEN s[j] ELSE s[j + 1]
  BY <1>1, BlocksAssumption, HP!RemoveAtElements
<1> HIDE DEF t
<1>5. t \in Seq(S) /\ DOMAIN t = 1..Len(s) - 1 BY <1>1, <1>2, <1>3, <1>4
<1>6. IsInjective(t) BY <1>2, <1>3 DEF IsInjective, HP!IsInjective
<1>7. ToSet(t) = ToSet(s) \ {s[i]} BY <1>2, <1>3 DEF ToSet, HP!ToSet
<1> QED BY <1>2, <1>4, <1>5, <1>6, <1>7 DEF t

\* The list with h before it.
LEMMA Before ==
  ASSUME NEW S, NEW s \in Seq(S), IsInjective(s), NEW h \in S, h \notin ToSet(s)
  PROVE  /\ <<h>> \o s \in Seq(S) /\ IsInjective(<<h>> \o s)
         /\ ToSet(<<h>> \o s) = ToSet(s) \cup {h}
<1>1. HP!IsInjective(s) /\ h \notin HP!ToSet(s)
  BY DEF IsInjective, HP!IsInjective, ToSet, HP!ToSet
<1>2. /\ <<h>> \o s \in Seq(S) /\ HP!IsInjective(<<h>> \o s)
      /\ HP!ToSet(<<h>> \o s) = HP!ToSet(s) \cup {h}
  BY <1>1, BlocksAssumption, HP!Push
<1> QED BY <1>2 DEF IsInjective, HP!IsInjective, ToSet, HP!ToSet

\* Unlinking: the node before, or the head, is given the link of the i-th node.
LEMMA Unlinked ==
  ASSUME NEW B, NEW nx, DOMAIN nx = B, NEW head, NEW s \in Seq(B), IsInjective(s),
         Links(nx, head, s), NEW i \in DOMAIN s
  PROVE  Links(IF i = 1 THEN nx ELSE [nx EXCEPT ![s[i - 1]] = nx[s[i]]],
               IF i = 1 THEN nx[s[i]] ELSE head,
               RemoveAt(s, i))
<1> DEFINE t == RemoveAt(s, i)
<1>1. DOMAIN s = 1..Len(s) /\ Len(s) \in Nat /\ i \in 1..Len(s) OBVIOUS
<1>2. /\ DOMAIN t = 1..Len(s) - 1
      /\ \A j \in 1..Len(s) - 1 : t[j] = IF j < i THEN s[j] ELSE s[j + 1]
  BY Without
<1> HIDE DEF t
<1>3. \A j \in 1..Len(s) : At(t, j) = IF j < i THEN At(s, j) ELSE At(s, j + 1)
  <2> TAKE j \in 1..Len(s)
  <2>1. CASE j = Len(s)
    <3>1. j \notin DOMAIN t /\ ~(j < i) /\ j + 1 \notin DOMAIN s BY <1>1, <1>2, <2>1
    <3> QED BY <3>1 DEF At
  <2>2. CASE j # Len(s)
    <3>1. j \in 1..Len(s) - 1 /\ j + 1 \in 1..Len(s)
      <4>1. Len(s) \in Int OBVIOUS
      <4>2. j < Len(s) BY <2>2, <4>1
      <4> QED BY <4>1, <4>2
    <3>2. j \in DOMAIN t /\ j \in DOMAIN s /\ j + 1 \in DOMAIN s BY <1>1, <1>2, <3>1
    <3> QED BY <1>2, <3>1, <3>2 DEF At
  <2> QED BY <2>1, <2>2
<1>4. head = At(s, 1) /\ \A j \in DOMAIN s : nx[s[j]] = At(s, j + 1) BY DEF Links
<1>5. CASE i = 1
  <2>1. 1 \in 1..Len(s) /\ ~(1 < i) BY <1>1, <1>5
  <2>2. nx[s[i]] = At(t, 1) BY <1>3, <1>4, <1>5, <2>1
  <2>3. ASSUME NEW j \in DOMAIN t PROVE nx[t[j]] = At(t, j + 1)
    <3>1. j \in 1..Len(s) - 1 /\ j + 1 \in 1..Len(s) /\ ~(j < i) /\ ~(j + 1 < i)
      BY <1>1, <1>2, <1>5
    <3>2. t[j] = s[j + 1] /\ At(t, j + 1) = At(s, j + 1 + 1) BY <1>2, <1>3, <3>1
    <3> QED BY <1>1, <1>4, <3>1, <3>2
  <2> QED BY <1>5, <2>2, <2>3 DEF Links, t
<1>6. CASE i # 1
  <2> DEFINE nx1 == [nx EXCEPT ![s[i - 1]] = nx[s[i]]]
  <2>1. i - 1 \in 1..Len(s) /\ 1 \in 1..Len(s) /\ 1 < i /\ i - 1 + 1 = i /\ i - 1 < i BY <1>1, <1>6
  <2>2. \A x \in B : nx1[x] = IF x = s[i - 1] THEN nx[s[i]] ELSE nx[x] OBVIOUS
  <2>3. head = At(t, 1) BY <1>3, <1>4, <2>1
  <2>4. \A j \in 1..Len(s) : s[j] \in B /\ (s[j] = s[i - 1] => j = i - 1)
    BY <1>1, <2>1 DEF IsInjective
  <2> HIDE DEF nx1
  <2>5. ASSUME NEW j \in DOMAIN t PROVE nx1[t[j]] = At(t, j + 1)
    <3>1. j \in 1..Len(s) - 1 /\ j \in 1..Len(s) /\ j + 1 \in 1..Len(s) BY <1>1, <1>2
    <3>2. CASE j = i - 1
      <4>1. t[j] = s[j] /\ At(t, j + 1) = At(s, i + 1)
        BY <1>2, <1>3, <2>1, <3>1, <3>2
      <4>2. nx1[t[j]] = nx[s[i]] BY <2>2, <2>4, <3>1, <3>2, <4>1
      <4> QED BY <1>4, <4>1, <4>2
    <3>3. CASE j < i - 1
      <4>1. j < i /\ j + 1 < i BY <1>1, <3>1, <3>3
      <4>2. t[j] = s[j] /\ At(t, j + 1) = At(s, j + 1) BY <1>2, <1>3, <3>1, <4>1
      <4>3. j # i - 1 BY <1>1, <3>1, <3>3
      <4>4. nx1[t[j]] = nx[s[j]] BY <2>2, <2>4, <3>1, <4>2, <4>3
      <4> QED BY <1>1, <1>4, <3>1, <4>2, <4>4
    <3>4. CASE j > i - 1
      <4>1. ~(j < i) /\ ~(j + 1 < i) /\ j + 1 # i - 1 BY <1>1, <3>1, <3>4
      <4>2. t[j] = s[j + 1] /\ At(t, j + 1) = At(s, j + 1 + 1) BY <1>2, <1>3, <3>1, <4>1
      <4>3. nx1[t[j]] = nx[s[j + 1]] BY <2>2, <2>4, <3>1, <4>1, <4>2
      <4> QED BY <1>1, <1>4, <3>1, <4>2, <4>3
    <3> QED BY <1>1, <2>1, <3>1, <3>2, <3>3, <3>4
  <2> QED BY <1>6, <2>3, <2>5 DEF Links, t, nx1
<1> QED BY <1>5, <1>6

\* Pushing: the new node is given the head as its link.
LEMMA Pushed ==
  ASSUME NEW B, NEW nx, NEW head, NEW s \in Seq(B), Links(nx, head, s),
         NEW h, NEW nx1, nx1[h] = head, \A x \in ToSet(s) : nx1[x] = nx[x]
  PROVE  Links(nx1, h, <<h>> \o s)
<1> DEFINE t == <<h>> \o s
<1>1. /\ DOMAIN t = 1..Len(s) + 1 /\ Len(s) \in Nat /\ DOMAIN s = 1..Len(s)
      /\ t[1] = h /\ \A j \in 2..Len(s) + 1 : t[j] = s[j - 1]
  OBVIOUS
<1> HIDE DEF t
<1>2. At(t, 1) = h BY <1>1 DEF At
<1>3. ASSUME NEW j \in 1..Len(s) + 1 PROVE At(t, j + 1) = At(s, j)
  <2>1. CASE j = Len(s) + 1
    <3>1. j + 1 \notin DOMAIN t /\ j \notin DOMAIN s BY <1>1, <2>1
    <3> QED BY <3>1 DEF At
  <2>2. CASE j # Len(s) + 1
    <3>1. j + 1 \in 2..Len(s) + 1 /\ j + 1 \in DOMAIN t /\ j \in DOMAIN s /\ j + 1 - 1 = j
      BY <1>1, <2>2
    <3> QED BY <1>1, <3>1 DEF At
  <2> QED BY <2>1, <2>2
<1>4. ASSUME NEW j \in DOMAIN t PROVE nx1[t[j]] = At(t, j + 1)
  <2>1. At(t, j + 1) = At(s, j) BY <1>1, <1>3
  <2>2. CASE j = 1
    BY <1>1, <2>1, <2>2 DEF Links
  <2>3. CASE j # 1
    <3>1. j \in 2..Len(s) + 1 /\ j - 1 \in DOMAIN s /\ j - 1 + 1 = j BY <1>1, <2>3
    <3>2. t[j] = s[j - 1] /\ s[j - 1] \in ToSet(s) BY <1>1, <3>1 DEF ToSet
    <3>3. nx[s[j - 1]] = At(s, j) BY <3>1 DEF Links
    <3> QED BY <2>1, <3>2, <3>3
  <2> QED BY <2>2, <2>3
<1> QED BY <1>2, <1>4 DEF Links, t

\* Splitting a block: what is left is a block between it and the next.
SplitInto(B, sz, h, n, rest, left, sz1) ==
  /\ sz[h] >= n + HdrSize + MinTail
  /\ rest = h + HdrSize + n /\ left = sz[h] - n - HdrSize
  /\ sz1 = [b \in B \cup {rest} |-> IF b = h THEN n ELSE IF b = rest THEN left ELSE sz[b]]

LEMMA SplitLayout ==
  ASSUME NEW B, NEW sz, Layout(B, sz), NEW h \in B, NEW n \in Nat \ {0},
         NEW rest, NEW left, NEW sz1, SplitInto(B, sz, h, n, rest, left, sz1)
  PROVE  /\ rest \in Nat /\ rest \in Arena /\ rest \notin B /\ left \in Nat \ {0} /\ left < HeapSize
         /\ Room(rest) /\ \A g \in B : Apart(g, rest)
         /\ Layout(B \cup {rest}, sz1)
<1> USE DEF SplitInto
<1>1. \A b \in B : b \in Nat \ {0} /\ sz[b] \in Nat \ {0} /\ b + HdrSize + sz[b] <= ArenaEnd
  BY LayoutHeaders
<1>2. /\ B \in SUBSET Arena /\ HeapBase \in B
      /\ \A b \in B : /\ b + HdrSize + sz[b] \in B \cup {ArenaEnd}
                      /\ \A g \in B : g <= b \/ b + HdrSize + sz[b] <= g
  BY DEF Layout
<1>3. HdrSize \in Nat \ {0} /\ MinTail \in Nat \ {0} /\ HeapBase \in Nat /\ ArenaEnd \in Nat
      /\ ArenaEnd = HeapBase + HeapSize /\ HeapSize \in Nat
  BY Sizes
<1>4. h \in Nat \ {0} /\ sz[h] \in Nat \ {0} /\ h + HdrSize + sz[h] <= ArenaEnd /\ HeapBase <= h
  BY <1>1, <1>2, Sizes DEF Arena
<1>5. /\ rest \in Nat /\ left \in Nat \ {0} /\ left < HeapSize
      /\ h + HdrSize < rest /\ rest + HdrSize < h + HdrSize + sz[h]
      /\ rest + HdrSize + left = h + HdrSize + sz[h]
  BY <1>3, <1>4
<1>6. rest \in Arena /\ Room(rest) BY <1>3, <1>4, <1>5 DEF Arena, Room
<1>7. \A g \in B : g <= h \/ h + HdrSize + sz[h] <= g BY <1>2
<1>8. \A g \in B : g # h => g + HdrSize + sz[g] <= h \/ h < g
  <2> SUFFICES ASSUME NEW g \in B, g # h PROVE g + HdrSize + sz[g] <= h \/ h < g OBVIOUS
  <2>1. h <= g \/ g + HdrSize + sz[g] <= h BY <1>2
  <2>2. g \in Nat BY <1>1
  <2> QED BY <1>4, <2>1, <2>2
<1>9. rest \notin B BY <1>3, <1>4, <1>5, <1>7
<1>10. ASSUME NEW g \in B PROVE Apart(g, rest)
  <2>1. g \in Nat /\ sz[g] \in Nat BY <1>1
  <2>2. g = h \/ g + HdrSize + sz[g] <= h \/ h + HdrSize + sz[h] <= g
    BY <1>4, <1>7, <1>8, <2>1
  <2> QED BY <1>3, <1>4, <1>5, <2>1, <2>2 DEF Apart
<1>11. rest # h BY <1>9
<1>12. /\ DOMAIN sz1 = B \cup {rest} /\ sz1[h] = n /\ sz1[rest] = left
       /\ \A b \in B \ {h} : sz1[b] = sz[b]
  BY <1>9, <1>11
<1>13. sz1 \in [B \cup {rest} -> Nat \ {0}] BY <1>1, <1>5
<1>14. ASSUME NEW b \in B \cup {rest}
       PROVE  /\ b + HdrSize + sz1[b] \in (B \cup {rest}) \cup {ArenaEnd}
              /\ \A g \in B \cup {rest} : g <= b \/ b + HdrSize + sz1[b] <= g
  <2>1. CASE b = h
    <3>1. b + HdrSize + sz1[b] = rest BY <1>12, <2>1
    <3>2. ASSUME NEW g \in B \cup {rest} PROVE g <= h \/ rest <= g
      <4>1. g = rest \/ g <= h \/ h + HdrSize + sz[h] <= g BY <1>7
      <4>2. g \in Nat BY <1>1, <1>5
      <4> QED BY <1>3, <1>4, <1>5, <4>1, <4>2
    <3> QED BY <2>1, <3>1, <3>2
  <2>2. CASE b = rest
    <3>1. b + HdrSize + sz1[b] = h + HdrSize + sz[h] BY <1>5, <1>12, <2>2
    <3>2. ASSUME NEW g \in B \cup {rest} PROVE g <= rest \/ h + HdrSize + sz[h] <= g
      <4>1. g = rest \/ g <= h \/ h + HdrSize + sz[h] <= g BY <1>7
      <4>2. g \in Nat BY <1>1, <1>5
      <4> QED BY <1>3, <1>4, <1>5, <4>1, <4>2
    <3> QED BY <1>2, <2>2, <3>1, <3>2
  <2>3. CASE b \in B \ {h}
    <3>1. sz1[b] = sz[b] /\ b \in Nat /\ sz[b] \in Nat BY <1>1, <1>12, <2>3
    <3>2. rest <= b \/ b + HdrSize + sz[b] <= rest
      <4>1. b + HdrSize + sz[b] <= h \/ h + HdrSize + sz[h] <= b
        BY <1>4, <1>7, <1>8, <2>3, <3>1
      <4> QED BY <1>3, <1>4, <1>5, <3>1, <4>1
    <3>3. rest <= b => rest <= b \/ b + HdrSize + sz1[b] <= rest OBVIOUS
    <3> QED BY <1>2, <2>3, <3>1, <3>2
  <2> QED BY <2>1, <2>2, <2>3
<1>15. Layout(B \cup {rest}, sz1) BY <1>2, <1>6, <1>13, <1>14 DEF Layout
<1> QED BY <1>5, <1>6, <1>9, <1>10, <1>15

-----------------------------------------------------------------------------
\* Every cell outside the headers of B is kept.
KeptOutside(m, w, B) ==
  \A a \in Arena : (\A h \in B : a < h \/ h + HdrSize <= a) => w[a] = m[a]

\* A node of the list, its neighbours and the head are words a field holds.
LEMMA ListWords ==
  ASSUME NEW B, NEW s \in Seq(B), B \in SUBSET Arena
  PROVE  \A i : At(s, i) \in 0..WordMod - 1
<1>1. \A h \in B : h \in 0..WordMod - 1 BY Sizes DEF Arena
<1>2. 0 \in 0..WordMod - 1 BY Sizes
<1> QED BY <1>1, <1>2 DEF At, NULL

\* What Holds says, in the parts the proofs need.
LEMMA HoldsParts ==
  ASSUME NEW m, NEW head, NEW B, NEW s, Holds(m, head, B, s)
  PROVE  /\ m \in [Arena -> Cell] /\ B \in SUBSET Arena /\ HeapBase \in B
         /\ Layout(B, Fields(m, B, SizeOff)) /\ Headers(B)
         /\ Fields(m, B, InuseOff) \in [B -> {0, 1}]
         /\ s \in Seq(B) /\ IsInjective(s)
         /\ ToSet(s) = {h \in B : HdrGet(m, h, InuseOff) = 0}
         /\ Links(Fields(m, B, NextOff), head, s)
         /\ head \in 0..WordMod - 1
<1>1. B \in SUBSET Arena /\ HeapBase \in B BY DEF Holds, Layout
<1>2. Headers(B) BY LayoutHeaders DEF Holds
<1>3. s \in Seq(B) /\ IsInjective(s) /\ ToSet(s) = {h \in B : Fields(m, B, InuseOff)[h] = 0}
  BY DEF Holds, Listed
<1>4. \A h \in B : Fields(m, B, InuseOff)[h] = HdrGet(m, h, InuseOff) BY DEF Fields
<1>5. head = At(s, 1) BY DEF Holds, Links
<1>6. head \in 0..WordMod - 1 BY <1>1, <1>3, <1>5, ListWords
<1>7. ToSet(s) = {h \in B : HdrGet(m, h, InuseOff) = 0} BY <1>3, <1>4
<1> QED BY <1>1, <1>2, <1>3, <1>6, <1>7 DEF Holds, Listed

\* A listed block is a block not in use.
LEMMA NodeFacts ==
  ASSUME NEW m, NEW head, NEW B, NEW s, Holds(m, head, B, s), NEW i \in DOMAIN s
  PROVE  /\ s[i] \in B /\ s[i] \in Nat \ {0} /\ HdrGet(m, s[i], InuseOff) = 0
         /\ HdrGet(m, s[i], SizeOff) \in Nat \ {0}
         /\ HdrGet(m, s[i], NextOff) = At(s, i + 1)
         /\ At(s, i) = s[i]
<1>1. s[i] \in ToSet(s) BY DEF ToSet
<1>2. s[i] \in B /\ HdrGet(m, s[i], InuseOff) = 0 BY <1>1, HoldsParts
<1>3. s[i] \in Nat \ {0} /\ Fields(m, B, SizeOff)[s[i]] \in Nat \ {0}
  BY <1>2, LayoutHeaders, HoldsParts
<1>4. Fields(m, B, NextOff)[s[i]] = At(s, i + 1) BY HoldsParts DEF Links
<1> QED BY <1>2, <1>3, <1>4 DEF Fields, At

\* Unlinking, in memory.
Unlinks(m, head, s, i, m1, head1) ==
  /\ m1 = IF i = 1 THEN m ELSE HdrSet(m, s[i - 1], NextOff, HdrGet(m, s[i], NextOff))
  /\ head1 = IF i = 1 THEN HdrGet(m, s[i], NextOff) ELSE head

LEMMA UnlinkCells ==
  ASSUME NEW m, NEW head, NEW B, NEW s, Holds(m, head, B, s), NEW i \in DOMAIN s,
         NEW m1, NEW head1, Unlinks(m, head, s, i, m1, head1)
  PROVE  /\ m1 \in [Arena -> Cell] /\ KeptOutside(m, m1, B)
         /\ Fields(m1, B, SizeOff) = Fields(m, B, SizeOff)
         /\ Fields(m1, B, InuseOff) = Fields(m, B, InuseOff)
         /\ Links(Fields(m1, B, NextOff), head1, RemoveAt(s, i))
         /\ head1 \in 0..WordMod - 1
<1> USE DEF Unlinks
<1> DEFINE nx == Fields(m, B, NextOff)
<1>1. /\ m \in [Arena -> Cell] /\ B \in SUBSET Arena /\ Headers(B)
      /\ s \in Seq(B) /\ IsInjective(s) /\ Links(nx, head, s) /\ head \in 0..WordMod - 1
  BY HoldsParts
<1>2. s[i] \in B /\ HdrGet(m, s[i], NextOff) = At(s, i + 1) BY NodeFacts
<1>3. HdrGet(m, s[i], NextOff) \in 0..WordMod - 1 BY <1>1, <1>2, ListWords
<1>4. DOMAIN nx = B /\ nx[s[i]] = HdrGet(m, s[i], NextOff) BY <1>2 DEF Fields
<1> HIDE DEF nx
<1>5. Links(IF i = 1 THEN nx ELSE [nx EXCEPT ![s[i - 1]] = nx[s[i]]],
            IF i = 1 THEN nx[s[i]] ELSE head, RemoveAt(s, i))
  BY <1>1, <1>4, Unlinked
<1>6. head1 \in 0..WordMod - 1 BY <1>1, <1>3
<1>7. CASE i = 1
  BY <1>1, <1>4, <1>5, <1>6, <1>7 DEF KeptOutside, nx
<1>8. CASE i # 1
  <2>1. s[i - 1] \in B
    <3>1. i - 1 \in DOMAIN s BY <1>1, <1>8
    <3> QED BY <1>1, <3>1
  <2>2. m1 = HdrSet(m, s[i - 1], 1, HdrGet(m, s[i], NextOff)) BY <1>8 DEF NextOff
  <2>3. Written(m, m1, B, s[i - 1], 1, HdrGet(m, s[i], NextOff))
    BY <1>1, <1>3, <2>1, <2>2, WriteField
  <2>4. m1 \in [Arena -> Cell] /\ KeptOutside(m, m1, B) BY <2>1, <2>3 DEF KeptOutside, Written
  <2>5. Fields(m1, B, 0) = Fields(m, B, 0) /\ Fields(m1, B, 2) = Fields(m, B, 2)
    BY <2>3 DEF Written
  <2>6. Fields(m1, B, NextOff) = [nx EXCEPT ![s[i - 1]] = nx[s[i]]]
    BY <1>4, <2>3 DEF NextOff, nx, Written
  <2>7. head1 = head BY <1>8
  <2>8. Links(Fields(m1, B, NextOff), head1, RemoveAt(s, i)) BY <1>5, <1>8, <2>6, <2>7
  <2> QED BY <1>6, <2>4, <2>5, <2>8 DEF SizeOff, InuseOff
<1> QED BY <1>7, <1>8

\* A block used whole: unlinked and marked.
LEMMA TakeWholeCells ==
  ASSUME NEW m, NEW head, NEW B, NEW s, Holds(m, head, B, s), NEW i \in DOMAIN s,
         NEW m1, NEW head1, Unlinks(m, head, s, i, m1, head1),
         NEW w, w = HdrSet(m1, s[i], InuseOff, 1)
  PROVE  /\ Holds(w, head1, B, RemoveAt(s, i))
         /\ KeptOutside(m, w, B)
         /\ Fields(w, B, SizeOff) = Fields(m, B, SizeOff)
         /\ Fields(w, B, InuseOff) = [Fields(m, B, InuseOff) EXCEPT ![s[i]] = 1]
<1> DEFINE t == RemoveAt(s, i)
           fl == Fields(m, B, InuseOff)
<1>1. /\ m1 \in [Arena -> Cell] /\ KeptOutside(m, m1, B)
      /\ Fields(m1, B, SizeOff) = Fields(m, B, SizeOff)
      /\ Fields(m1, B, InuseOff) = fl
      /\ Links(Fields(m1, B, NextOff), head1, t)
  BY UnlinkCells
<1>2. /\ B \in SUBSET Arena /\ Headers(B) /\ s \in Seq(B) /\ IsInjective(s)
      /\ Layout(B, Fields(m, B, SizeOff)) /\ fl \in [B -> {0, 1}]
      /\ ToSet(s) = {h \in B : HdrGet(m, h, InuseOff) = 0}
  BY HoldsParts
<1>3. s[i] \in B BY NodeFacts
<1>4. 1 \in 0..WordMod - 1 BY Sizes
<1>5. Written(m1, w, B, s[i], 2, 1)
  BY <1>1, <1>2, <1>3, <1>4, WriteField DEF InuseOff
<1>6. w \in [Arena -> Cell] /\ KeptOutside(m, w, B)
  BY <1>1, <1>3, <1>5 DEF KeptOutside, Written
<1>7. Fields(w, B, SizeOff) = Fields(m, B, SizeOff) /\ Fields(w, B, NextOff) = Fields(m1, B, NextOff)
  BY <1>1, <1>5 DEF SizeOff, NextOff, Written
<1>8. Fields(w, B, InuseOff) = [fl EXCEPT ![s[i]] = 1] BY <1>1, <1>5 DEF InuseOff, Written
<1>9. Listed(B, [fl EXCEPT ![s[i]] = 1], t)
  <2>1. t \in Seq(B) /\ IsInjective(t) /\ ToSet(t) = ToSet(s) \ {s[i]} BY <1>2, Without
  <2>2. \A h \in B : fl[h] = HdrGet(m, h, InuseOff) BY DEF Fields
  <2> HIDE DEF t, fl
  <2>3. [fl EXCEPT ![s[i]] = 1] \in [B -> {0, 1}] BY <1>2
  <2>4. ToSet(t) = {h \in B : [fl EXCEPT ![s[i]] = 1][h] = 0} BY <1>2, <2>1, <2>2
  <2> QED BY <2>1, <2>3, <2>4 DEF Listed
<1> HIDE DEF t, fl
<1>10. Holds(w, head1, B, t) BY <1>1, <1>2, <1>6, <1>7, <1>8, <1>9 DEF Holds
<1> QED BY <1>6, <1>7, <1>8, <1>10 DEF t, fl

\* A block cut in two: the front is used, the rest becomes the list's head.
CutsOff(m, s, i, h, n, rest, left, m1, head1, w) ==
  /\ h = s[i] /\ HdrGet(m, h, SizeOff) >= n + HdrSize + MinTail
  /\ rest = h + HdrSize + n /\ left = HdrGet(m, h, SizeOff) - n - HdrSize
  /\ w = HdrSet(HdrSet(SetHdr(m1, rest, left, head1, 0), h, SizeOff, n), h, InuseOff, 1)

TakenFront(m, w, B, t, h, n, rest, left) ==
  /\ rest \notin B
  /\ Holds(w, rest, B \cup {rest}, <<rest>> \o t)
  /\ KeptOutside(m, w, B \cup {rest})
  /\ Fields(w, B \cup {rest}, SizeOff) =
       [b \in B \cup {rest} |->
          IF b = h THEN n ELSE IF b = rest THEN left ELSE HdrGet(m, b, SizeOff)]
  /\ Fields(w, B \cup {rest}, InuseOff) =
       [b \in B \cup {rest} |->
          IF b = h THEN 1 ELSE IF b = rest THEN 0 ELSE HdrGet(m, b, InuseOff)]

LEMMA TakeFrontCells ==
  ASSUME NEW m, NEW head, NEW B, NEW s, Holds(m, head, B, s), NEW i \in DOMAIN s,
         NEW m1, NEW head1, Unlinks(m, head, s, i, m1, head1),
         NEW h, NEW n \in Nat \ {0}, NEW rest, NEW left, NEW w,
         CutsOff(m, s, i, h, n, rest, left, m1, head1, w)
  PROVE  TakenFront(m, w, B, RemoveAt(s, i), h, n, rest, left)
<1> DEFINE t == RemoveAt(s, i)
           fl == Fields(m, B, InuseOff)
           sz == Fields(m, B, SizeOff)
           C == B \cup {rest}
           ma == SetHdr(m1, rest, left, head1, 0)
           mb == HdrSet(ma, h, SizeOff, n)
           sz1 == [b \in C |-> IF b = h THEN n ELSE IF b = rest THEN left ELSE HdrGet(m, b, SizeOff)]
           fl1 == [b \in C |-> IF b = h THEN 1 ELSE IF b = rest THEN 0 ELSE HdrGet(m, b, InuseOff)]
<1>1. /\ m1 \in [Arena -> Cell] /\ KeptOutside(m, m1, B)
      /\ Fields(m1, B, SizeOff) = sz
      /\ Fields(m1, B, InuseOff) = fl
      /\ Links(Fields(m1, B, NextOff), head1, t)
      /\ head1 \in 0..WordMod - 1
  BY UnlinkCells
<1>2. /\ B \in SUBSET Arena /\ Headers(B) /\ s \in Seq(B) /\ IsInjective(s)
      /\ Layout(B, sz) /\ fl \in [B -> {0, 1}]
      /\ ToSet(s) = {b \in B : HdrGet(m, b, InuseOff) = 0}
  BY HoldsParts
<1>3. h \in B /\ h \in Nat \ {0} /\ h = s[i] /\ rest = h + HdrSize + n BY NodeFacts DEF CutsOff
<1>4. \A b \in B : sz[b] = HdrGet(m, b, SizeOff) /\ fl[b] = HdrGet(m, b, InuseOff) BY DEF Fields
<1>5. sz1 = [b \in B \cup {rest} |-> IF b = h THEN n ELSE IF b = rest THEN left ELSE sz[b]]
  BY <1>4
<1>6. sz[h] >= n + HdrSize + MinTail /\ left = sz[h] - n - HdrSize BY <1>3, <1>4 DEF CutsOff
<1> HIDE DEF t, fl, sz, sz1
<1>7. h \in B BY <1>3
<1>8. SplitInto(B, sz, h, n, rest, left, sz1) BY <1>3, <1>5, <1>6 DEF SplitInto
<1>9. /\ rest \in Nat /\ rest \in Arena /\ rest \notin B /\ left \in Nat \ {0} /\ left < HeapSize
      /\ Room(rest) /\ \A g \in B : Apart(g, rest)
      /\ Layout(C, sz1)
  BY <1>2, <1>7, <1>8, SplitLayout
<1>10. n \in 0..WordMod - 1 /\ left \in 0..WordMod - 1 /\ 0 \in 0..WordMod - 1 /\ 1 \in 0..WordMod - 1
  <2>1. n < rest BY <1>3, Sizes
  <2>2. rest < ArenaEnd BY <1>9, Sizes DEF Arena
  <2> QED BY <1>9, <2>1, <2>2, Sizes
<1>11. NewHeader(m1, ma, B, rest, left, head1, 0)
  <2>1. m1 \in [Arena -> Cell] /\ head1 \in 0..WordMod - 1 BY <1>1
  <2>2. Headers(B) BY <1>2
  <2>3. rest \in Int /\ Room(rest) /\ \A g \in B : Apart(g, rest) BY <1>9
  <2>4. left \in 0..WordMod - 1 /\ 0 \in 0..WordMod - 1 BY <1>10
  <2> QED BY <2>1, <2>2, <2>3, <2>4, WriteHeader
<1> HIDE DEF ma
<1>12. /\ ma \in [Arena -> Cell]
       /\ \A a \in Arena : a < rest \/ rest + HdrSize <= a => ma[a] = m1[a]
       /\ HdrGet(ma, rest, SizeOff) = left
       /\ HdrGet(ma, rest, NextOff) = head1
       /\ HdrGet(ma, rest, InuseOff) = 0
       /\ \A e \in {0, 1, 2} : Fields(ma, B, e) = Fields(m1, B, e)
  BY <1>11 DEF NewHeader
<1>13. h \in C /\ rest \in C /\ \A b \in C : b \in B \/ b = rest BY <1>3
<1> HIDE DEF C
<1>14. Headers(C) BY <1>9, LayoutHeaders
<1>15. Written(ma, mb, C, h, 0, n) BY <1>13, <1>10, <1>12, <1>14, WriteField DEF SizeOff
<1>16. mb \in [Arena -> Cell] BY <1>15 DEF Written
<1> HIDE DEF mb
<1>17. w = HdrSet(mb, h, 2, 1) BY DEF mb, ma, InuseOff, CutsOff
<1>18. Written(mb, w, C, h, 2, 1) BY <1>13, <1>10, <1>14, <1>16, <1>17, WriteField
<1>19. h # rest BY <1>3, <1>9
<1>20. \A b \in B : /\ HdrGet(ma, b, SizeOff) = HdrGet(m, b, SizeOff)
                    /\ HdrGet(ma, b, InuseOff) = HdrGet(m, b, InuseOff)
                    /\ HdrGet(ma, b, NextOff) = Fields(m1, B, NextOff)[b]
  <2> TAKE b \in B
  <2>1. \A e \in {0, 1, 2} : Fields(ma, B, e) = Fields(m1, B, e) BY <1>12
  <2>2. Fields(m1, B, SizeOff) = sz /\ Fields(m1, B, InuseOff) = fl BY <1>1
  <2>3. /\ Fields(ma, B, SizeOff) = sz /\ Fields(ma, B, InuseOff) = fl
        /\ Fields(ma, B, NextOff) = Fields(m1, B, NextOff)
    BY <2>1, <2>2 DEF SizeOff, InuseOff, NextOff
  <2>4. \A e : Fields(ma, B, e)[b] = HdrGet(ma, b, e) BY DEF Fields
  <2>5. sz[b] = HdrGet(m, b, SizeOff) /\ fl[b] = HdrGet(m, b, InuseOff) BY <1>4
  <2> QED BY <2>3, <2>4, <2>5
<1>21. Fields(w, C, SizeOff) = sz1
  <2>1. Fields(w, C, SizeOff) = [Fields(ma, C, SizeOff) EXCEPT ![h] = n]
    BY <1>15, <1>18 DEF Written, SizeOff
  <2>2. Fields(ma, C, SizeOff) = [b \in C |-> HdrGet(ma, b, SizeOff)] BY DEF Fields
  <2>3. \A b \in C : Fields(w, C, SizeOff)[b] = IF b = h THEN n ELSE HdrGet(ma, b, SizeOff)
    BY <2>1, <2>2
  <2>4. HdrGet(ma, rest, SizeOff) = left BY <1>12
  <2>5. \A b \in B : HdrGet(ma, b, SizeOff) = HdrGet(m, b, SizeOff) BY <1>20
  <2>6. \A b \in C : Fields(w, C, SizeOff)[b] =
          IF b = h THEN n ELSE IF b = rest THEN left ELSE HdrGet(m, b, SizeOff)
    BY <1>13, <2>3, <2>4, <2>5
  <2>7. Fields(w, C, SizeOff) = [b \in C |-> Fields(w, C, SizeOff)[b]] BY DEF Fields
  <2> QED BY <2>6, <2>7 DEF sz1
<1>22. Fields(w, C, InuseOff) = fl1
  <2>1. Fields(w, C, InuseOff) = [Fields(ma, C, InuseOff) EXCEPT ![h] = 1]
    BY <1>15, <1>18 DEF Written, InuseOff
  <2>2. Fields(ma, C, InuseOff) = [b \in C |-> HdrGet(ma, b, InuseOff)] BY DEF Fields
  <2>3. \A b \in C : Fields(w, C, InuseOff)[b] = IF b = h THEN 1 ELSE HdrGet(ma, b, InuseOff)
    BY <2>1, <2>2
  <2>4. HdrGet(ma, rest, InuseOff) = 0 BY <1>12
  <2>5. \A b \in B : HdrGet(ma, b, InuseOff) = HdrGet(m, b, InuseOff) BY <1>20
  <2>6. \A b \in C : Fields(w, C, InuseOff)[b] =
          IF b = h THEN 1 ELSE IF b = rest THEN 0 ELSE HdrGet(m, b, InuseOff)
    BY <1>13, <2>3, <2>4, <2>5
  <2>7. Fields(w, C, InuseOff) = [b \in C |-> Fields(w, C, InuseOff)[b]] BY DEF Fields
  <2> QED BY <2>6, <2>7
<1>23. Fields(w, C, NextOff) = Fields(ma, C, NextOff)
  BY <1>15, <1>18 DEF Written, NextOff
<1>24. w \in [Arena -> Cell] BY <1>18 DEF Written
<1>25. t \in Seq(B) /\ IsInjective(t) /\ ToSet(t) = ToSet(s) \ {h} BY <1>2, <1>3, Without DEF t
<1>26. Links(Fields(w, C, NextOff), rest, <<rest>> \o t)
  <2> DEFINE nx1 == Fields(w, C, NextOff)
             nx == Fields(m1, B, NextOff)
  <2>1. nx1[rest] = head1
    <3>1. HdrGet(ma, rest, NextOff) = head1 /\ rest \in C BY <1>12, <1>13
    <3>2. nx1 = [b \in C |-> HdrGet(ma, b, NextOff)] BY <1>23 DEF Fields
    <3> QED BY <3>1, <3>2
  <2>2. \A x \in ToSet(t) : nx1[x] = nx[x]
    <3>1. \A x \in ToSet(t) : x \in B BY <1>2, <1>25
    <3>2. \A x \in B : nx1[x] = HdrGet(ma, x, NextOff) BY <1>23 DEF Fields, C
    <3> QED BY <1>20, <3>1, <3>2
  <2>3. Links(nx, head1, t) BY <1>1
  <2> HIDE DEF nx1, nx
  <2>4. Links(nx1, rest, <<rest>> \o t) BY <1>25, <2>1, <2>2, <2>3, Pushed
  <2> QED BY <2>4 DEF nx1
<1>27. Listed(C, fl1, <<rest>> \o t)
  <2>1. t \in Seq(C) /\ rest \in C /\ rest \notin ToSet(t) BY <1>2, <1>9, <1>25 DEF C
  <2>2. /\ <<rest>> \o t \in Seq(C) /\ IsInjective(<<rest>> \o t)
        /\ ToSet(<<rest>> \o t) = ToSet(t) \cup {rest}
    BY <1>25, <2>1, Before
  <2>3. fl1 \in [C -> {0, 1}] BY <1>2, <1>4, <1>13
  <2>4. \A b \in C : fl1[b] = 0 <=> b = rest \/ (b \in B /\ b # h /\ HdrGet(m, b, InuseOff) = 0)
    BY <1>19, <1>13
  <2> HIDE DEF fl1
  <2>5. ToSet(<<rest>> \o t) = {b \in C : fl1[b] = 0} BY <1>2, <1>19, <1>25, <1>13, <2>2, <2>4 DEF C
  <2> QED BY <2>2, <2>3, <2>5 DEF Listed
<1>28. KeptOutside(m, w, C)
  <2> SUFFICES ASSUME NEW a \in Arena, \A b \in C : a < b \/ b + HdrSize <= a PROVE w[a] = m[a]
    BY DEF KeptOutside
  <2>1. w[a] = mb[a] /\ mb[a] = ma[a] BY <1>13, <1>15, <1>18 DEF Written
  <2>2. ma[a] = m1[a] BY <1>12, <1>13
  <2>3. m1[a] = m[a] BY <1>1 DEF KeptOutside, C
  <2> QED BY <2>1, <2>2, <2>3
<1> HIDE DEF fl1
<1>29. Holds(w, rest, C, <<rest>> \o t) BY <1>9, <1>21, <1>22, <1>24, <1>26, <1>27 DEF Holds
<1> QED BY <1>9, <1>21, <1>22, <1>28, <1>29 DEF t, C, fl1, sz1, TakenFront

\* A block given back: marked, and pushed on the list.
LEMMA FreeCells ==
  ASSUME NEW m, NEW head, NEW B, NEW s, Holds(m, head, B, s),
         NEW h \in B, HdrGet(m, h, InuseOff) = 1,
         NEW w, w = HdrSet(HdrSet(m, h, InuseOff, 0), h, NextOff, head)
  PROVE  /\ Holds(w, h, B, <<h>> \o s)
         /\ KeptOutside(m, w, B)
         /\ Fields(w, B, SizeOff) = Fields(m, B, SizeOff)
         /\ Fields(w, B, InuseOff) = [Fields(m, B, InuseOff) EXCEPT ![h] = 0]
<1> DEFINE fl == Fields(m, B, InuseOff)
           ma == HdrSet(m, h, InuseOff, 0)
           nx == Fields(m, B, NextOff)
           nx1 == Fields(w, B, NextOff)
<1>1. /\ m \in [Arena -> Cell] /\ B \in SUBSET Arena /\ Headers(B) /\ s \in Seq(B) /\ IsInjective(s)
      /\ Layout(B, Fields(m, B, SizeOff)) /\ fl \in [B -> {0, 1}]
      /\ ToSet(s) = {b \in B : HdrGet(m, b, InuseOff) = 0}
      /\ Links(nx, head, s) /\ head \in 0..WordMod - 1
  BY HoldsParts
<1>2. 0 \in 0..WordMod - 1 BY Sizes
<1>3. Written(m, ma, B, h, 2, 0) BY <1>1, <1>2, WriteField DEF InuseOff
<1>4. ma \in [Arena -> Cell] BY <1>3 DEF Written
<1> HIDE DEF ma
<1>5. w = HdrSet(ma, h, 1, head) BY DEF ma, NextOff
<1>6. Written(ma, w, B, h, 1, head) BY <1>1, <1>4, <1>5, WriteField
<1>7. w \in [Arena -> Cell] BY <1>6 DEF Written
<1>8. Fields(w, B, SizeOff) = Fields(m, B, SizeOff) BY <1>3, <1>6 DEF Written, SizeOff
<1>9. Fields(w, B, InuseOff) = [fl EXCEPT ![h] = 0] BY <1>3, <1>6 DEF Written, InuseOff
<1>10. nx1 = [nx EXCEPT ![h] = head] BY <1>3, <1>6 DEF Written, NextOff
<1>11. h \notin ToSet(s) BY <1>1
<1>12. DOMAIN nx = B BY DEF Fields
<1>13. \A b \in B : fl[b] = HdrGet(m, b, InuseOff) BY DEF Fields
<1> HIDE DEF nx, nx1, fl
<1>14. Links(nx1, h, <<h>> \o s)
  <2>1. nx1[h] = head BY <1>10, <1>12
  <2>2. \A x \in ToSet(s) : nx1[x] = nx[x] BY <1>10, <1>11, <1>12
  <2> QED BY <1>1, <2>1, <2>2, Pushed
<1>15. Listed(B, [fl EXCEPT ![h] = 0], <<h>> \o s)
  <2>1. /\ <<h>> \o s \in Seq(B) /\ IsInjective(<<h>> \o s)
        /\ ToSet(<<h>> \o s) = ToSet(s) \cup {h}
    BY <1>1, <1>11, Before
  <2>2. [fl EXCEPT ![h] = 0] \in [B -> {0, 1}] BY <1>1
  <2>3. ToSet(<<h>> \o s) = {b \in B : [fl EXCEPT ![h] = 0][b] = 0} BY <1>1, <1>13, <2>1
  <2> QED BY <2>1, <2>2, <2>3 DEF Listed
<1>16. KeptOutside(m, w, B)
  BY <1>3, <1>6 DEF Written, KeptOutside
<1>17. Holds(w, h, B, <<h>> \o s) BY <1>1, <1>7, <1>8, <1>9, <1>14, <1>15 DEF Holds, nx1
<1> QED BY <1>8, <1>9, <1>16, <1>17 DEF fl

\* A cell of a block's payload is in no header, and in no other payload.
LEMMA Inside ==
  ASSUME NEW B, NEW sz, Layout(B, sz), NEW h \in B, NEW a \in h + HdrSize..h + HdrSize + sz[h] - 1
  PROVE  /\ a \in Arena
         /\ \A g \in B : a < g \/ g + HdrSize <= a
         /\ \A g \in B \ {h} : a < g \/ g + HdrSize + sz[g] <= a
<1>1. \A b \in B : b \in Nat \ {0} /\ sz[b] \in Nat \ {0} /\ b + HdrSize + sz[b] <= ArenaEnd
  BY LayoutHeaders
<1>2. \A b \in B : HeapBase <= b /\ \A g \in B : g <= b \/ b + HdrSize + sz[b] <= g
  BY Sizes DEF Layout, Arena
<1>3. a \in Int /\ h + HdrSize <= a /\ a < h + HdrSize + sz[h] BY <1>1, Sizes
<1>4. a \in Arena BY <1>1, <1>2, <1>3, Sizes DEF Arena
<1>5. \A g \in B \ {h} : a < g \/ g + HdrSize + sz[g] <= a
  <2> TAKE g \in B \ {h}
  <2>1. g <= h \/ h + HdrSize + sz[h] <= g BY <1>2
  <2>2. h <= g \/ g + HdrSize + sz[g] <= h BY <1>2
  <2> QED BY <1>1, <1>3, <2>1, <2>2, Sizes
<1>6. \A g \in B : a < g \/ g + HdrSize <= a
  <2> TAKE g \in B
  <2>1. g = h \/ a < g \/ g + HdrSize + sz[g] <= a BY <1>5
  <2> QED BY <1>1, <1>3, <2>1, Sizes
<1> QED BY <1>4, <1>5, <1>6

\* The program stores a word in a block it holds: no header changes.
LEMMA StoreCells ==
  ASSUME NEW m, NEW head, NEW B, NEW s, Holds(m, head, B, s),
         NEW h \in B, NEW v \in Nat,
         NEW a \in h + HdrSize..h + HdrSize + HdrGet(m, h, SizeOff) - Word,
         NEW w, w = PutU(m, a, Word, v)
  PROVE  /\ Holds(w, head, B, s)
         /\ Fields(w, B, SizeOff) = Fields(m, B, SizeOff)
         /\ Fields(w, B, InuseOff) = Fields(m, B, InuseOff)
<1> DEFINE sz == Fields(m, B, SizeOff)
<1>1. m \in [Arena -> Cell] /\ B \in SUBSET Arena /\ Headers(B) /\ Layout(B, sz) BY HoldsParts
<1>2. h \in Nat /\ sz[h] \in Nat \ {0} BY <1>1, LayoutHeaders
<1>3. sz[h] = HdrGet(m, h, SizeOff) BY DEF Fields
<1> HIDE DEF sz
<1>4. a \in Int /\ h + HdrSize <= a /\ a + Word <= h + HdrSize + sz[h] BY <1>2, <1>3, Sizes
<1>5. /\ w \in [Arena -> Cell]
      /\ \A b \in Arena : b < a \/ b >= a + Word => w[b] = m[b]
  BY <1>1, <1>4, Sizes, PutUType
<1>6. \A g \in B : \A b \in Arena : g <= b /\ b < g + HdrSize => w[b] = m[b]
  <2> SUFFICES ASSUME NEW g \in B, NEW b \in Arena, g <= b, b < g + HdrSize, ~(b < a), ~(b >= a + Word)
               PROVE  FALSE
    BY <1>5
  <2>1. b \in Int /\ g \in Nat BY <1>1, LayoutHeaders, Sizes
  <2>2. b \in h + HdrSize..h + HdrSize + sz[h] - 1 BY <1>2, <1>4, <2>1, Sizes
  <2>3. b < g \/ g + HdrSize <= b BY <1>1, <2>2, Inside
  <2> QED BY <2>1, <2>3, Sizes
<1>7. \A f \in {0, 1, 2} : Fields(w, B, f) = Fields(m, B, f) BY <1>1, <1>6, WriteData
<1>8. Fields(w, B, SizeOff) = Fields(m, B, SizeOff) /\ Fields(w, B, InuseOff) = Fields(m, B, InuseOff)
      /\ Fields(w, B, NextOff) = Fields(m, B, NextOff)
  BY <1>7 DEF SizeOff, InuseOff, NextOff
<1> QED BY <1>5, <1>8 DEF Holds

\* heap_init: one free block.
LEMMA InitCells ==
  ASSUME NEW m, m = HeapInit([a \in Arena |-> 0])
  PROVE  /\ Holds(m, HeapBase, {HeapBase}, <<HeapBase>>)
         /\ HdrGet(m, HeapBase, SizeOff) = HeapSize - HdrSize
         /\ HdrGet(m, HeapBase, InuseOff) = 0
<1> DEFINE m0 == [a \in Arena |-> 0]
           B == {HeapBase}
           s == <<HeapBase>>
<1>1. 0 \in Cell /\ m0 \in [Arena -> Cell] BY RadixAssumption DEF Cell
<1>2. HeapBase \in Int /\ Room(HeapBase) BY Sizes DEF Room
<1>3. HeapSize - HdrSize \in 0..WordMod - 1 /\ NULL \in 0..WordMod - 1 /\ 0 \in 0..WordMod - 1
  BY Sizes DEF NULL
<1>4. Headers({}) BY DEF Headers
<1> HIDE DEF m0
<1>5. /\ m \in [Arena -> Cell]
      /\ HdrGet(m, HeapBase, SizeOff) = HeapSize - HdrSize
      /\ HdrGet(m, HeapBase, NextOff) = NULL
      /\ HdrGet(m, HeapBase, InuseOff) = 0
  <2>1. m = SetHdr(m0, HeapBase, HeapSize - HdrSize, NULL, 0) BY DEF HeapInit, m0
  <2>2. \A g \in {} : Apart(g, HeapBase) OBVIOUS
  <2>3. NewHeader(m0, m, {}, HeapBase, HeapSize - HdrSize, NULL, 0)
    BY <1>1, <1>2, <1>3, <1>4, <2>1, <2>2, WriteHeader
  <2> QED BY <2>3 DEF NewHeader
<1>6. Layout(B, Fields(m, B, SizeOff))
  <2>1. Fields(m, B, SizeOff) = [h \in B |-> HeapSize - HdrSize] BY <1>5 DEF Fields
  <2>2. HeapBase + HdrSize + (HeapSize - HdrSize) = ArenaEnd /\ HeapSize - HdrSize \in Nat \ {0}
        /\ HeapBase \in Arena /\ HeapBase <= HeapBase
    BY Sizes DEF Arena
  <2> QED BY <2>1, <2>2 DEF Layout
<1>7. Listed(B, Fields(m, B, InuseOff), s)
  <2>1. Fields(m, B, InuseOff) = [h \in B |-> 0] BY <1>5 DEF Fields
  <2> QED BY <2>1 DEF Listed, IsInjective, ToSet
<1>8. Links(Fields(m, B, NextOff), HeapBase, s)
  <2>1. Fields(m, B, NextOff) = [h \in B |-> NULL] BY <1>5 DEF Fields
  <2> QED BY <2>1 DEF Links, At
<1> QED BY <1>5, <1>6, <1>7, <1>8 DEF Holds

-----------------------------------------------------------------------------
\* The payloads of the blocks in use are kept.
DataKept(m, w, B) ==
  \A h \in B : HdrGet(m, h, InuseOff) = 1 =>
    \A a \in h + HdrSize..h + HdrSize + HdrGet(m, h, SizeOff) - 1 : w[a] = m[a]

LEMMA HeadersKeepData ==
  ASSUME NEW m, NEW head, NEW B, NEW s, Holds(m, head, B, s), NEW w, KeptOutside(m, w, B)
  PROVE  DataKept(m, w, B)
<1> SUFFICES ASSUME NEW h \in B, NEW a \in h + HdrSize..h + HdrSize + HdrGet(m, h, SizeOff) - 1
             PROVE  w[a] = m[a]
  BY DEF DataKept
<1> DEFINE sz == Fields(m, B, SizeOff)
<1>1. Layout(B, sz) BY HoldsParts
<1>2. a \in h + HdrSize..h + HdrSize + sz[h] - 1 BY DEF Fields
<1> HIDE DEF sz
<1>3. a \in Arena /\ \A g \in B : a < g \/ g + HdrSize <= a BY <1>1, <1>2, Inside
<1> QED BY <1>3 DEF KeptOutside

LEMMA CutKeepsData ==
  ASSUME NEW m, NEW head, NEW B, NEW s, Holds(m, head, B, s), NEW i \in DOMAIN s,
         NEW m1, NEW head1, NEW n \in Nat \ {0}, NEW rest, NEW left, NEW w,
         CutsOff(m, s, i, s[i], n, rest, left, m1, head1, w), KeptOutside(m, w, B \cup {rest})
  PROVE  DataKept(m, w, B)
<1> SUFFICES ASSUME NEW h \in B, HdrGet(m, h, InuseOff) = 1,
                    NEW a \in h + HdrSize..h + HdrSize + HdrGet(m, h, SizeOff) - 1
             PROVE  w[a] = m[a]
  BY DEF DataKept
<1> DEFINE sz == Fields(m, B, SizeOff)
<1>1. Layout(B, sz) BY HoldsParts
<1>2. a \in h + HdrSize..h + HdrSize + sz[h] - 1 BY DEF Fields
<1>3. s[i] \in B /\ HdrGet(m, s[i], InuseOff) = 0 BY NodeFacts
<1>4. sz[s[i]] = HdrGet(m, s[i], SizeOff) BY <1>3 DEF Fields
<1> HIDE DEF sz
<1>5. s[i] \in B \ {h} BY <1>3
<1>6. /\ a \in Arena /\ \A g \in B : a < g \/ g + HdrSize <= a
      /\ a < s[i] \/ s[i] + HdrSize + sz[s[i]] <= a
  BY <1>1, <1>2, <1>5, Inside
<1>7. s[i] \in Nat /\ sz[s[i]] \in Nat /\ a \in Int BY <1>1, <1>3, <1>6, LayoutHeaders, Sizes
<1>8. rest = s[i] + HdrSize + n /\ sz[s[i]] >= n + HdrSize + MinTail BY <1>4 DEF CutsOff
<1>9. a < rest \/ rest + HdrSize <= a BY <1>6, <1>7, <1>8, Sizes
<1> QED BY <1>6, <1>9 DEF KeptOutside

\* vm_malloc takes the first node that is big enough, cut or whole.
Fits1(m, s, i, n) ==
  /\ HdrGet(m, s[i], SizeOff) >= n
  /\ \A j \in 1..i - 1 : HdrGet(m, s[j], SizeOff) < n
Whole(m, head, s, n, r) ==
  \E i \in DOMAIN s : \E m1, head1 :
    /\ Fits1(m, s, i, n) /\ ~(HdrGet(m, s[i], SizeOff) >= n + HdrSize + MinTail)
    /\ Unlinks(m, head, s, i, m1, head1)
    /\ r = [m |-> HdrSet(m1, s[i], InuseOff, 1), head |-> head1, ret |-> s[i] + HdrSize]
Cut(m, head, s, n, r) ==
  \E i \in DOMAIN s : \E m1, head1, rest, left, w :
    /\ Fits1(m, s, i, n)
    /\ Unlinks(m, head, s, i, m1, head1)
    /\ CutsOff(m, s, i, s[i], n, rest, left, m1, head1, w)
    /\ r = [m |-> w, head |-> rest, ret |-> s[i] + HdrSize]
None(m, head, s, n, r) ==
  /\ \A i \in DOMAIN s : HdrGet(m, s[i], SizeOff) < n
  /\ r = [m |-> m, head |-> head, ret |-> NULL]

LEMMA Answers ==
  ASSUME NEW m, NEW head, NEW B, NEW s, Holds(m, head, B, s),
         NEW n0 \in Nat, NEW n, n = (IF n0 = 0 THEN 1 ELSE n0), NEW r, r = VmMalloc(m, head, n0)
  PROVE  None(m, head, s, n, r) \/ Whole(m, head, s, n, r) \/ Cut(m, head, s, n, r)
<1> DEFINE node == Nodes(m, head)
           Fit == {k \in 0..HeapSize : node[k] # NULL /\ HdrGet(m, node[k], SizeOff) >= n}
           k0 == Min(Fit)
           cur == node[k0]
           size == HdrGet(m, cur, SizeOff)
           next == HdrGet(m, cur, NextOff)
           head1 == IF k0 = 0 THEN next ELSE head
           m1 == IF k0 = 0 THEN m ELSE HdrSet(m, node[k0 - 1], NextOff, next)
           rest == cur + HdrSize + n
           m2 == HdrSet(SetHdr(m1, rest, size - n - HdrSize, head1, 0), cur, SizeOff, n)
           splits == SplitsOff(size, n)
<1>1. r = IF Fit = {} THEN [m |-> m, head |-> head, ret |-> NULL]
          ELSE [m |-> HdrSet(IF splits THEN m2 ELSE m1, cur, InuseOff, 1),
                head |-> IF splits THEN rest ELSE head1,
                ret |-> cur + HdrSize]
  BY DEF VmMalloc
<1>2. B \in SUBSET Arena /\ s \in Seq(B) /\ IsInjective(s) /\ Links(Fields(m, B, NextOff), head, s)
  BY HoldsParts
<1>3. Len(s) \in Nat /\ DOMAIN s = 1..Len(s) /\ Len(s) <= HeapSize /\ HeapSize \in Nat
  BY <1>2, ListIsShort, Sizes
<1>4. NULL \notin B BY <1>2, Sizes DEF Arena, NULL
<1>5. node = [k \in 0..HeapSize |-> At(s, k + 1)] BY <1>2, <1>3, <1>4, NodesAre
<1> HIDE DEF node
<1>6. \A i \in DOMAIN s : HdrGet(m, s[i], SizeOff) \in Nat /\ s[i] # NULL BY <1>2, <1>4, NodeFacts
<1>7. n \in Nat OBVIOUS
<1>8. ASSUME NEW i \in DOMAIN s PROVE i - 1 \in 0..HeapSize /\ node[i - 1] = s[i]
  <2>1. i - 1 \in 0..HeapSize /\ i - 1 + 1 = i BY <1>3
  <2> QED BY <1>5, <2>1 DEF At
<1>9. ASSUME NEW k \in Fit PROVE k + 1 \in DOMAIN s /\ node[k] = s[k + 1]
  <2>1. node[k] = At(s, k + 1) /\ node[k] # NULL BY <1>5
  <2> QED BY <2>1 DEF At
<1>10. CASE Fit = {}
  <2>1. ASSUME NEW i \in DOMAIN s PROVE HdrGet(m, s[i], SizeOff) < n
    <3>1. i - 1 \notin Fit BY <1>10
    <3> QED BY <1>6, <1>7, <1>8, <3>1
  <2> HIDE DEF Fit
  <2>2. None(m, head, s, n, r) BY <1>1, <1>10, <2>1 DEF None
  <2> QED BY <2>2
<1>11. CASE Fit # {}
  <2>1. k0 \in Fit /\ \A y \in Fit : k0 <= y
    <3>1. Fit \in SUBSET Nat OBVIOUS
    <3> HIDE DEF Fit
    <3>2. \E x \in Fit : \A y \in Fit : x <= y BY <1>11, <3>1, Least
    <3> QED BY <3>2 DEF Min
  <2> DEFINE i == k0 + 1
  <2> HIDE DEF k0
  <2>2. k0 \in 0..HeapSize /\ i \in DOMAIN s /\ cur = s[i] /\ size >= n
    BY <1>9, <2>1
  <2>3. i \in Nat /\ i - 1 = k0 /\ (k0 = 0 <=> i = 1) BY <2>2
  <2>4. \A j \in 1..i - 1 : HdrGet(m, s[j], SizeOff) < n
    <3> TAKE j \in 1..i - 1
    <3>1. j \in DOMAIN s /\ j - 1 < k0 BY <1>3, <2>2, <2>3
    <3>2. j - 1 \notin Fit
      <4>1. j - 1 \in Int /\ k0 \in Int BY <2>2
      <4> QED BY <2>1, <3>1, <4>1
    <3> QED BY <1>6, <1>7, <1>8, <3>1, <3>2
  <2>5. Fits1(m, s, i, n) BY <2>2, <2>4 DEF Fits1
  <2> HIDE DEF Fit, i
  <2>6. i # 1 => node[k0 - 1] = s[i - 1]
    <3> SUFFICES ASSUME i # 1 PROVE node[k0 - 1] = s[i - 1] OBVIOUS
    <3>1. i - 1 \in DOMAIN s BY <1>3, <2>2, <2>3
    <3> QED BY <1>8, <2>3, <3>1
  <2>7. Unlinks(m, head, s, i, m1, head1) BY <2>2, <2>3, <2>6 DEF Unlinks
  <2> HIDE DEF m1, head1
  <2>8. CASE splits
    <3> DEFINE w == HdrSet(m2, cur, InuseOff, 1)
    <3>1. r = [m |-> w, head |-> rest, ret |-> s[i] + HdrSize] BY <1>1, <1>11, <2>2, <2>8
    <3>2. size >= n + HdrSize + MinTail BY <2>8 DEF SplitsOff
    <3>3. CutsOff(m, s, i, s[i], n, rest, size - n - HdrSize, m1, head1, w)
      BY <2>2, <3>2 DEF CutsOff
    <3> HIDE DEF w, rest, size
    <3>4. Cut(m, head, s, n, r) BY <2>2, <2>5, <2>7, <3>1, <3>3 DEF Cut
    <3> QED BY <3>4
  <2>9. CASE ~splits
    <3>1. r = [m |-> HdrSet(m1, s[i], InuseOff, 1), head |-> head1, ret |-> s[i] + HdrSize]
      BY <1>1, <1>11, <2>2, <2>9
    <3>2. ~(HdrGet(m, s[i], SizeOff) >= n + HdrSize + MinTail) BY <2>2, <2>9 DEF SplitsOff
    <3>3. Whole(m, head, s, n, r) BY <2>2, <2>5, <2>7, <3>1, <3>2 DEF Whole
    <3> QED BY <3>3
  <2> QED BY <2>8, <2>9
<1> QED BY <1>10, <1>11

-----------------------------------------------------------------------------
\* The variables of the allocator of blocks, in a state of IInv and in the next.
BlockSize == [h \in Starts |-> HdrGet(mem, h, SizeOff)]
BlockInuse == [h \in Starts |-> HdrGet(mem, h, InuseOff) = 1]

\* The next state, from what the call left in memory.
LEMMA NextState ==
  ASSUME NEW B, NEW s, Holds(mem', heapFreeHead', B, s)
  PROVE  /\ IInv' /\ Starts' = B /\ Chain' = s
         /\ BlockSize' = Fields(mem', B, SizeOff)
         /\ BlockInuse' = [h \in B |-> Fields(mem', B, InuseOff)[h] = 1]
<1>1. StartsIn(mem') = B /\ ChainIn(mem', heapFreeHead') = s BY HoldsAre
<1>2. Starts' = B /\ Chain' = s BY <1>1 DEF Starts, Chain
<1>3. IInv' BY <1>2 DEF IInv
<1> QED BY <1>2, <1>3 DEF BlockSize, BlockInuse, Fields

\* The state before.
LEMMA ThisState ==
  ASSUME IInv
  PROVE  /\ BlockSize = Fields(mem, Starts, SizeOff)
         /\ Fields(mem, Starts, InuseOff) \in [Starts -> {0, 1}]
         /\ BlockInuse = [h \in Starts |-> Fields(mem, Starts, InuseOff)[h] = 1]
         /\ \A h \in Starts : /\ BlockSize[h] = HdrGet(mem, h, SizeOff)
                              /\ BlockInuse[h] = (HdrGet(mem, h, InuseOff) = 1)
                              /\ h \in Nat \ {0} /\ BlockSize[h] \in Nat \ {0}
                              /\ h + HdrSize + BlockSize[h] <= ArenaEnd
<1>1. BlockSize = Fields(mem, Starts, SizeOff) BY DEF BlockSize, Fields
<1>2. Fields(mem, Starts, InuseOff) \in [Starts -> {0, 1}] /\ Layout(Starts, BlockSize)
  BY <1>1, HoldsParts DEF IInv
<1>3. \A h \in Starts : Fields(mem, Starts, InuseOff)[h] = HdrGet(mem, h, InuseOff) BY DEF Fields
<1>4. \A h \in Starts : h \in Nat \ {0} /\ BlockSize[h] \in Nat \ {0} /\ h + HdrSize + BlockSize[h] <= ArenaEnd
  BY <1>2, LayoutHeaders
<1> QED BY <1>1, <1>2, <1>3, <1>4 DEF BlockSize, BlockInuse

\* A malloc that finds no block big enough.
LEMMA NoneStep ==
  ASSUME IInv, NEW req \in Requests, Malloc(req), NEW n, n = Blocks!Want(req),
         None(mem, heapFreeHead, Chain, n, VmMalloc(mem, heapFreeHead, req % WordMod))
  PROVE  IInv' /\ Blocks!MallocNull(req) /\ DataKept(mem, mem', Starts)
<1>1. /\ mem' = mem /\ heapFreeHead' = heapFreeHead /\ Running
      /\ last' = [op |-> "malloc", arg |-> req, ret |-> NULL]
      /\ \A i \in DOMAIN Chain : HdrGet(mem, Chain[i], SizeOff) < n
  BY DEF Malloc, None
<1>2. Holds(mem', heapFreeHead', Starts, Chain) BY <1>1 DEF IInv
<1>3. IInv' /\ Starts' = Starts /\ Chain' = Chain BY <1>2, NextState
<1>4. \A i \in DOMAIN Chain : Chain[i] \in Starts BY HoldsParts DEF IInv
<1>5. Blocks!MallocNull(req)
  BY <1>1, <1>3, <1>4 DEF Blocks!MallocNull, Blocks!Running, Running, NULL, Blocks!NULL
<1> QED BY <1>1, <1>3, <1>5 DEF DataKept

\* A malloc that uses the block it finds whole.
LEMMA WholeStep ==
  ASSUME IInv, NEW req \in Requests, Malloc(req), NEW n, n = Blocks!Want(req),
         Whole(mem, heapFreeHead, Chain, n, VmMalloc(mem, heapFreeHead, req % WordMod))
  PROVE  IInv' /\ Blocks!MallocFound(req) /\ DataKept(mem, mem', Starts)
<1>1. PICK i \in DOMAIN Chain : \E m1, head1 :
        /\ Fits1(mem, Chain, i, n) /\ ~(HdrGet(mem, Chain[i], SizeOff) >= n + HdrSize + MinTail)
        /\ Unlinks(mem, heapFreeHead, Chain, i, m1, head1)
        /\ VmMalloc(mem, heapFreeHead, req % WordMod) =
             [m |-> HdrSet(m1, Chain[i], InuseOff, 1), head |-> head1, ret |-> Chain[i] + HdrSize]
  BY DEF Whole
<1>2. PICK m1, head1 :
        /\ Fits1(mem, Chain, i, n) /\ ~(HdrGet(mem, Chain[i], SizeOff) >= n + HdrSize + MinTail)
        /\ Unlinks(mem, heapFreeHead, Chain, i, m1, head1)
        /\ VmMalloc(mem, heapFreeHead, req % WordMod) =
             [m |-> HdrSet(m1, Chain[i], InuseOff, 1), head |-> head1, ret |-> Chain[i] + HdrSize]
  BY <1>1
<1>3. /\ mem' = HdrSet(m1, Chain[i], InuseOff, 1) /\ heapFreeHead' = head1 /\ Running
      /\ last' = [op |-> "malloc", arg |-> req, ret |-> Chain[i] + HdrSize]
  BY <1>2 DEF Malloc
<1>4. Holds(mem, heapFreeHead, Starts, Chain) BY DEF IInv
<1>5. /\ Holds(mem', heapFreeHead', Starts, RemoveAt(Chain, i))
      /\ KeptOutside(mem, mem', Starts)
      /\ Fields(mem', Starts, SizeOff) = Fields(mem, Starts, SizeOff)
      /\ Fields(mem', Starts, InuseOff) = [Fields(mem, Starts, InuseOff) EXCEPT ![Chain[i]] = 1]
  <2>1. PICK w : w = mem' OBVIOUS
  <2>2. w = HdrSet(m1, Chain[i], InuseOff, 1) BY <1>3, <2>1
  <2>3. Unlinks(mem, heapFreeHead, Chain, i, m1, head1) BY <1>2
  <2>4. /\ Holds(w, head1, Starts, RemoveAt(Chain, i))
        /\ KeptOutside(mem, w, Starts)
        /\ Fields(w, Starts, SizeOff) = Fields(mem, Starts, SizeOff)
        /\ Fields(w, Starts, InuseOff) = [Fields(mem, Starts, InuseOff) EXCEPT ![Chain[i]] = 1]
    BY <1>4, <2>2, <2>3, TakeWholeCells
  <2> QED BY <1>3, <2>1, <2>4
<1>6. /\ IInv' /\ Starts' = Starts /\ Chain' = RemoveAt(Chain, i)
      /\ BlockSize' = Fields(mem', Starts, SizeOff)
      /\ BlockInuse' = [h \in Starts |-> Fields(mem', Starts, InuseOff)[h] = 1]
  BY <1>5, NextState
<1>7. /\ BlockSize = Fields(mem, Starts, SizeOff)
      /\ BlockInuse = [h \in Starts |-> Fields(mem, Starts, InuseOff)[h] = 1]
      /\ Fields(mem, Starts, InuseOff) \in [Starts -> {0, 1}]
      /\ \A h \in Starts : BlockSize[h] = HdrGet(mem, h, SizeOff)
  BY ThisState
<1>8. Chain[i] \in Starts /\ \A j \in DOMAIN Chain : Chain[j] \in Starts BY <1>4, NodeFacts
<1>9. BlockSize' = BlockSize BY <1>5, <1>6, <1>7
<1>10. BlockInuse' = [BlockInuse EXCEPT ![Chain[i]] = TRUE] BY <1>5, <1>6, <1>7, <1>8
<1>11. Chain' = Blocks!RemoveAt(Chain, i) BY <1>6 DEF RemoveAt, Blocks!RemoveAt
<1>12. Blocks!TakeWhole(i) BY <1>9, <1>10, <1>11 DEF Blocks!TakeWhole, BlockSize, BlockInuse
<1>13. Blocks!FirstFit(i, n)
  <2>1. BlockSize[Chain[i]] >= n BY <1>2, <1>7, <1>8 DEF Fits1
  <2>2. \A j \in 1..i - 1 : BlockSize[Chain[j]] < n
    <3> TAKE j \in 1..i - 1
    <3>1. Chain \in Seq(Starts) BY <1>4, HoldsParts
    <3>2. j \in DOMAIN Chain BY <3>1
    <3> QED BY <1>2, <1>7, <1>8, <3>2 DEF Fits1
  <2> QED BY <2>1, <2>2 DEF Blocks!FirstFit, BlockSize
<1>14. ~Blocks!Splits(Chain[i], n) BY <1>2, <1>7, <1>8 DEF Blocks!Splits, BlockSize
<1>15. Blocks!MallocFound(req)
  BY <1>3, <1>12, <1>13, <1>14 DEF Blocks!MallocFound, Blocks!Running, Running, Blocks!Payload
<1>16. DataKept(mem, mem', Starts) BY <1>4, <1>5, HeadersKeepData
<1> QED BY <1>6, <1>15, <1>16

\* A malloc that cuts the block it finds.
LEMMA CutStep ==
  ASSUME IInv, NEW req \in Requests, Malloc(req), NEW n \in Nat \ {0}, n = Blocks!Want(req),
         Cut(mem, heapFreeHead, Chain, n, VmMalloc(mem, heapFreeHead, req % WordMod))
  PROVE  IInv' /\ Blocks!MallocFound(req) /\ DataKept(mem, mem', Starts)
<1>1. PICK i \in DOMAIN Chain : \E m1, head1, rest, left, w :
        /\ Fits1(mem, Chain, i, n)
        /\ Unlinks(mem, heapFreeHead, Chain, i, m1, head1)
        /\ CutsOff(mem, Chain, i, Chain[i], n, rest, left, m1, head1, w)
        /\ VmMalloc(mem, heapFreeHead, req % WordMod) =
             [m |-> w, head |-> rest, ret |-> Chain[i] + HdrSize]
  BY DEF Cut
<1>2. PICK m1, head1, rest, left, w :
        /\ Fits1(mem, Chain, i, n)
        /\ Unlinks(mem, heapFreeHead, Chain, i, m1, head1)
        /\ CutsOff(mem, Chain, i, Chain[i], n, rest, left, m1, head1, w)
        /\ VmMalloc(mem, heapFreeHead, req % WordMod) =
             [m |-> w, head |-> rest, ret |-> Chain[i] + HdrSize]
  BY <1>1
<1>3. /\ mem' = w /\ heapFreeHead' = rest /\ Running
      /\ last' = [op |-> "malloc", arg |-> req, ret |-> Chain[i] + HdrSize]
  BY <1>2 DEF Malloc
<1>4. Holds(mem, heapFreeHead, Starts, Chain) BY DEF IInv
<1> DEFINE h == Chain[i]
<1>5. /\ TakenFront(mem, w, Starts, RemoveAt(Chain, i), h, n, rest, left)
      /\ DataKept(mem, w, Starts)
  <2>1. Unlinks(mem, heapFreeHead, Chain, i, m1, head1) BY <1>2
  <2>2. CutsOff(mem, Chain, i, h, n, rest, left, m1, head1, w) BY <1>2
  <2>3. TakenFront(mem, w, Starts, RemoveAt(Chain, i), h, n, rest, left)
    BY <1>4, <2>1, <2>2, TakeFrontCells
  <2>4. KeptOutside(mem, w, Starts \cup {rest}) BY <2>3 DEF TakenFront
  <2> QED BY <1>4, <2>2, <2>3, <2>4, CutKeepsData
<1>6. PICK C, t : C = Starts \cup {rest} /\ t = <<rest>> \o RemoveAt(Chain, i) OBVIOUS
<1>7. /\ rest \notin Starts
      /\ Holds(w, rest, C, t)
      /\ Fields(w, C, SizeOff) =
            [b \in C |-> IF b = h THEN n ELSE IF b = rest THEN left ELSE HdrGet(mem, b, SizeOff)]
      /\ Fields(w, C, InuseOff) =
            [b \in C |-> IF b = h THEN 1 ELSE IF b = rest THEN 0 ELSE HdrGet(mem, b, InuseOff)]
  BY <1>5, <1>6 DEF TakenFront
<1>8. /\ IInv' /\ Starts' = C /\ Chain' = t
      /\ BlockSize' = Fields(w, C, SizeOff)
      /\ BlockInuse' = [b \in C |-> Fields(w, C, InuseOff)[b] = 1]
  <2>1. Holds(mem', heapFreeHead', C, t) BY <1>3, <1>7
  <2> QED BY <1>3, <2>1, NextState
<1>9. \A b \in Starts : /\ BlockSize[b] = HdrGet(mem, b, SizeOff)
                        /\ BlockInuse[b] = (HdrGet(mem, b, InuseOff) = 1)
  BY ThisState
<1>10. h \in Starts /\ \A j \in DOMAIN Chain : Chain[j] \in Starts BY <1>4, NodeFacts
<1>11. rest = h + HdrSize + n /\ left = BlockSize[h] - n - HdrSize /\ BlockSize[h] >= n + HdrSize + MinTail
  BY <1>2, <1>9, <1>10 DEF CutsOff
<1>12. h # rest BY <1>10, <1>7
<1>13. BlockSize' = [b \in C |-> IF b = h THEN n ELSE IF b = rest THEN BlockSize[h] - n - HdrSize
                                 ELSE BlockSize[b]]
  BY <1>6, <1>9, <1>11, <1>7, <1>8
<1>14. BlockInuse' = [b \in C |-> IF b = h THEN TRUE ELSE IF b = rest THEN FALSE ELSE BlockInuse[b]]
  <2>1. \A b \in C : Fields(w, C, InuseOff)[b] = IF b = h THEN 1 ELSE IF b = rest THEN 0
                                                 ELSE HdrGet(mem, b, InuseOff)
    BY <1>7
  <2>2. ASSUME NEW b \in C
        PROVE  (Fields(w, C, InuseOff)[b] = 1) =
                 (IF b = h THEN TRUE ELSE IF b = rest THEN FALSE ELSE BlockInuse[b])
    <3>1. CASE b = h BY <2>1, <3>1
    <3>2. CASE b # h /\ b = rest
      <4>1. Fields(w, C, InuseOff)[b] = 0 /\ 0 # 1 BY <2>1, <3>2
      <4> QED BY <3>2, <4>1, Zenon
    <3>3. CASE b # h /\ b # rest
      <4>1. b \in Starts BY <1>6, <3>3
      <4> QED BY <1>9, <2>1, <3>3, <4>1
    <3> QED BY <3>1, <3>2, <3>3
  <2> QED BY <1>8, <2>2
<1>15. Chain' = <<rest>> \o Blocks!RemoveAt(Chain, i) BY <1>6, <1>8 DEF RemoveAt, Blocks!RemoveAt
<1>16. DOMAIN BlockSize = Starts /\ Blocks!Blocks = Starts BY DEF BlockSize, Blocks!Blocks
<1>17. Blocks!TakeFront(i, n)
  <2> DEFINE left0 == Chain[i] + HdrSize + n
  <2>1. rest = left0 /\ C = Blocks!Blocks \cup {left0} BY <1>6, <1>11, <1>16
  <2>2. Chain' = <<left0>> \o Blocks!RemoveAt(Chain, i) BY <1>15, <2>1
  <2>3. BlockSize' = [b \in Blocks!Blocks \cup {left0} |->
                        IF b = Chain[i] THEN n
                        ELSE IF b = left0 THEN BlockSize[Chain[i]] - n - HdrSize ELSE BlockSize[b]]
    BY <1>13, <2>1
  <2>4. BlockInuse' = [b \in Blocks!Blocks \cup {left0} |->
                         IF b = Chain[i] THEN TRUE ELSE IF b = left0 THEN FALSE ELSE BlockInuse[b]]
    BY <1>14, <2>1, Zenon
  <2> QED BY <2>2, <2>3, <2>4, Zenon DEF Blocks!TakeFront, BlockSize, BlockInuse
<1>18. Blocks!FirstFit(i, n)
  <2>1. BlockSize[Chain[i]] >= n BY <1>2, <1>9, <1>10 DEF Fits1
  <2>2. \A j \in 1..i - 1 : BlockSize[Chain[j]] < n
    <3> TAKE j \in 1..i - 1
    <3>1. Chain \in Seq(Starts) BY <1>4, HoldsParts
    <3>2. j \in DOMAIN Chain BY <3>1
    <3> QED BY <1>2, <1>9, <1>10, <3>2 DEF Fits1
  <2> QED BY <2>1, <2>2 DEF Blocks!FirstFit, BlockSize
<1>19. Blocks!Splits(Chain[i], n) BY <1>11 DEF Blocks!Splits, BlockSize
<1>20. Blocks!MallocFound(req)
  BY <1>3, <1>17, <1>18, <1>19 DEF Blocks!MallocFound, Blocks!Running, Running, Blocks!Payload
<1> QED BY <1>3, <1>5, <1>20, <1>8

LEMMA MallocStep ==
  ASSUME IInv, NEW req \in Requests, Malloc(req)
  PROVE  /\ IInv' /\ DataKept(mem, mem', Starts)
         /\ Blocks!MallocFound(req) \/ Blocks!MallocNull(req)
<1>1. PICK n, n0, r : /\ n = Blocks!Want(req) /\ n0 = req % WordMod
                      /\ r = VmMalloc(mem, heapFreeHead, req % WordMod)
  OBVIOUS
<1>2. req \in Int /\ WordMod \in Nat \ {0} BY CellsAssumption, Sizes
<1>3. n0 \in Nat /\ n = (IF n0 = 0 THEN 1 ELSE n0) /\ n \in Nat \ {0}
  BY <1>1, <1>2 DEF Blocks!Want, Blocks!Narrowed
<1>4. r = VmMalloc(mem, heapFreeHead, n0) BY <1>1
<1>5. Holds(mem, heapFreeHead, Starts, Chain) BY DEF IInv
<1>6. \/ None(mem, heapFreeHead, Chain, n, r)
      \/ Whole(mem, heapFreeHead, Chain, n, r)
      \/ Cut(mem, heapFreeHead, Chain, n, r)
  BY <1>3, <1>4, <1>5, Answers
<1> QED BY <1>1, <1>3, <1>6, NoneStep, WholeStep, CutStep

\* A free that is not refused: of NULL, or of a block in use.
LEMMA FreeStep ==
  ASSUME IInv, NEW p \in Returned, Free(p)
  PROVE  /\ IInv' /\ DataKept(mem, mem', Starts)
         /\ Blocks!FreeNull \/ \E h \in Starts : Blocks!FreeBlock(h)
<1>1. Holds(mem, heapFreeHead, Starts, Chain) BY DEF IInv
<1>2. /\ Running /\ ~FreeFatal(mem, p)
      /\ mem' = VmFree(mem, heapFreeHead, p).m /\ heapFreeHead' = VmFree(mem, heapFreeHead, p).head
      /\ last' = [op |-> "free", arg |-> p, ret |-> NULL]
  BY DEF Free
<1>3. CASE p = NULL
  <2>1. mem' = mem /\ heapFreeHead' = heapFreeHead BY <1>2, <1>3 DEF VmFree
  <2>2. Holds(mem', heapFreeHead', Starts, Chain) BY <1>1, <2>1
  <2>3. IInv' /\ Starts' = Starts /\ Chain' = Chain BY <2>2, NextState
  <2>4. Blocks!FreeNull
    BY <1>2, <1>3, <2>1, <2>3 DEF Blocks!FreeNull, Blocks!Running, Running, NULL, Blocks!NULL
  <2>5. DataKept(mem, mem', Starts) BY <2>1 DEF DataKept
  <2> QED BY <2>3, <2>4, <2>5
<1>4. CASE p # NULL
  <2>1. /\ HeapBase + HdrSize <= p /\ p < HeapBase + HeapSize
        /\ HdrGet(mem, p - HdrSize, InuseOff) # 0
    BY <1>2, <1>4 DEF FreeFatal
  <2>2. p \notin WildPointers
    <3> SUFFICES ASSUME p \in WildPointers PROVE FALSE OBVIOUS
    <3>1. p \in Nat /\ p \notin (HeapBase + HdrSize)..(ArenaEnd - 1) BY CellsAssumption
    <3> QED BY <2>1, <3>1, Sizes
  <2>3. PICK h \in Starts : p = h + HdrSize BY <1>4, <2>2 DEF Returned
  <2>4. h \in Nat /\ p - HdrSize = h BY <2>3, ThisState, Sizes
  <2>5. HdrGet(mem, h, InuseOff) = 1
    <3>1. Fields(mem, Starts, InuseOff) \in [Starts -> {0, 1}] BY ThisState
    <3>2. Fields(mem, Starts, InuseOff)[h] = HdrGet(mem, h, InuseOff) BY DEF Fields
    <3> QED BY <2>1, <2>4, <3>1, <3>2
  <2>6. heapFreeHead' = h /\ mem' = HdrSet(HdrSet(mem, h, InuseOff, 0), h, NextOff, heapFreeHead)
    BY <1>2, <1>4, <2>4 DEF VmFree
  <2>7. /\ Holds(mem', heapFreeHead', Starts, <<h>> \o Chain)
        /\ KeptOutside(mem, mem', Starts)
        /\ Fields(mem', Starts, SizeOff) = Fields(mem, Starts, SizeOff)
        /\ Fields(mem', Starts, InuseOff) = [Fields(mem, Starts, InuseOff) EXCEPT ![h] = 0]
    <3>1. PICK w : w = mem' OBVIOUS
    <3>2. w = HdrSet(HdrSet(mem, h, InuseOff, 0), h, NextOff, heapFreeHead) BY <2>6, <3>1
    <3>3. /\ Holds(w, h, Starts, <<h>> \o Chain)
          /\ KeptOutside(mem, w, Starts)
          /\ Fields(w, Starts, SizeOff) = Fields(mem, Starts, SizeOff)
          /\ Fields(w, Starts, InuseOff) = [Fields(mem, Starts, InuseOff) EXCEPT ![h] = 0]
      BY <1>1, <2>5, <3>2, FreeCells
    <3> QED BY <2>6, <3>1, <3>3
  <2>8. /\ IInv' /\ Starts' = Starts /\ Chain' = <<h>> \o Chain
        /\ BlockSize' = Fields(mem', Starts, SizeOff)
        /\ BlockInuse' = [b \in Starts |-> Fields(mem', Starts, InuseOff)[b] = 1]
    BY <2>7, NextState
  <2>9. /\ BlockSize = Fields(mem, Starts, SizeOff)
        /\ BlockInuse = [b \in Starts |-> Fields(mem, Starts, InuseOff)[b] = 1]
        /\ Fields(mem, Starts, InuseOff) \in [Starts -> {0, 1}]
        /\ \A b \in Starts : BlockInuse[b] = (HdrGet(mem, b, InuseOff) = 1)
    BY ThisState
  <2>10. BlockSize' = BlockSize BY <2>7, <2>8, <2>9
  <2>11. BlockInuse' = [BlockInuse EXCEPT ![h] = FALSE]
    <3>1. [Fields(mem, Starts, InuseOff) EXCEPT ![h] = 0][h] # 1 BY <2>9
    <3>2. \A b \in Starts \ {h} : [Fields(mem, Starts, InuseOff) EXCEPT ![h] = 0][b] = Fields(mem, Starts, InuseOff)[b]
      BY <2>9
    <3> QED BY <2>7, <2>8, <2>9, <3>1, <3>2
  <2>12. BlockInuse[h] BY <2>5, <2>9
  <2>13. Blocks!FreeBlock(h)
    BY <1>2, <2>3, <2>8, <2>10, <2>11, <2>12
    DEF Blocks!FreeBlock, Blocks!Running, Running, Blocks!Payload, NULL, Blocks!NULL, BlockSize, BlockInuse
  <2>14. DataKept(mem, mem', Starts) BY <1>1, <2>7, HeadersKeepData
  <2> QED BY <2>8, <2>13, <2>14
<1> QED BY <1>3, <1>4

\* A free that is refused: of a pointer out of range, or of a block not in use.
LEMMA RefusedStep ==
  ASSUME IInv, NEW p \in Returned, FreeRefused(p)
  PROVE  /\ IInv' /\ DataKept(mem, mem', Starts)
         /\ Blocks!FreeRefused(p) /\ p \in WildPointers \cup {Blocks!Payload(h) : h \in Starts}
<1>1. Holds(mem, heapFreeHead, Starts, Chain) BY DEF IInv
<1>2. /\ Running /\ FreeFatal(mem, p) /\ mem' = mem /\ heapFreeHead' = heapFreeHead
      /\ last' = [op |-> "fatal", arg |-> p, ret |-> NULL]
  BY DEF FreeRefused
<1>3. Holds(mem', heapFreeHead', Starts, Chain) BY <1>1, <1>2
<1>4. IInv' /\ Starts' = Starts /\ Chain' = Chain BY <1>3, NextState
<1>5. p # NULL BY <1>2 DEF FreeFatal
<1>6. DOMAIN BlockSize = Starts /\ Blocks!Blocks = Starts BY DEF BlockSize, Blocks!Blocks
<1>7. p \in WildPointers \/ \E h \in Starts : p = h + HdrSize /\ ~BlockInuse[h]
  <2> SUFFICES ASSUME NEW h \in Starts, p = h + HdrSize PROVE ~BlockInuse[h]
    BY <1>5 DEF Returned
  <2>1. /\ h \in Nat /\ BlockSize[h] \in Nat \ {0} /\ h + HdrSize + BlockSize[h] <= ArenaEnd
        /\ BlockInuse[h] = (HdrGet(mem, h, InuseOff) = 1)
    BY ThisState
  <2>2. HeapBase <= h BY <1>1, HoldsParts, Sizes DEF Arena
  <2>3. HeapBase + HdrSize <= p /\ p < HeapBase + HeapSize /\ p - HdrSize = h BY <2>1, <2>2, Sizes
  <2>4. HdrGet(mem, h, InuseOff) = 0 BY <1>2, <2>3 DEF FreeFatal
  <2>5. ~(HdrGet(mem, h, InuseOff) = 1) BY <2>4
  <2>6. BlockInuse[h] = (HdrGet(mem, h, InuseOff) = 1) BY <2>1
  <2> QED BY <2>5, <2>6, Zenon
<1>8. Blocks!FreeRefused(p)
  <2>1. last' = [op |-> "fatal", arg |-> p, ret |-> 0] /\ last.op # "fatal" BY <1>2 DEF NULL, Running
  <2>2. p \in WildPointers \/ \E h \in Blocks!Blocks : p = Blocks!Payload(h) /\ ~BlockInuse[h]
    BY <1>6, <1>7 DEF Blocks!Payload
  <2>3. BlockSize' = BlockSize /\ BlockInuse' = BlockInuse BY <1>2, <1>4 DEF BlockSize, BlockInuse
  <2> QED BY <1>4, <2>1, <2>2, <2>3
      DEF Blocks!FreeRefused, Blocks!Running, Blocks!NULL, BlockSize, BlockInuse
<1>9. p \in WildPointers \cup {Blocks!Payload(h) : h \in Starts} BY <1>7 DEF Blocks!Payload
<1> QED BY <1>2, <1>4, <1>8, <1>9 DEF DataKept

\* The program stores in a block it holds: the allocator's state is the same.
LEMMA StoreStep ==
  ASSUME IInv, NEW h \in Starts, NEW v \in Stored, Store(h, v)
  PROVE  IInv' /\ UNCHANGED <<BlockSize, BlockInuse, Chain, last>>
<1>1. Holds(mem, heapFreeHead, Starts, Chain) BY DEF IInv
<1>2. PICK a \in h + HdrSize..h + HdrSize + HdrGet(mem, h, SizeOff) - Word :
        mem' = PutU(mem, a, Word, v)
  BY DEF Store
<1>3. heapFreeHead' = heapFreeHead /\ last' = last BY DEF Store
<1>4. v \in Nat BY CellsAssumption
<1>5. /\ Holds(mem', heapFreeHead, Starts, Chain)
      /\ Fields(mem', Starts, SizeOff) = Fields(mem, Starts, SizeOff)
      /\ Fields(mem', Starts, InuseOff) = Fields(mem, Starts, InuseOff)
  <2>1. PICK w : w = mem' OBVIOUS
  <2>2. w = PutU(mem, a, Word, v) BY <1>2, <2>1
  <2>3. /\ Holds(w, heapFreeHead, Starts, Chain)
        /\ Fields(w, Starts, SizeOff) = Fields(mem, Starts, SizeOff)
        /\ Fields(w, Starts, InuseOff) = Fields(mem, Starts, InuseOff)
    BY <1>1, <1>4, <2>2, StoreCells
  <2> QED BY <2>1, <2>3
<1>6. Holds(mem', heapFreeHead', Starts, Chain) BY <1>3, <1>5
<1>7. /\ IInv' /\ Starts' = Starts /\ Chain' = Chain
      /\ BlockSize' = Fields(mem', Starts, SizeOff)
      /\ BlockInuse' = [b \in Starts |-> Fields(mem', Starts, InuseOff)[b] = 1]
  BY <1>6, NextState
<1>8. BlockSize' = BlockSize /\ BlockInuse' = BlockInuse BY <1>5, <1>7, ThisState
<1> QED BY <1>3, <1>7, <1>8

\* heap_init.
LEMMA InitStep ==
  ASSUME Init
  PROVE  IInv /\ Blocks!Init
<1>1. PICK m : m = mem OBVIOUS
<1>2. m = HeapInit([a \in Arena |-> 0]) /\ heapFreeHead = HeapBase
      /\ last = [op |-> "start", arg |-> 0, ret |-> NULL]
  BY <1>1 DEF Init
<1>3. /\ Holds(m, HeapBase, {HeapBase}, <<HeapBase>>)
      /\ HdrGet(m, HeapBase, SizeOff) = HeapSize - HdrSize
      /\ HdrGet(m, HeapBase, InuseOff) = 0
  BY <1>2, InitCells
<1>4. StartsIn(m) = {HeapBase} /\ ChainIn(m, HeapBase) = <<HeapBase>> BY <1>3, HoldsAre
<1>5. Starts = {HeapBase} /\ Chain = <<HeapBase>> BY <1>1, <1>2, <1>4 DEF Starts, Chain
<1>6. IInv BY <1>1, <1>2, <1>3, <1>5 DEF IInv
<1>7. BlockSize = [h \in {HeapBase} |-> HeapSize - HdrSize] BY <1>1, <1>3, <1>5 DEF BlockSize
<1>8. BlockInuse = [h \in {HeapBase} |-> FALSE]
  <2>1. ~(HdrGet(m, HeapBase, InuseOff) = 1) BY <1>3
  <2> QED BY <1>1, <1>5, <2>1 DEF BlockInuse
<1>9. Blocks!Init
  BY <1>2, <1>5, <1>7, <1>8 DEF Blocks!Init, NULL, Blocks!NULL, BlockSize, BlockInuse
<1> QED BY <1>6, <1>9

\* Every step keeps the invariant, is a step of the allocator of blocks, and
\* keeps the program's data unless the program itself stores.
LEMMA Step ==
  ASSUME IInv, [Next]_vars
  PROVE  IInv' /\ [Blocks!Next]_(Blocks!vars) /\ (last' # last => DataKept(mem, mem', Starts))
<1>1. Blocks!Blocks = Starts BY DEF Blocks!Blocks
<1>2. ASSUME NEW req \in Requests, Malloc(req)
      PROVE  IInv' /\ Blocks!Next /\ DataKept(mem, mem', Starts)
  BY <1>2, MallocStep DEF Blocks!Next
<1>3. ASSUME NEW p \in Returned, Free(p)
      PROVE  IInv' /\ Blocks!Next /\ DataKept(mem, mem', Starts)
  BY <1>1, <1>3, FreeStep DEF Blocks!Next
<1>4. ASSUME NEW p \in Returned, FreeRefused(p)
      PROVE  IInv' /\ Blocks!Next /\ DataKept(mem, mem', Starts)
  BY <1>1, <1>4, RefusedStep DEF Blocks!Next
<1>5. ASSUME NEW h \in Starts, NEW v \in Stored, Store(h, v)
      PROVE  IInv' /\ UNCHANGED Blocks!vars /\ last' = last
  BY <1>5, StoreStep DEF Blocks!vars, BlockSize, BlockInuse
<1>6. ASSUME UNCHANGED vars
      PROVE  IInv' /\ UNCHANGED Blocks!vars /\ last' = last
  <2>1. mem' = mem /\ heapFreeHead' = heapFreeHead /\ last' = last BY <1>6 DEF vars
  <2>2. Starts' = Starts /\ Chain' = Chain BY <2>1 DEF Starts, Chain
  <2> QED BY <2>1, <2>2 DEF IInv, Blocks!vars
<1> QED BY <1>2, <1>3, <1>4, <1>5, <1>6 DEF Next

-----------------------------------------------------------------------------
\* Spec keeps the inductive invariant.
THEOREM CellsInductive == Spec => []IInv
<1>1. Init => IInv BY InitStep
<1>2. IInv /\ [Next]_vars => IInv' BY Step
<1> QED BY <1>1, <1>2, PTL DEF Spec

\* Memory keeps its cells, and the list's head is in the arena or NULL.
THEOREM CellsTypeCorrect == Spec => []TypeOK
<1>1. IInv => TypeOK
  <2> SUFFICES ASSUME IInv PROVE TypeOK OBVIOUS
  <2>1. mem \in [Arena -> Cell] /\ Starts \in SUBSET Arena /\ Chain \in Seq(Starts)
        /\ heapFreeHead = At(Chain, 1)
    BY HoldsParts DEF IInv, Links
  <2> QED BY <2>1 DEF TypeOK, Cell, At
<1> QED BY <1>1, CellsInductive, PTL

\* Whatever the program stores in its regions, the links from the head lead
\* through blocks to NULL.
THEOREM ListStaysBlocks == Spec => []ListIsBlocks
<1>1. IInv => ListIsBlocks
  <2> SUFFICES ASSUME IInv PROVE ListIsBlocks OBVIOUS
  <2>1. /\ Starts \in SUBSET Arena /\ Chain \in Seq(Starts) /\ IsInjective(Chain)
        /\ Links(Fields(mem, Starts, NextOff), heapFreeHead, Chain)
    BY HoldsParts DEF IInv
  <2>2. Len(Chain) \in 0..HeapSize /\ DOMAIN Chain = 1..Len(Chain) BY <2>1, ListIsShort, Sizes
  <2>3. NULL \notin Starts BY <2>1, Sizes DEF Arena, NULL
  <2>4. Nodes(mem, heapFreeHead) = [k \in 0..HeapSize |-> At(Chain, k + 1)]
    BY <2>1, <2>2, <2>3, NodesAre
  <2>5. Nodes(mem, heapFreeHead)[Len(Chain)] = NULL
    <3>1. Len(Chain) + 1 \notin DOMAIN Chain BY <2>2
    <3> QED BY <2>2, <2>4, <3>1 DEF At
  <2>6. \A i \in DOMAIN Chain : Chain[i] \in Starts BY <2>1
  <2>7. Len(Chain) \in DOMAIN Nodes(mem, heapFreeHead) BY <2>2, <2>4
  <2> QED BY <2>5, <2>6, <2>7 DEF ListIsBlocks
<1> QED BY <1>1, CellsInductive, PTL

\* No call of malloc or free writes in a region the program holds.
THEOREM DataAlwaysKept == Spec => ProgramDataKept
<1> DEFINE A == last' # last =>
                  \A h \in Starts : HdrGet(mem, h, InuseOff) = 1 =>
                    \A a \in h + HdrSize..h + HdrSize + HdrGet(mem, h, SizeOff) - 1 :
                      mem'[a] = mem[a]
<1>1. IInv /\ [Next]_vars => A BY Step DEF DataKept
<1>2. IInv /\ [Next]_vars => [A]_vars BY <1>1
<1> HIDE DEF A
<1>3. Spec => [][A]_vars BY <1>2, CellsInductive, PTL DEF Spec
<1> QED BY <1>3 DEF ProgramDataKept, A

\* The words in memory implement the allocator of blocks.
THEOREM CellsImplementBlocks == Spec => ImplementsHeap
<1>1. Init => Blocks!Init BY InitStep
<1>2. IInv /\ [Next]_vars => [Blocks!Next]_(Blocks!vars) BY Step
<1> QED BY <1>1, <1>2, CellsInductive, PTL DEF Spec, ImplementsHeap, Blocks!Spec
-----------------------------------------------------------------------------
\* The two instances of Heap above are one allocator.
LEMMA SameInit == Blocks!Init => HP!Init
BY DEF Blocks!Init, HP!Init, Blocks!NULL, HP!NULL

LEMMA SameNext == Blocks!Next => HP!Next
<1> USE DEF Blocks!Running, HP!Running, Blocks!NULL, HP!NULL, Blocks!Blocks, HP!Blocks,
            Blocks!Payload, HP!Payload, Blocks!Narrowed, HP!Narrowed, Blocks!Want, HP!Want
<1>1. ASSUME NEW req \in Requests, Blocks!MallocFound(req) PROVE HP!MallocFound(req)
  BY <1>1 DEF Blocks!MallocFound, HP!MallocFound, Blocks!FirstFit, HP!FirstFit,
              Blocks!Splits, HP!Splits, Blocks!TakeFront, HP!TakeFront,
              Blocks!TakeWhole, HP!TakeWhole, Blocks!RemoveAt, HP!RemoveAt
<1>2. ASSUME NEW req \in Requests, Blocks!MallocNull(req) PROVE HP!MallocNull(req)
  BY <1>2 DEF Blocks!MallocNull, HP!MallocNull
<1>3. Blocks!FreeNull => HP!FreeNull BY DEF Blocks!FreeNull, HP!FreeNull
<1>4. ASSUME NEW h \in Blocks!Blocks, Blocks!FreeBlock(h) PROVE HP!FreeBlock(h)
  BY <1>4 DEF Blocks!FreeBlock, HP!FreeBlock
<1>5. ASSUME NEW p, Blocks!FreeRefused(p) PROVE HP!FreeRefused(p)
  BY <1>5 DEF Blocks!FreeRefused, HP!FreeRefused
<1> QED BY <1>1, <1>2, <1>3, <1>4, <1>5 DEF Blocks!Next, HP!Next

LEMMA SameAllocator == Spec => HP!Spec
<1>1. [Blocks!Next]_(Blocks!vars) => [HP!Next]_(HP!vars) BY SameNext DEF Blocks!vars, HP!vars
<1> QED BY <1>1, SameInit, CellsImplementBlocks, PTL DEF ImplementsHeap, Blocks!Spec, HP!Spec

\* In memory too the blocks tile the arena and the list is the blocks that are
\* not in use, once each, whatever the program stores.
THEOREM CellsTile == Spec => [](HP!Tiled /\ HP!FreeListExact)
BY SameAllocator, BlocksAssumption, HP!AlwaysTiled, HP!FreeListAlwaysExact, PTL

\* In memory too malloc answers NULL only when no free block is large enough.
THEOREM CellsNullOnlyWhenFull == Spec => []HP!NullMeansFull
BY SameAllocator, BlocksAssumption, HP!NullOnlyWhenFull, PTL

\* From the words in memory to what the program is promised: regions it may
\* write, none of them in another, until it gives them back.
THEOREM CellsKeepPromise ==
  ASSUME HP!NoNarrowing
  PROVE  Spec => HP!KeepsPromise
BY SameAllocator, BlocksAssumption, HP!ImplementsPromise, PTL
=============================================================================
